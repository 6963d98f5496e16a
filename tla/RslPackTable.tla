----------------------------- MODULE RslPackTable -----------------------------
(***************************************************************************)
(* From the points and messages of a procrec to its pack or unpack table:  *)
(* the references comp_sten.c makes to the memory of fields, and           *)
(* process_refs.c, which keeps them sorted, drops duplicates and collapses *)
(* them into strided blocks.  The loops of exch_sten.c then copy the       *)
(* blocks one after the other, on the sender into the message and on the   *)
(* receiver out of it: that an element arrives where it belongs rests on   *)
(* both tables, each built alone from local offsets and local array sizes, *)
(* naming the same elements in the same order.                             *)
(*                                                                         *)
(* Two processors are modelled, the sender and the receiver of one pair,   *)
(* each building a table for one procrec after another, and the elements   *)
(* of fields as places in an array: sizes are in elements (elemsz is 1).   *)
(***************************************************************************)
EXTENDS Integers, Sequences, FiniteSets, SequencesExt

CONSTANTS
  Field,          \* the fields
  Decomp,         \* Decomp[f]: decomp of RSL_BUILD_MESSAGE, one entry per dimension
  Base,           \* Base[s][f]: base address of f on side s
  Local,          \* Local[s][x]: ilocaloffset (x = "M") and jlocaloffset ("N")
  Extent,         \* Extent[s][x]: llen of a dimension of decomposition x
  Message,        \* the messages, each the set of its fields
  Points          \* the sets of (point, message) two processors agree on

Side == {"send", "recv"}

ASSUME PackAssumption ==
  /\ Decomp \in [Field -> Seq({"M", "N", "K"})]
  /\ Base \in [Side -> [Field -> Int]]
  /\ Local \in [Side -> [{"M", "N"} -> Int]]
  /\ Extent \in [Side -> [{"M", "N", "K"} -> Nat \ {0}]]
  /\ Extent["send"]["K"] = Extent["recv"]["K"]
  /\ Message \subseteq (SUBSET Field) \ {{}}
  /\ \A ps \in Points : ps # {} /\ ps \subseteq (Int \X Int) \X Message

\* The tables go by base address, and nothing in the code makes that the same
\* order everywhere: all processors run one executable, and the fields of MM5
\* are in its common blocks.
ASSUME BaseAssumption ==
  \A f, g \in Field : Base["send"][f] < Base["send"][g] <=> Base["recv"][f] < Base["recv"][g]

VARIABLES
  points,         \* what the two procrecs are about
  toStore,        \* toStore[s]: what s has not walked yet
  building,       \* building[s]: between init_process_refs and process_refs
  list,           \* list[s][f]: the records under f's base in s's list_head
  table           \* table[s]: pack_table or unpack_table, <<>> until built

vars == <<points, toStore, building, list, table>>

Rec(offset, n, nelems, stride) ==
  [offset |-> offset, n |-> n, nelems |-> nelems, stride |-> stride]

Init ==
  /\ points \in Points
  /\ toStore = [s \in Side |-> points]
  /\ building = [s \in Side |-> FALSE]
  /\ list = [s \in Side |-> [f \in Field |-> <<>>]]
  /\ table = [s \in Side |-> <<>>]

-------------------------------------------------------------------------------
(* References *)

LLen(s, f) == [d \in DOMAIN Decomp[f] |-> Extent[s][Decomp[f][d]]]

\* The strategies of message_def.c, and what each refers to for a point.
Ref(s, f, pt) ==
  LET i  == pt[1] - Local[s]["M"]
      j  == pt[2] - Local[s]["N"]
      L  == LLen(s, f)
      t0 == L[1]
      t1 == L[2] * t0
  IN CASE Decomp[f] = <<"M", "N">>      -> Rec(i + j * t0, 1, 1, 1)
       [] Decomp[f] = <<"N", "M">>      -> Rec(j + i * t0, 1, 1, 1)
       [] Decomp[f] = <<"M", "N", "K">> -> Rec(i + j * t0, 1, L[3], t1)
       [] Decomp[f] = <<"N", "M", "K">> -> Rec(j + i * t0, 1, L[3], t1)
       [] Decomp[f] = <<"K", "M", "N">> -> Rec(i * t0 + j * t1, t0, 1, 1)
       [] Decomp[f] = <<"M", "K", "N">> -> Rec(i + j * t1, 1, L[2], t0)

\* Mutant of Insert: a reference that is there already is added to its n.
InsertAdding(recs, r) ==
  IF \E x \in DOMAIN recs : recs[x].offset = r.offset
  THEN [x \in DOMAIN recs |-> IF recs[x].offset = r.offset
                              THEN [recs[x] EXCEPT !.n = @ + r.n] ELSE recs[x]]
  ELSE InsertAt(recs, 1 + Cardinality({x \in DOMAIN recs : recs[x].offset < r.offset}), r)

\* store_process_refs: an insertion by offset, in which the longer of two
\* records of one offset is kept (by n alone, whatever nelems and stride).
Insert(recs, r) ==
  IF \E x \in DOMAIN recs : recs[x].offset = r.offset
  THEN [x \in DOMAIN recs |-> IF recs[x].offset = r.offset /\ recs[x].n < r.n
                              THEN [recs[x] EXCEPT !.n = r.n] ELSE recs[x]]
  ELSE InsertAt(recs, 1 + Cardinality({x \in DOMAIN recs : recs[x].offset < r.offset}), r)

-------------------------------------------------------------------------------
(* Collapsing *)

\* Records that continue each other, of equal nelems and stride, become one.
Continues(x, y) ==
  /\ x.stride = y.stride
  /\ x.nelems = y.nelems
  /\ x.offset + x.n = y.offset
Longer(x, y) == [x EXCEPT !.n = @ + y.n]

\* Mutant of Pairs: blocks of different lengths are made elements of one.
PairsAnyLength(x, y) ==
  /\ x.nelems = 1 /\ y.nelems = 1
  /\ y.offset - x.offset > x.n

\* Single blocks of one length become the elements of a strided one.  The
\* loop compares every further offset with the stride again and not with its
\* multiple, so that no more than two ever do.
Pairs(x, y) ==
  /\ x.nelems = 1 /\ y.nelems = 1
  /\ x.n = y.n
  /\ y.offset - x.offset > x.n
Paired(x, y) == [x EXCEPT !.nelems = 2, !.stride = y.offset - x.offset]

\* collapsetable: one pass for each of the two, over the list in order.
Collapse(recs) ==
  LET Join(l, r) == IF l # <<>> /\ Continues(Last(l), r)
                    THEN [l EXCEPT ![Len(l)] = Longer(@, r)] ELSE Append(l, r)
      Pair(l, r) == IF l # <<>> /\ Pairs(Last(l), r)
                    THEN [l EXCEPT ![Len(l)] = Paired(@, r)] ELSE Append(l, r)
  IN FoldLeft(Pair, <<>>, FoldLeft(Join, <<>>, recs))

-------------------------------------------------------------------------------
(* One side builds its table *)

\* init_process_refs: list_head still has what the last procrec left there.
InitProcessRefs(s) ==
  /\ ~ building[s]
  /\ table[s] = <<>>
  /\ building' = [building EXCEPT ![s] = TRUE]
  /\ list' = [list EXCEPT ![s] = [f \in Field |-> <<>>]]
  /\ UNCHANGED <<points, toStore, table>>

\* Every field of a message of a point is stored.  Points and messages are
\* linked lists, built in an order that depends on the side: any order.
StoreProcessRefs(s) ==
  /\ building[s]
  /\ \E pm \in toStore[s] :
       /\ list' = [list EXCEPT ![s] =
                     [f \in Field |-> IF f \in pm[2] THEN Insert(@[f], Ref(s, f, pm[1]))
                                                     ELSE @[f]]]
       /\ toStore' = [toStore EXCEPT ![s] = @ \ {pm}]
  /\ UNCHANGED <<points, building, table>>

\* process_refs: the lists in the order of their bases, each collapsed.  Its
\* sort of a secondary list changes nothing: Insert keeps the lists sorted.
ProcessRefs(s) ==
  /\ building[s]
  /\ toStore[s] = {}
  /\ LET collapsed == [f \in Field |-> Collapse(list[s][f])]
         byBase(f, g) == Base[s][f] < Base[s][g]
         fields == SetToSortSeq({f \in Field : list[s][f] # <<>>}, byBase)
         ofField(f) == [x \in DOMAIN collapsed[f] |-> [field |-> f, rec |-> collapsed[f][x]]]
     IN /\ table' = [table EXCEPT ![s] = FlattenSeq([x \in DOMAIN fields |-> ofField(fields[x])])]
        /\ list' = [list EXCEPT ![s] = collapsed]
  /\ building' = [building EXCEPT ![s] = FALSE]
  /\ UNCHANGED <<points, toStore>>

Built == \A s \in Side : ~ building[s] /\ table[s] # <<>>

\* Both sides go on to the procrecs of another pair, or another stencil.
NextProcrec ==
  /\ Built
  /\ points' \in Points
  /\ toStore' = [s \in Side |-> points']
  /\ table' = [s \in Side |-> <<>>]
  /\ UNCHANGED <<building, list>>

Next == \/ \E s \in Side : InitProcessRefs(s) \/ StoreProcessRefs(s) \/ ProcessRefs(s)
        \/ NextProcrec

Spec == Init /\ [][Next]_vars

-------------------------------------------------------------------------------
(* The exchange that uses the tables *)

\* The elements a record goes over, in the order of the copying loops.
Block(entry) ==
  LET r == entry.rec
  IN [x \in 1..(r.nelems * r.n) |->
        <<entry.field, r.offset + ((x - 1) \div r.n) * r.stride + ((x - 1) % r.n)>>]

\* The x-th element of a message is the x-th the packing loop goes over, and
\* the unpacking loop puts it at the x-th of its own.
Walk(t) == FlattenSeq([x \in DOMAIN t |-> Block(t[x])])

-------------------------------------------------------------------------------
(* Correctness *)

Stored == [offset : Nat, n : {1, Extent["send"]["K"]},
           nelems : {1, Extent["send"]["K"]}, stride : Nat \ {0}]
Entry  == [field : Field, rec : [offset : Nat, n : Nat \ {0}, nelems : Nat \ {0},
                                 stride : Nat \ {0}]]

TypeOK ==
  /\ points \in Points
  /\ toStore \in [Side -> SUBSET points]
  /\ building \in [Side -> BOOLEAN]
  /\ \A s \in Side : building[s] => list[s] \in [Field -> Seq(Stored)]
  /\ \A s \in Side : table[s] \in Seq(Entry)

\* Where the memory of side s has level k of field f at point pt: Fortran's
\* order of an array that is declared with the dimensions of decomp.
Address(s, f, pt, k) ==
  LET at == [d \in DOMAIN Decomp[f] |->
               CASE Decomp[f][d] = "M" -> pt[1] - Local[s]["M"]
                 [] Decomp[f][d] = "N" -> pt[2] - Local[s]["N"]
                 [] Decomp[f][d] = "K" -> k]
      L  == LLen(s, f)
  IN at[1] + L[1] * (at[2] + (IF Len(at) = 3 THEN L[2] * at[3] ELSE 0))

Levels(f) == IF Len(Decomp[f]) = 3 THEN 0..(Extent["send"]["K"] - 1) ELSE {0}

\* Where an exchange must copy what: every level of every field of every
\* message of every point, from its place at the sender to its place at the
\* receiver.
Required ==
  UNION {UNION {{[from |-> <<f, Address("send", f, pm[1], k)>>,
                  to   |-> <<f, Address("recv", f, pm[1], k)>>] : k \in Levels(f)}
           : f \in pm[2]}
    : pm \in points}

\* The two loops move exactly those elements, between arrays of different
\* sizes and offsets, and the posted size is that of the message sent
\* (exch_sten.c:66-69, 204-208, 270-274).  None travels twice, however often
\* points, messages and fields overlap: "This routine checks to ensure that
\* recs that are complete duplicates (which can happen) are not added"
\* (process_refs.c:25-27).
TransferExact ==
  Built =>
    LET out == Walk(table["send"])
        in  == Walk(table["recv"])
    IN /\ Len(out) = Len(in) /\ Len(in) = Cardinality(Required)
       /\ {[from |-> out[x], to |-> in[x]] : x \in DOMAIN in} = Required
===============================================================================
