------------------------------ MODULE RslStencil ------------------------------
(***************************************************************************)
(* Describing a stencil on a domain (stencil_def.c), compiling it into the *)
(* pack and unpack tables of every neighbour (comp_sten.c), and giving the *)
(* domain another decomposition (decomp.c, rsl_new_decom.c).               *)
(*                                                                         *)
(* Every processor runs the same sequence of these calls, and none of them *)
(* communicates: each works out alone, from its own copy of the whole      *)
(* decomposition, what it will send and what it will get.  The module      *)
(* therefore steps through the calls with all processors in lock-step, and *)
(* keeps the tables each one has computed.  Module RslExchange is what     *)
(* happens inside an exchange that uses them.                              *)
(***************************************************************************)
EXTENDS Naturals, Sequences

CONSTANTS
  Proc,           \* the compute processors
  Nobody,         \* RSL_INVALID in place of a processor
  Point,          \* the cells of the domain
  Trimmed,        \* cells trim_domain leaves out of the computation
  Shape,          \* the maskids, RSL_4PT to RSL_168PT
  DomainShape,    \* maskid of the domain: its "largest stencil"
  Pts,            \* Pts[shape]: the indices of its points
  At,             \* At[shape][k][h]: the k-th point of the stencil around h
  Outside,        \* what At gives beyond the edge of the domain
  Inv,            \* Inv[shape][k]: index of h as seen from At[shape][k][h]
  Field,          \* the fields messages are built from
  Messages,       \* Messages[shape]: the arrays of messages models describe
  Decomps,        \* the decompositions a mapping function returns
  Undescribed,    \* a stencil with no points and messages on the domain yet
  MaxSten,        \* RSL_MAXDESCRIPTORS - 1: stencil 0 is never handed out
  Decomposed0,    \* whether decomposing the new domain may have failed
  Redescribe      \* whether the model describes a stencil again

ASSUME StencilAssumption ==
  /\ Nobody \notin Proc
  /\ Outside \notin Point
  /\ Trimmed \subseteq Point
  /\ DomainShape \in Shape
  /\ \A sh \in Shape :
       /\ At[sh] \in [Pts[sh] -> [Point -> Point \union {Outside}]]
       /\ Inv[sh] \in [Pts[sh] -> Pts[sh]]
       /\ Messages[sh] \subseteq [Pts[sh] -> SUBSET Field]
  /\ Decomps \subseteq [Point -> Proc \union {Nobody}]
  /\ MaxSten \in Nat
  /\ Decomposed0 \subseteq BOOLEAN
  /\ Redescribe \in BOOLEAN

\* What the tables of pt.c give f for pt and ipt: the way back, and only one.
ASSUME PointsAssumption ==
  \A sh \in Shape : \A k \in Pts[sh] :
    /\ Inv[sh][Inv[sh][k]] = k
    /\ \A h \in Point : At[sh][k][h] \in Point => At[sh][Inv[sh][k]][At[sh][k][h]] = h

Handles == 1..MaxSten

VARIABLES
  owner,          \* P of every point, as every processor knows it
  decomposed,     \* dinfo->decomposed
  used,           \* the entries of sh_descriptors that are not NULL
  sten,           \* sten[s]: shape and messages of stencil s on the domain
  stenlist,       \* the domain's list of stencils, stencurs its length
  compiled,       \* sten->compiled
  procs,          \* procs[s][p][q]: p's procrecs for q, latest first
  exch            \* the stencil whose exchange is running, or 0

vars == <<owner, decomposed, used, sten, stenlist, compiled, procs, exch>>

Descriptions == UNION {{[shape |-> sh, msgs |-> m] : m \in Messages[sh]} : sh \in Shape}

ASSUME UndescribedAssumption == Undescribed \notin Descriptions

Refs    == Point \X Field
Procrec == [pack : SUBSET Refs, unpack : SUBSET Refs]

NoProcs == [p \in Proc |-> [q \in Proc |-> <<>>]]

\* RSL_MOTHER_DOMAIN: the new domain is decomposed at once, or not at all.
Init ==
  /\ decomposed \in Decomposed0
  /\ IF decomposed THEN owner \in Decomps ELSE owner = [c \in Point |-> Nobody]
  /\ used = {}
  /\ sten = [s \in Handles |-> Undescribed]
  /\ stenlist = <<>>
  /\ compiled = [s \in Handles |-> FALSE]
  /\ procs = [s \in Handles |-> NoProcs]
  /\ exch = 0

-------------------------------------------------------------------------------
(* What one processor works out *)

\* q has a point that computes and that p meets on the domain's stencil: it
\* is in p's ghost_pts, and gets a procrec (rsl_new_decom.c:349, comp_sten.c:373).
Neighbour(o, p, q) ==
  /\ p # q
  /\ \E h \in Point, k \in Pts[DomainShape] :
       LET c == At[DomainShape][k][h]
       IN c \in Point \ Trimmed /\ o[h] = p /\ o[c] = q

\* Mutant of UnpackTable: the point's index is not inverted.
UnpackTablePt(o, d, p, q) ==
  {r \in Refs : /\ o[r[1]] = q
                /\ \E k \in Pts[d.shape] : LET c == At[d.shape][k][r[1]]
                     IN c \in Point /\ o[c] = p /\ r[2] \in d.msgs[k]}

\* Sends to q: p's points on the stencil of a point of q, with the messages
\* the stencil has for them there (steps 1.1 of the algorithm).
PackTable(o, d, p, q) ==
  {r \in Refs : /\ o[r[1]] = p
                /\ \E h \in Point, k \in Pts[d.shape] :
                     o[h] = q /\ At[d.shape][k][h] = r[1] /\ r[2] \in d.msgs[k]}

\* Receives from q: its points that have one of p's on their stencil, with
\* the messages of the inverse index (steps 2.1).
UnpackTable(o, d, p, q) ==
  {r \in Refs : /\ o[r[1]] = q
                /\ \E k \in Pts[d.shape] : LET c == At[d.shape][k][r[1]]
                     IN c \in Point /\ o[c] = p /\ r[2] \in d.msgs[Inv[d.shape][k]]}

NewProcrec(o, d, p, q) == [pack |-> PackTable(o, d, p, q), unpack |-> UnpackTable(o, d, p, q)]

\* Compiling puts a new procrec for each neighbour before what is there.
WithNew(old, o, d) ==
  [p \in Proc |-> [q \in Proc |->
     IF Neighbour(o, p, q) THEN <<NewProcrec(o, d, p, q)>> \o old[p][q] ELSE old[p][q]]]

\* Mutant of Uncompiled: the last stencil of the list is forgotten.
UncompiledButLast == {stenlist[i] : i \in 1..(Len(stenlist) - 1)}

\* destroy_decomposition uncompiles the stencils of the domain's list.
Uncompiled == {stenlist[i] : i \in 1..Len(stenlist)}

-------------------------------------------------------------------------------
(* The calls *)

\* RSL_CREATE_STENCIL: the lowest free descriptor.
CreateStencil ==
  \E s \in Handles \ used :
    /\ \A t \in 1..(s - 1) : t \in used
    /\ used' = used \union {s}
    /\ exch' = 0
    /\ UNCHANGED <<owner, decomposed, sten, stenlist, compiled, procs>>

\* Mutant of DescribeStencil: the list takes the count of stencils, not s.
DescribeStencilCounts(s, d) ==
  /\ s \in used
  /\ sten[s] = Undescribed \/ Redescribe
  /\ Len(stenlist) < MaxSten
  /\ sten' = [sten EXCEPT ![s] = d]
  /\ compiled' = [compiled EXCEPT ![s] = FALSE]
  /\ stenlist' = Append(stenlist, Len(stenlist))
  /\ exch' = 0
  /\ UNCHANGED <<owner, decomposed, used, procs>>

\* RSL_DESCRIBE_STENCIL: the flag is cleared, the procrecs are not.
DescribeStencil(s, d) ==
  /\ s \in used
  /\ sten[s] = Undescribed \/ Redescribe
  /\ Len(stenlist) < MaxSten
  /\ sten' = [sten EXCEPT ![s] = d]
  /\ compiled' = [compiled EXCEPT ![s] = FALSE]
  /\ stenlist' = Append(stenlist, s)
  /\ exch' = 0
  /\ UNCHANGED <<owner, decomposed, used, procs>>

\* RSL_EXCH_STENCIL of a stencil that is compiled.
Exchange(s) ==
  /\ sten[s] # Undescribed
  /\ compiled[s]
  /\ exch' = s
  /\ UNCHANGED <<owner, decomposed, used, sten, stenlist, compiled, procs>>

\* RSL_EXCH_STENCIL of one that is not: rsl_compile_stencil compiles it first.
ExchangeCompiles(s) ==
  /\ sten[s] # Undescribed
  /\ ~ compiled[s]
  /\ decomposed
  /\ compiled' = [compiled EXCEPT ![s] = TRUE]
  /\ procs' = [procs EXCEPT ![s] = WithNew(@, owner, sten[s])]
  /\ exch' = s
  /\ UNCHANGED <<owner, decomposed, used, sten, stenlist>>

\* The same on a domain that has no decomposition: one is made, which in turn
\* uncompiles every stencil, the one being compiled with its flag already set
\* included; or that fails again, which rsl_compile_stencil does not look at.
ExchangeDecomposes(s) ==
  /\ sten[s] # Undescribed
  /\ ~ compiled[s]
  /\ ~ decomposed
  /\ \/ \E o \in Decomps :
          LET old == [t \in Handles |-> IF t \in Uncompiled THEN NoProcs ELSE procs[t]]
          IN /\ owner' = o
             /\ decomposed' = TRUE
             /\ compiled' = [t \in Handles |-> IF t \in Uncompiled THEN FALSE
                                                ELSE compiled[t] \/ t = s]
             /\ procs' = [old EXCEPT ![s] = WithNew(@, o, sten[s])]
     \/ /\ compiled' = [compiled EXCEPT ![s] = TRUE]
        /\ procs' = [procs EXCEPT ![s] = WithNew(@, owner, sten[s])]
        /\ UNCHANGED <<owner, decomposed>>
  /\ exch' = s
  /\ UNCHANGED <<used, sten, stenlist>>

\* RSL_FDECOMPOSE with what the mapping function returned.
FDecompose(o) ==
  /\ owner' = o
  /\ decomposed' = TRUE
  /\ compiled' = [t \in Handles |-> t \notin Uncompiled /\ compiled[t]]
  /\ procs' = [t \in Handles |-> IF t \in Uncompiled THEN NoProcs ELSE procs[t]]
  /\ exch' = 0
  /\ UNCHANGED <<used, sten, stenlist>>

\* RSL_FDECOMPOSE when the mapping function fails: "Decomposition not changed."
FDecomposeFails ==
  /\ exch' = 0
  /\ UNCHANGED <<owner, decomposed, used, sten, stenlist, compiled, procs>>

Next ==
  \/ CreateStencil
  \/ \E s \in Handles : \/ \E d \in Descriptions : DescribeStencil(s, d)
                        \/ Exchange(s)
                        \/ ExchangeCompiles(s)
                        \/ ExchangeDecomposes(s)
  \/ \E o \in Decomps : FDecompose(o)
  \/ FDecomposeFails

Spec == Init /\ [][Next]_vars

-------------------------------------------------------------------------------
(* Correctness *)

TypeOK ==
  /\ owner \in [Point -> Proc \union {Nobody}]
  /\ decomposed \in BOOLEAN
  /\ used \in SUBSET Handles
  /\ sten \in [Handles -> Descriptions \union {Undescribed}]
  /\ stenlist \in Seq(Handles)
  /\ compiled \in [Handles -> BOOLEAN]
  /\ procs \in [Handles -> [Proc -> [Proc -> Seq(Procrec)]]]
  /\ exch \in Handles \union {0}

\* p's procrecs for q mirror q's for p: as many, and what one packs the other
\* unpacks, reference for reference.
Mirror(t, p, q) ==
  /\ Len(t[p][q]) = Len(t[q][p])
  /\ \A i \in 1..Len(t[p][q]) : t[p][q][i].pack = t[q][p][i].unpack

\* In every exchange, each two processors, which worked it out alone, agree on
\* how many messages pass between them and on what is in them: otherwise one
\* waits for a message that is never sent, or unpacks what is not there
\* (comp_sten.c:98-131).
TablesAgree == exch # 0 => \A p, q \in Proc : Mirror(procs[exch], p, q)

\* What the description of the stencil asks for: each point of p, by its own
\* stencil, the fields of the k-th message from the k-th point.
Required(o, d, p, q) ==
  {r \in Refs : /\ o[r[1]] = q
                /\ \E h \in Point, k \in Pts[d.shape] :
                     o[h] = p /\ At[d.shape][k][h] = r[1] /\ r[2] \in d.msgs[k]}

\* In every exchange p unpacks from q the cells and fields the description of
\* the stencil names in the decomposition now in force, no fewer and no others
\* (stencil_def.c:119-141); tables of a decomposition or a description that
\* is gone are never used.
ExchangesTheStencil ==
  exch # 0 => \A p, q \in Proc : p # q =>
    UNION {procs[exch][p][q][i].unpack : i \in 1..Len(procs[exch][p][q])}
      = Required(owner, sten[exch], p, q)

\* "There is one node for each physical processor this processor will need to
\* communicate with for this stencil" (comp_sten.c:82-87): never two, whose
\* receives would share one buffer and one tag, and never none.
OneNodePerProcessor ==
  exch # 0 => \A p, q \in Proc : p # q =>
    /\ Len(procs[exch][p][q]) <= 1
    /\ Required(owner, sten[exch], p, q) # {} => Len(procs[exch][p][q]) = 1

-------------------------------------------------------------------------------
(* What the calling model owes, for the theorems *)

\* No stencil reaches beyond the domain's own (domain_def.c:71-72).
ShapesFit ==
  \A sh \in Shape : \A h \in Point, k \in Pts[sh] :
    At[sh][k][h] \in Point =>
      \E j \in Pts[DomainShape] : At[DomainShape][j][h] = At[sh][k][h]

\* Two processors that meet at all meet at points that compute.
TouchUntrimmed ==
  \A o \in Decomps : \A h \in Point, k \in Pts[DomainShape] :
    LET c == At[DomainShape][k][h]
    IN c \in Point /\ o[h] \in Proc /\ o[c] \in Proc /\ o[c] # o[h]
         => Neighbour(o, o[h], o[c])

-------------------------------------------------------------------------------
(* The inductive invariants *)

\* For TablesAgree.
MirrorInv ==
  /\ owner \in Decomps \union {[c \in Point |-> Nobody]}
  /\ \A s \in Handles : \A p, q \in Proc : Mirror(procs[s], p, q)

\* A stencil that is compiled, or exchanged, has a node for every neighbour.
Built(s) == /\ sten[s] # Undescribed
            /\ \A p, q \in Proc : Neighbour(owner, p, q) => procs[s][p][q] # <<>>

\* For ExchangesTheStencil, when stencils are described once: whatever nodes
\* there are, are of the description and of the decomposition in force.
CurrentInv ==
  /\ \A s \in Handles : sten[s] # Undescribed => s \in Uncompiled
  /\ \A s \in Handles : compiled[s] \/ exch = s => Built(s)
  /\ \A s \in Handles : \A p, q \in Proc : \A i \in 1..Len(procs[s][p][q]) :
       /\ sten[s] # Undescribed
       /\ procs[s][p][q][i] = NewProcrec(owner, sten[s], p, q)

\* For OneNodePerProcessor, when the domain is decomposed from the start.
OnceInv ==
  /\ decomposed
  /\ \A s \in Handles : \A p, q \in Proc :
       /\ Len(procs[s][p][q]) <= 1
       /\ ~ compiled[s] => procs[s][p][q] = <<>>
===============================================================================
