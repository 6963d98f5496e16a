----------------------------- MODULE RslIoProofs -----------------------------
(***************************************************************************)
(* What RSL_READ and RSL_WRITE guarantee for any number of processors, any *)
(* domain and decomposition and any sequence of calls.                     *)
(*                                                                         *)
(* The argument is about what is under way between the monitor and one     *)
(* other processor.  How far each of them has got in its calls determines  *)
(* which messages have been sent and which of them have been received, so  *)
(* what is in flight is exactly the difference; and messages are in flight *)
(* in the order of their calls.  So the first message of a kind is the     *)
(* one its receiver is waiting for.                                        *)
(***************************************************************************)
EXTENDS RslIo, FiniteSetTheorems, SequenceTheorems, WellFoundedInduction, TLAPS

-------------------------------------------------------------------------------
(* Where the processors are *)

\* The length of the program, and calls of the right operation at each place.
PlacesInv ==
  /\ \A p \in Proc : call[p] \in 1..(Len(prog) + 1)
  /\ \A p \in Worker : /\ pc[p] \in {"resp", "share"} => Now(p).op = "read"
                       /\ pc[p] \in {"go", "data", "sending"} => Now(p).op = "write"
  /\ pc[Monitor] \in {"model", "loop", "answering", "answered", "shipping", "going", "collect"}
  /\ pc[Monitor] = "loop" => Now(Monitor).op \in {"read", "write"}
  /\ pc[Monitor] \in {"answering", "answered", "shipping"}
       => Now(Monitor).op = "read" /\ loopP \in Worker
  /\ pc[Monitor] \in {"going", "collect"} => Now(Monitor).op = "write" /\ loopP \in Worker

\* The variables that are functions of processors.
IsSeq(s) == s \in Seq(Range(s))
ShapesInv ==
  /\ DOMAIN field = Proc /\ DOMAIN pbuf = Proc
  /\ DOMAIN net = Proc /\ \A p \in Proc : DOMAIN net[p] = Proc
  /\ \A p, q \in Proc : IsSeq(net[p][q])

-------------------------------------------------------------------------------
(* What is in flight *)

\* The messages of the monitor to each other processor in a call.
Parts(c) == IF c.op = "read" THEN {"resp", "data"} ELSE IF c.op = "write" THEN {"go"} ELSE {}

\* The monitor has been in its loop where it sends a part to q.
Since(part) == CASE part = "resp" -> {"answering", "answered", "shipping"}
                 [] part = "data" -> {"shipping"}
                 [] part = "go"   -> {"going", "collect"}
Sent(q, n, part) ==
  \/ n < call[Monitor]
  \/ /\ n = call[Monitor] /\ pc[Monitor] # "model"
     /\ loopP > q \/ (loopP = q /\ pc[Monitor] \in Since(part))

\* q has received a part; the share is the last thing it waits for.
After(part) == CASE part = "resp" -> {"share"}
                 [] part = "data" -> {}
                 [] part = "go"   -> {"data", "sending"}
Got(q, n, part) == n < call[q] \/ (n = call[q] /\ pc[q] \in After(part))

Due(q) == {m \in (1..Len(prog)) \X {"resp", "data", "go"} :
             m[2] \in Parts(prog[m[1]]) /\ Sent(q, m[1], m[2]) /\ ~ Got(q, m[1], m[2])}

\* q has sent its part of a record that is written; the monitor has it.
Posted(q, n) == n < call[q] \/ (n = call[q] /\ pc[q] = "sending")
Collected(q, n) ==
  n < call[Monitor] \/ (n = call[Monitor] /\ pc[Monitor] # "model" /\ loopP > q)

Owed(q) == {m \in (1..Len(prog)) \X {"data"} :
              prog[m[1]].op = "write" /\ Posted(q, m[1]) /\ ~ Collected(q, m[1])}

Key(m) == <<m.call, m.what>>
Keys(s) == {Key(s[x]) : x \in DOMAIN s}
Earlier(a, b) == a[1] < b[1] \/ (a[1] = b[1] /\ a[2] = "resp" /\ b[2] = "data")
InOrder(s) == \A x, y \in DOMAIN s : x < y => Earlier(Key(s[x]), Key(s[y]))

\* What a receive from a tag gets is told by its kind only.
NetOf(q) ==
  /\ Keys(net[Monitor][q]) = Due(q) /\ InOrder(net[Monitor][q])
  /\ \A x \in DOMAIN net[Monitor][q] :
       net[Monitor][q][x].kind = IF net[Monitor][q][x].what = "go" THEN "write" ELSE "read"
  /\ Keys(net[q][Monitor]) = Owed(q) /\ InOrder(net[q][Monitor])
  /\ \A x \in DOMAIN net[q][Monitor] : net[q][Monitor][x].kind = "write"

\* Nothing is received before it is sent.
CausalOf(q) ==
  \A n \in 1..Len(prog) :
    /\ \A part \in Parts(prog[n]) : Got(q, n, part) => Sent(q, n, part)
    /\ prog[n].op = "write" /\ Collected(q, n) => Posted(q, n)

NetInv == \A q \in Worker : NetOf(q) /\ CausalOf(q)

-------------------------------------------------------------------------------
(* What the messages and buffers hold *)

\* A record as the monitor reads it, the share of it that p gets, and p's part
\* of one that is written.
ReadRecord(n) == [cell \in Padded(prog[n]) |->
                    IF cell \in Cells(prog[n]) THEN Elem(cell, n) ELSE Junk]
Share(p, n) == Packed(ReadRecord(n), ShareOrder(prog[n], p))
Part(p, n)  == [x \in DOMAIN PackOrder(prog[n], p) |-> Elem(PackOrder(prog[n], p)[x], n)]

ToWorker(q, m)  == m.body = IF m.what = "data" THEN Share(q, m.call) ELSE <<>>
ToMonitor(q, m) == m.body = Part(q, m.call)

BodiesInv ==
  \A q \in Worker : /\ \A x \in DOMAIN net[Monitor][q] : ToWorker(q, net[Monitor][q][x])
                    /\ \A x \in DOMAIN net[q][Monitor] : ToMonitor(q, net[q][Monitor][x])

\* What a processor has packed, and what the monitor has read.
PackedInv == \A p \in Worker : pc[p] \in {"go", "data"} => pbuf[p] = Part(p, call[p])
ServedInv ==
  pc[Monitor] # "model" /\ Now(Monitor).op = "read" =>
    /\ gbuf = ReadRecord(call[Monitor])
    /\ loopP > Monitor => pbuf[Monitor] = Share(Monitor, call[Monitor])

\* The elements of those who have been asked have got to their places.
GatheredInv ==
  pc[Monitor] # "model" /\ Now(Monitor).op = "write" =>
    /\ loopP = Monitor => pbuf[Monitor] = Part(Monitor, call[Monitor])
    /\ gbuf = [cell \in Cells(Now(Monitor)) |-> gbuf[cell]]
    /\ \A cell \in Cells(Now(Monitor)) :
         Owner[<<cell[1], cell[2]>>] < loopP => gbuf[cell] = Elem(cell, call[Monitor])

\* The records are sequences of those of calls that have returned.
RecordsInv ==
  /\ IsSeq(file) /\ IsSeq(wlist) /\ RecordsInOrder
  /\ \A r \in Range(file) \union Range(wlist) : r.call \in 1..(call[Monitor] - 1)
  /\ user # <<>> => user.call \in 1..(call[Monitor] - 1)

\* The layouts of which RSL_WRITE packs a regular part as the monitor unpacks it
\* (all but JIK).
LayoutsAgree ==
  \A s \in Setups : s.regular => \A c \in s.calls : c.op = "write" => c.layout # "JIK"

-------------------------------------------------------------------------------
(* Setups, calls and sequences *)

LEMMA SetupFacts ==
  ASSUME setup \in Setups
  PROVE  /\ MaxCall \in Nat /\ Owner \in [Point -> Proc]
         /\ \A c \in Calls : c \in Call /\ c.op \in {"read", "write", "header", "flush"}
         /\ \A c \in Calls : c.op \in {"read", "write"} =>
              c.m \in 1..Rows /\ c.n \in 1..Cols /\ c.k \in Nat \ {0}
<1>1. SetupOK(setup)
  BY IoAssumption
<1>2. \A c \in Call : c.op \in {"read", "write", "header", "flush"}
  BY DEF Call
<1>3. \A c \in Call : c.op \in {"read", "write"} =>
        c.m \in 1..Rows /\ c.n \in 1..Cols /\ c.k \in Nat \ {0}
  BY DEF Call
<1> QED BY <1>1, <1>2, <1>3 DEF SetupOK, MaxCall, Owner, Calls

LEMMA Numbers ==
  /\ NProc \in Nat \ {0, 1} /\ Monitor = 0 /\ Monitor \in Proc
  /\ Worker = 1..(NProc - 1) /\ Worker \subseteq Proc
  /\ \A p \in Proc : p \in Nat /\ (p # Monitor <=> p \in Worker)
BY IoAssumption DEF Monitor, Proc, Worker

LEMMA SeqIsSeq ==
  ASSUME NEW S, NEW s \in Seq(S)
  PROVE  IsSeq(s)
<1>1. Len(s) \in Nat /\ s \in [1..Len(s) -> S]
  OBVIOUS
<1>2. s \in [1..Len(s) -> Range(s)]
  BY <1>1 DEF Range
<1> QED BY <1>1, <1>2, IsASeq DEF IsSeq

LEMMA IsSeqFacts ==
  ASSUME NEW s, IsSeq(s)
  PROVE  /\ Len(s) \in Nat /\ DOMAIN s = 1..Len(s)
         /\ s # <<>> <=> Len(s) > 0
BY DEF IsSeq

LEMMA AppendFacts ==
  ASSUME NEW s, IsSeq(s), NEW m
  PROVE  /\ IsSeq(Append(s, m)) /\ DOMAIN Append(s, m) = 1..(Len(s) + 1)
         /\ \A x \in 1..Len(s) : Append(s, m)[x] = s[x]
         /\ Append(s, m)[Len(s) + 1] = m
<1> DEFINE S == Range(s) \union {m}
<1>1. s \in Seq(S) /\ m \in S
  BY SeqMonotonic DEF IsSeq
<1>2. Append(s, m) \in Seq(S)
  BY <1>1
<1> HIDE DEF S
<1>3. IsSeq(Append(s, m))
  BY <1>2, SeqIsSeq
<1> QED BY <1>1, <1>3

LEMMA RemoveFacts ==
  ASSUME NEW s, IsSeq(s), NEW x \in DOMAIN s
  PROVE  /\ IsSeq(RemoveAt(s, x)) /\ DOMAIN RemoveAt(s, x) = 1..(Len(s) - 1)
         /\ \A y \in 1..(Len(s) - 1) :
              RemoveAt(s, x)[y] = IF y < x THEN s[y] ELSE s[y + 1]
<1> DEFINE S == Range(s)
           a == SubSeq(s, 1, x - 1)
           b == SubSeq(s, x + 1, Len(s))
<1>1. s \in Seq(S) /\ Len(s) \in Nat /\ x \in 1..Len(s)
  BY DEF IsSeq
<1> HIDE DEF S
<1>2. a \in Seq(S) /\ Len(a) = x - 1 /\ \A y \in 1..(x - 1) : a[y] = s[y]
  BY <1>1
<1>3. b \in Seq(S) /\ Len(b) = Len(s) - x /\ \A y \in 1..(Len(s) - x) : b[y] = s[x + y]
  BY <1>1
<1> HIDE DEF a, b
<1>4. a \o b \in Seq(S) /\ Len(a \o b) = Len(s) - 1
  BY <1>1, <1>2, <1>3
<1>5. ASSUME NEW y \in 1..(Len(s) - 1)
      PROVE  (a \o b)[y] = IF y < x THEN s[y] ELSE s[y + 1]
  <2>1. CASE y < x
    BY <1>1, <1>2, <1>3, <2>1
  <2>2. CASE ~ (y < x)
    <3>0. /\ y \in 1..(Len(a) + Len(b)) /\ y > Len(a) /\ y - Len(a) = y - (x - 1)
          /\ Len(a) \in Nat /\ Len(b) \in Nat
      BY <1>1, <1>2, <1>3, <2>2
    <3>1. (a \o b)[y] = b[y - (x - 1)]
      <4>1. a \in Seq(S) /\ b \in Seq(S)
        BY <1>2, <1>3
      <4>2. (a \o b)[y] = IF y <= Len(a) THEN a[y] ELSE b[y - Len(a)]
        BY <3>0, <4>1, ConcatProperties
      <4> QED BY ONLY <3>0, <4>2
    <3>2. y - (x - 1) \in 1..(Len(s) - x) /\ x + (y - (x - 1)) = y + 1
      BY <1>1, <2>2
    <3> QED BY <1>3, <2>2, <3>1, <3>2
  <2> QED BY <2>1, <2>2
<1>6. RemoveAt(s, x) = a \o b
  BY DEF RemoveAt, a, b
<1>7. DOMAIN (a \o b) = 1..(Len(s) - 1)
  BY <1>1, <1>4
<1>8. IsSeq(a \o b)
  BY <1>4, SeqIsSeq
<1> QED BY <1>5, <1>6, <1>7, <1>8

LEMMA LeastOf ==
  ASSUME NEW T \in SUBSET Nat, T # {}
  PROVE  \E x \in T : \A y \in T : x <= y
<1>1. PICK x \in T : \A y \in T : ~ (<<y, x>> \in OpToRel(<, Nat))
  BY NatLessThanWellFounded, WFMin
<1>2. \A y \in T : ~ (y < x)
  BY <1>1 DEF OpToRel
<1> QED BY <1>2

-------------------------------------------------------------------------------
(* The types, and where the processors are *)

SInv == TypeOK /\ PlacesInv /\ ShapesInv

LEMMA MakesFacts ==
  ASSUME TypeOK, NEW p \in Proc, call[p] \in 1..(Len(prog) + 1), NEW c \in Calls, Makes(p, c)
  PROVE  /\ prog' \in Seq(Calls) /\ Len(prog') <= MaxCall
         /\ Len(prog') \in Nat /\ Len(prog) \in Nat
         /\ Len(prog') = Len(prog) \/ (Len(prog') = Len(prog) + 1 /\ call[p] = Len(prog'))
         /\ \A n \in 1..Len(prog) : prog'[n] = prog[n]
         /\ call[p] \in 1..Len(prog') /\ prog'[call[p]] = c
         /\ pc[p] = "model" /\ setup' = setup
<1>1. prog \in Seq(Calls) /\ Len(prog) \in Nat /\ Len(prog) <= MaxCall /\ MaxCall \in Nat
  BY SetupFacts DEF TypeOK
<1>2. CASE call[p] <= Len(prog) /\ c = prog[call[p]] /\ prog' = prog
  BY <1>1, <1>2 DEF Makes
<1>3. CASE call[p] > Len(prog) /\ prog' = Append(prog, c)
  <2>1. call[p] = Len(prog) + 1 /\ call[p] <= MaxCall
    BY <1>1, <1>3 DEF Makes
  <2>2. prog' \in Seq(Calls) /\ Len(prog') = Len(prog) + 1
    BY <1>1, <1>3
  <2>3. \A n \in 1..Len(prog) : prog'[n] = prog[n]
    BY <1>1, <1>3
  <2>4. prog'[Len(prog) + 1] = c
    BY <1>1, <1>3
  <2> QED BY <1>1, <2>1, <2>2, <2>3, <2>4 DEF Makes
<1> QED BY <1>2, <1>3 DEF Makes

LEMMA StructureInit == Init => SInv
<1> SUFFICES ASSUME Init
             PROVE  SInv
  OBVIOUS
<1>1. setup \in Setups /\ MaxCall \in Nat
  BY SetupFacts DEF Init
<1>2. IsSeq(<<>>)
  BY SeqIsSeq, EmptySeq
<1>3. prog \in Seq(Calls) /\ Len(prog) = 0
  BY DEF Init
<1>4. TypeOK
  BY <1>1, <1>3, Numbers DEF Init, TypeOK
<1>5. PlacesInv
  BY <1>3, Numbers DEF Init, PlacesInv
<1>6. ShapesInv
  BY <1>2 DEF Init, ShapesInv
<1> QED BY <1>4, <1>5, <1>6 DEF SInv

\* MPI_Recv gets the first message of its kind.
LEMMA FirstOfFacts ==
  ASSUME NEW p \in Proc, NEW q \in Proc, NEW kind, IsSeq(net[q][p]), Ready(q, p, kind)
  PROVE  LET s == net[q][p]
             x == FirstOf(q, p, kind)
         IN /\ x \in DOMAIN s /\ s[x].kind = kind /\ Received(q, p, kind) = s[x]
            /\ \A y \in DOMAIN s : y < x => s[y].kind # kind
<1> DEFINE T == {x \in DOMAIN net[q][p] : net[q][p][x].kind = kind}
<1>1. T \in SUBSET Nat /\ T # {} /\ DOMAIN net[q][p] \subseteq Nat
  BY IsSeqFacts DEF Ready
<1>2. PICK x \in T : \A y \in T : x <= y
  BY <1>1, LeastOf
<1>3. x \in DOMAIN net[q][p] /\ net[q][p][x].kind = kind
  OBVIOUS
<1>4. \A y \in DOMAIN net[q][p] : y < x => net[q][p][y].kind # kind
  <2> SUFFICES ASSUME NEW y \in DOMAIN net[q][p], y < x, net[q][p][y].kind = kind
               PROVE  FALSE
    OBVIOUS
  <2>1. y \in T /\ x <= y
    BY <1>2
  <2> QED BY <1>1, <2>1
<1> HIDE DEF T
<1> QED BY <1>3, <1>4 DEF FirstOf, Received

LEMMA PostFacts ==
  ASSUME ShapesInv, NEW p \in Proc, NEW q \in Proc, NEW m, Post(p, q, m)
  PROVE  /\ DOMAIN net' = Proc /\ \A r \in Proc : DOMAIN net'[r] = Proc
         /\ \A r, t \in Proc : IsSeq(net'[r][t])
         /\ net'[p][q] = Append(net[p][q], m)
         /\ \A r, t \in Proc : r # p \/ t # q => net'[r][t] = net[r][t]
<1>1. DOMAIN net = Proc /\ \A r \in Proc : DOMAIN net[r] = Proc
  BY DEF ShapesInv
<1>2. \A r, t \in Proc : net'[r][t] = IF r = p /\ t = q THEN Append(net[p][q], m) ELSE net[r][t]
  BY <1>1 DEF Post
<1>3. DOMAIN net' = Proc /\ \A r \in Proc : DOMAIN net'[r] = Proc
  BY <1>1 DEF Post
<1>4. \A r, t \in Proc : IsSeq(net[r][t])
  BY DEF ShapesInv
<1>5. IsSeq(Append(net[p][q], m))
  BY <1>4, AppendFacts
<1>6. ASSUME NEW r \in Proc, NEW t \in Proc
      PROVE  IsSeq(net'[r][t])
  <2>1. CASE r = p /\ t = q
    <3>1. net'[r][t] = Append(net[p][q], m)
      BY <1>2, <2>1
    <3> QED BY <1>5, <3>1
  <2>2. CASE ~ (r = p /\ t = q)
    <3>1. net'[r][t] = net[r][t]
      BY <1>2, <2>2
    <3> QED BY <1>4, <3>1
  <2> QED BY <2>1, <2>2
<1>7. /\ net'[p][q] = Append(net[p][q], m)
      /\ \A r, t \in Proc : r # p \/ t # q => net'[r][t] = net[r][t]
  BY <1>2
<1> QED BY <1>3, <1>6, <1>7

LEMMA TakeFacts ==
  ASSUME ShapesInv, NEW p \in Proc, NEW q \in Proc, NEW kind, Take(q, p, kind)
  PROVE  /\ DOMAIN net' = Proc /\ \A r \in Proc : DOMAIN net'[r] = Proc
         /\ \A r, t \in Proc : IsSeq(net'[r][t])
         /\ Ready(q, p, kind) /\ FirstOf(q, p, kind) \in DOMAIN net[q][p]
         /\ net'[q][p] = RemoveAt(net[q][p], FirstOf(q, p, kind))
         /\ \A r, t \in Proc : r # q \/ t # p => net'[r][t] = net[r][t]
<1>1. DOMAIN net = Proc /\ (\A r \in Proc : DOMAIN net[r] = Proc) /\ Ready(q, p, kind)
  BY DEF ShapesInv, Take
<1>2. \A r, t \in Proc : net'[r][t] = IF r = q /\ t = p THEN RemoveAt(net[q][p], FirstOf(q, p, kind))
                                                     ELSE net[r][t]
  BY <1>1 DEF Take
<1>3. DOMAIN net' = Proc /\ \A r \in Proc : DOMAIN net'[r] = Proc
  BY <1>1 DEF Take
<1>4. \A r, t \in Proc : IsSeq(net[r][t])
  BY DEF ShapesInv
<1>5. FirstOf(q, p, kind) \in DOMAIN net[q][p]
  BY <1>1, <1>4, FirstOfFacts
<1>6. IsSeq(RemoveAt(net[q][p], FirstOf(q, p, kind)))
  BY <1>4, <1>5, RemoveFacts
<1> QED BY <1>1, <1>2, <1>3, <1>4, <1>5, <1>6

\* A step that adds nothing to the program moves a processor inside a call.
LEMMA SameProgram ==
  ASSUME SInv, UNCHANGED <<setup, prog, call>>
  PROVE  /\ setup' \in Setups /\ prog' \in Seq(Calls)' /\ Len(prog') <= MaxCall'
         /\ call' \in [Proc -> 1..MaxCall' + 1]
         /\ \A p \in Proc : call'[p] \in 1..(Len(prog') + 1) /\ Now(p)' = Now(p)
         /\ Calls' = Calls /\ AllCells' = AllCells
         /\ \A p, cells : Own(p, cells)' = Own(p, cells)
BY DEF SInv, TypeOK, PlacesInv, MaxCall, Calls, Now, AllCells, Own, Owner

\* The parts of the structure that depend on nothing else.
NetTyped == \A p, q \in Proc : net[p][q] # <<>> => (p = Monitor) # (q = Monitor)

LEMMA PostTyped ==
  ASSUME SInv, NEW p \in Proc, NEW q \in Proc, (p = Monitor) # (q = Monitor), NEW m, Post(p, q, m)
  PROVE  NetTyped'
<1>1. \A r, t \in Proc : r # p \/ t # q => net'[r][t] = net[r][t]
  BY PostFacts DEF SInv
<1>2. NetTyped
  BY DEF SInv, TypeOK, NetTyped
<1> QED BY <1>1, <1>2 DEF NetTyped

LEMMA TakeTyped ==
  ASSUME SInv, NEW p \in Proc, NEW q \in Proc, NEW kind, Take(q, p, kind)
  PROVE  NetTyped'
<1>1. /\ \A r, t \in Proc : r # q \/ t # p => net'[r][t] = net[r][t]
      /\ FirstOf(q, p, kind) \in DOMAIN net[q][p]
  BY TakeFacts DEF SInv
<1>2. NetTyped
  BY DEF SInv, TypeOK, NetTyped
<1>3. net[q][p] # <<>>
  BY <1>1, IsSeqFacts DEF SInv, ShapesInv
<1> QED BY <1>1, <1>2, <1>3 DEF NetTyped

FieldTyped == \A p \in Proc : DOMAIN field[p] = Own(p, AllCells)

\* A step of p inside its call keeps the structure if p is where it should be.
LEMMA InsideCall ==
  ASSUME SInv, NEW p \in Proc, UNCHANGED <<setup, prog, call>>,
         NEW where, pc' = [pc EXCEPT ![p] = where], pc[p] # "model",
         p # Monitor => /\ UNCHANGED loopP
                        /\ \/ where = "share" /\ Now(p).op = "read"
                           \/ where \in {"data", "sending"} /\ Now(p).op = "write",
         p = Monitor =>
           \/ where = "loop" /\ Now(p).op \in {"read", "write"} /\ loopP' \in 0..NProc
           \/ where \in {"answering", "answered", "shipping"} /\ Now(p).op = "read"
              /\ loopP' = loopP /\ loopP \in Worker
           \/ where \in {"going", "collect"} /\ Now(p).op = "write"
              /\ loopP' = loopP /\ loopP \in Worker,
         NetTyped', FieldTyped', ShapesInv'
  PROVE  SInv'
<1>1. pc \in [Proc -> {"model", "resp", "share", "go", "data", "sending", "loop", "answering",
                       "answered", "shipping", "going", "collect"}]
  BY DEF SInv, TypeOK
<1>2. \A q \in Proc : pc'[q] = IF q = p THEN where ELSE pc[q]
  BY <1>1
<1>3. \A q \in Proc : call'[q] \in 1..(Len(prog') + 1) /\ Now(q)' = Now(q)
  BY SameProgram
<1>4. PlacesInv'
  BY <1>2, <1>3, Numbers DEF SInv, PlacesInv
<1>5. TypeOK'
  <2>1. /\ setup' \in Setups /\ prog' \in Seq(Calls)' /\ Len(prog') <= MaxCall'
        /\ call' \in [Proc -> 1..MaxCall' + 1]
    BY SameProgram
  <2>2. pc' \in [Proc -> {"model", "resp", "share", "go", "data", "sending", "loop", "answering",
                          "answered", "shipping", "going", "collect"}]
    BY <1>1
  <2>3. \A q \in Worker : pc'[q] \in {"model", "resp", "share", "go", "data", "sending"}
    BY <1>2, Numbers DEF SInv, TypeOK
  <2>4. \A q \in Proc : pc'[q] # "model" => call'[q] \in DOMAIN prog'
    BY <1>2 DEF SInv, TypeOK
  <2>5. loopP' \in 0..NProc
    BY Numbers DEF SInv, TypeOK
  <2> QED BY <2>1, <2>2, <2>3, <2>4, <2>5 DEF TypeOK, NetTyped, FieldTyped
<1> QED BY <1>4, <1>5 DEF SInv

\* So does one that returns from a call.
LEMMA OutOfCall ==
  ASSUME SInv, NEW p \in Proc, UNCHANGED <<setup, prog, loopP>>,
         Returns(p), pc[p] # "model", NetTyped', FieldTyped', ShapesInv'
  PROVE  SInv'
<1>1. pc \in [Proc -> {"model", "resp", "share", "go", "data", "sending", "loop", "answering",
                       "answered", "shipping", "going", "collect"}]
      /\ call \in [Proc -> 1..MaxCall + 1] /\ prog \in Seq(Calls) /\ Len(prog) <= MaxCall
      /\ setup \in Setups /\ Len(prog) \in Nat
  BY DEF SInv, TypeOK
<1>2. /\ \A q \in Proc : pc'[q] = IF q = p THEN "model" ELSE pc[q]
      /\ \A q \in Proc : call'[q] = IF q = p THEN call[p] + 1 ELSE call[q]
      /\ MaxCall' = MaxCall /\ Calls' = Calls
  BY <1>1 DEF Returns, Goes, MaxCall, Calls
<1>3. call[p] \in 1..Len(prog) /\ MaxCall \in Nat
  BY <1>1, SetupFacts DEF SInv, TypeOK
<1>4. call' \in [Proc -> 1..MaxCall + 1]
  BY <1>1, <1>3 DEF Returns
<1>5. PlacesInv'
  <2>1. \A q \in Proc : call'[q] \in 1..(Len(prog) + 1)
    BY <1>1, <1>2, <1>3 DEF SInv, PlacesInv
  <2>2. \A q \in Proc : q # p => Now(q)' = Now(q)
    BY <1>2 DEF Now
  <2> QED BY <1>2, <2>1, <2>2, Numbers DEF SInv, PlacesInv
<1>6. TypeOK'
  <2>1. pc' \in [Proc -> {"model", "resp", "share", "go", "data", "sending", "loop", "answering",
                          "answered", "shipping", "going", "collect"}]
    BY <1>1 DEF Returns, Goes
  <2>2. \A q \in Worker : pc'[q] \in {"model", "resp", "share", "go", "data", "sending"}
    BY <1>2, Numbers DEF SInv, TypeOK
  <2>3. \A q \in Proc : pc'[q] # "model" => call'[q] \in DOMAIN prog'
    BY <1>2 DEF SInv, TypeOK
  <2>4. loopP' \in 0..NProc
    BY DEF SInv, TypeOK
  <2> QED BY <1>1, <1>2, <1>4, <2>1, <2>2, <2>3, <2>4 DEF TypeOK, NetTyped, FieldTyped
<1> QED BY <1>5, <1>6 DEF SInv

\* What the calls of the others are does not change when p makes one.
LEMMA OthersStay ==
  ASSUME SInv, NEW p \in Proc, NEW c \in Calls, Makes(p, c)
  PROVE  /\ setup' \in Setups /\ prog' \in Seq(Calls)' /\ Len(prog') <= MaxCall'
         /\ MaxCall' = MaxCall /\ Calls' = Calls /\ AllCells' = AllCells
         /\ Len(prog) \in Nat /\ Len(prog') \in Nat /\ Len(prog) <= Len(prog')
         /\ \A q, cells : Own(q, cells)' = Own(q, cells)
         /\ \A q \in Proc : pc[q] # "model" => prog'[call[q]] = prog[call[q]]
         /\ prog'[call[p]] = c /\ call[p] \in 1..Len(prog') /\ pc[p] = "model"
         /\ \A q \in Proc : call[q] \in 1..(Len(prog) + 1)
         /\ call[p] <= MaxCall /\ MaxCall \in Nat
<1>1. \A q \in Proc : call[q] \in 1..(Len(prog) + 1) /\ (pc[q] # "model" => call[q] \in DOMAIN prog)
  BY DEF SInv, TypeOK, PlacesInv
<1>2. /\ prog' \in Seq(Calls) /\ Len(prog') <= MaxCall
      /\ Len(prog') \in Nat /\ Len(prog) \in Nat /\ Len(prog) <= Len(prog')
      /\ \A n \in 1..Len(prog) : prog'[n] = prog[n]
      /\ prog'[call[p]] = c /\ call[p] \in 1..Len(prog') /\ pc[p] = "model" /\ setup' = setup
  BY <1>1, MakesFacts DEF SInv
<1>3. MaxCall' = MaxCall /\ Calls' = Calls /\ AllCells' = AllCells /\ setup \in Setups
  BY <1>2 DEF MaxCall, Calls, AllCells, SInv, TypeOK
<1>4. \A q, cells : Own(q, cells)' = Own(q, cells)
  BY <1>2 DEF Own, Owner
<1>5. DOMAIN prog = 1..Len(prog)
  BY DEF SInv, TypeOK
<1>6. call[p] <= MaxCall /\ MaxCall \in Nat
  BY SetupFacts DEF Makes, SInv, TypeOK
<1> QED BY <1>1, <1>2, <1>3, <1>4, <1>5, <1>6

LEMMA IntoCall ==
  ASSUME SInv, NEW p \in Proc, NEW c \in Calls, Makes(p, c), UNCHANGED <<call, net>>,
         NEW where, Goes(p, where),
         p # Monitor => /\ UNCHANGED loopP
                        /\ \/ where = "resp" /\ c.op = "read"
                           \/ where = "go" /\ c.op = "write",
         p = Monitor => where = "loop" /\ c.op \in {"read", "write"} /\ loopP' = 0,
         FieldTyped', DOMAIN field' = Proc, DOMAIN pbuf' = Proc
  PROVE  SInv'
<1>1. pc \in [Proc -> {"model", "resp", "share", "go", "data", "sending", "loop", "answering",
                       "answered", "shipping", "going", "collect"}]
      /\ call \in [Proc -> 1..MaxCall + 1]
  BY DEF SInv, TypeOK
<1>2. \A q \in Proc : pc'[q] = IF q = p THEN where ELSE pc[q]
  BY <1>1 DEF Goes
<1>3. /\ setup' \in Setups /\ prog' \in Seq(Calls)' /\ Len(prog') <= MaxCall'
      /\ MaxCall' = MaxCall
      /\ Len(prog) \in Nat /\ Len(prog') \in Nat /\ Len(prog) <= Len(prog')
      /\ \A q \in Proc : pc[q] # "model" => prog'[call[q]] = prog[call[q]]
      /\ prog'[call[p]] = c /\ call[p] \in 1..Len(prog')
      /\ \A q \in Proc : call[q] \in 1..(Len(prog) + 1)
  BY OthersStay
<1>4. PlacesInv'
  <2>1. \A q \in Proc : call'[q] \in 1..(Len(prog') + 1)
    BY <1>3
  <2>2. \A q \in Proc : q # p /\ pc[q] # "model" => Now(q)' = Now(q)
    BY <1>3 DEF Now
  <2>3. Now(p)' = c
    BY <1>3 DEF Now
  <2> QED BY <1>2, <2>1, <2>2, <2>3, Numbers DEF SInv, PlacesInv
<1>5. TypeOK'
  <2>1. pc' \in [Proc -> {"model", "resp", "share", "go", "data", "sending", "loop", "answering",
                          "answered", "shipping", "going", "collect"}]
    BY <1>1 DEF Goes
  <2>2. \A q \in Worker : pc'[q] \in {"model", "resp", "share", "go", "data", "sending"}
    BY <1>2, Numbers DEF SInv, TypeOK
  <2>3. \A q \in Proc : pc'[q] # "model" => call'[q] \in DOMAIN prog'
    <3>1. DOMAIN prog' = 1..Len(prog') /\ DOMAIN prog = 1..Len(prog)
      BY <1>3 DEF SInv, TypeOK
    <3>2. \A q \in Proc : pc[q] # "model" => call[q] \in DOMAIN prog
      BY DEF SInv, TypeOK
    <3> QED BY <1>2, <1>3, <3>1, <3>2
  <2>4. loopP' \in 0..NProc
    BY Numbers DEF SInv, TypeOK
  <2>5. call' \in [Proc -> 1..MaxCall' + 1]
    BY <1>1, <1>3
  <2>6. NetTyped'
    BY DEF SInv, TypeOK, NetTyped
  <2> QED BY <1>3, <2>1, <2>2, <2>3, <2>4, <2>5, <2>6 DEF TypeOK, NetTyped, FieldTyped
<1>6. ShapesInv'
  BY DEF SInv, ShapesInv
<1> QED BY <1>4, <1>5, <1>6 DEF SInv

LEMMA PassCall ==
  ASSUME SInv, NEW p \in Proc, NEW c \in Calls, Makes(p, c), Returns(p),
         UNCHANGED <<field, pbuf, loopP, net>>
  PROVE  SInv'
<1>1. pc \in [Proc -> {"model", "resp", "share", "go", "data", "sending", "loop", "answering",
                       "answered", "shipping", "going", "collect"}]
      /\ call \in [Proc -> 1..MaxCall + 1]
  BY DEF SInv, TypeOK
<1>2. /\ setup' \in Setups /\ prog' \in Seq(Calls)' /\ Len(prog') <= MaxCall'
      /\ MaxCall' = MaxCall /\ AllCells' = AllCells
      /\ Len(prog) \in Nat /\ Len(prog') \in Nat /\ Len(prog) <= Len(prog')
      /\ \A q, cells : Own(q, cells)' = Own(q, cells)
      /\ \A q \in Proc : pc[q] # "model" => prog'[call[q]] = prog[call[q]]
      /\ call[p] \in 1..Len(prog') /\ pc[p] = "model"
      /\ \A q \in Proc : call[q] \in 1..(Len(prog) + 1)
      /\ call[p] <= MaxCall /\ MaxCall \in Nat
  BY OthersStay
<1>3. /\ pc' = pc
      /\ \A q \in Proc : call'[q] = IF q = p THEN call[p] + 1 ELSE call[q]
  <2>1. pc' = [pc EXCEPT ![p] = "model"]
    BY DEF Returns, Goes
  <2>2. pc' = pc
    BY <1>1, <1>2, <2>1
  <2> QED BY <1>1, <2>2 DEF Returns
<1>4. PlacesInv'
  <2>1. \A q \in Proc : call'[q] \in 1..(Len(prog') + 1)
    BY <1>2, <1>3
  <2>2. \A q \in Proc : pc[q] # "model" => Now(q)' = Now(q)
    BY <1>2, <1>3 DEF Now
  <2> QED BY <1>3, <2>1, <2>2, Numbers DEF SInv, PlacesInv
<1>5. TypeOK'
  <2>1. call' \in [Proc -> 1..MaxCall' + 1]
    BY <1>1, <1>2 DEF Returns
  <2>2. \A q \in Proc : pc'[q] # "model" => call'[q] \in DOMAIN prog'
    <3>1. DOMAIN prog' = 1..Len(prog') /\ DOMAIN prog = 1..Len(prog)
      BY <1>2 DEF SInv, TypeOK
    <3>2. \A q \in Proc : pc[q] # "model" => call[q] \in DOMAIN prog
      BY DEF SInv, TypeOK
    <3> QED BY <1>2, <1>3, <3>1, <3>2
  <2>3. \A q \in Proc : DOMAIN field'[q] = Own(q, AllCells)'
    BY <1>2 DEF SInv, TypeOK
  <2> QED BY <1>1, <1>2, <1>3, <2>1, <2>2, <2>3 DEF SInv, TypeOK
<1>6. ShapesInv'
  BY DEF SInv, ShapesInv
<1> QED BY <1>4, <1>5, <1>6 DEF SInv

\* The arrays keep their places.
LEMMA FieldKept ==
  ASSUME SInv, NEW p \in Proc, AllCells' = AllCells, setup' = setup,
         field' = field \/ \E f : DOMAIN f = DOMAIN field[p] /\ field' = [field EXCEPT ![p] = f]
  PROVE  FieldTyped' /\ DOMAIN field' = Proc
<1>1. DOMAIN field = Proc /\ \A q \in Proc : DOMAIN field[q] = Own(q, AllCells)
  BY DEF SInv, TypeOK, ShapesInv
<1>2. \A q, cells : Own(q, cells)' = Own(q, cells)
  BY DEF Own, Owner
<1>3. \A q \in Proc : DOMAIN field'[q] = DOMAIN field[q]
  <2>1. CASE field' = field
    BY <2>1
  <2>2. CASE \E f : DOMAIN f = DOMAIN field[p] /\ field' = [field EXCEPT ![p] = f]
    <3>1. PICK f : DOMAIN f = DOMAIN field[p] /\ field' = [field EXCEPT ![p] = f]
      BY <2>2
    <3> QED BY <1>1, <3>1
  <2> QED BY <2>1, <2>2
<1> QED BY <1>1, <1>2, <1>3 DEF FieldTyped

LEMMA UnpackedKeeps ==
  ASSUME NEW memory, NEW order, NEW elems
  PROVE  DOMAIN Unpacked(memory, order, elems) = DOMAIN memory
BY DEF Unpacked

LEMMA StructureNext ==
  ASSUME SInv, [Next]_vars
  PROVE  SInv'
<1>0. /\ NetTyped /\ FieldTyped /\ ShapesInv
      /\ pc \in [Proc -> {"model", "resp", "share", "go", "data", "sending", "loop", "answering",
                          "answered", "shipping", "going", "collect"}]
      /\ \A q \in Worker : pc[q] \in {"model", "resp", "share", "go", "data", "sending"}
      /\ PlacesInv
  BY DEF SInv, TypeOK, NetTyped, FieldTyped
<1>1. ASSUME NEW p \in Proc, CallRead(p)
      PROVE  SInv'
  <2>1. PICK c \in Calls :
          /\ c.op = "read" /\ Makes(p, c)
          /\ IF p = Monitor THEN loopP' = 0 /\ Goes(p, "loop")
                            ELSE Goes(p, "resp") /\ UNCHANGED loopP
          /\ UNCHANGED <<call, field, pbuf, net>>
    BY <1>1 DEF CallRead
  <2>2. FieldTyped' /\ DOMAIN field' = Proc /\ DOMAIN pbuf' = Proc
    BY <1>0, <2>1, OthersStay DEF FieldTyped, ShapesInv
  <2> QED BY <2>1, <2>2, IntoCall
<1>2. ASSUME NEW p \in Proc, CallWrite(p)
      PROVE  SInv'
  <2>1. PICK c \in Calls :
          /\ c.op = "write" /\ Makes(p, c)
          /\ field' = [field EXCEPT ![p] =
                 [cell \in DOMAIN @ |-> IF cell \in Cells(c) THEN Elem(cell, call[p]) ELSE @[cell]]]
          /\ pbuf' = [pbuf EXCEPT ![p] = Packed(field'[p], PackOrder(c, p))]
          /\ IF p = Monitor THEN loopP' = 0 /\ Goes(p, "loop")
                            ELSE Goes(p, "go") /\ UNCHANGED loopP
          /\ UNCHANGED <<call, net>>
    BY <1>2 DEF CallWrite
  <2>2. AllCells' = AllCells /\ setup' = setup
    BY <2>1, OthersStay DEF Makes
  <2>3. FieldTyped' /\ DOMAIN field' = Proc
    <3> DEFINE f == [cell \in DOMAIN field[p] |->
                       IF cell \in Cells(c) THEN Elem(cell, call[p]) ELSE field[p][cell]]
    <3>1. field' = [field EXCEPT ![p] = f] /\ DOMAIN f = DOMAIN field[p]
      BY <2>1
    <3> HIDE DEF f
    <3> QED BY <2>2, <3>1, FieldKept
  <2>4. DOMAIN pbuf' = Proc
    BY <1>0, <2>1 DEF ShapesInv
  <2> QED BY <2>1, <2>3, <2>4, IntoCall
<1>3. ASSUME NEW p \in Proc, WriteHeader(p) \/ Flush(p)
      PROVE  SInv'
  <2>1. PICK c \in Calls :
          Makes(p, c) /\ Returns(p) /\ UNCHANGED <<field, pbuf, loopP, net>>
    BY <1>3 DEF WriteHeader, Flush
  <2> QED BY <2>1, PassCall
<1>4. ASSUME NEW p \in Worker, RecvResp(p) \/ RecvGo(p)
      PROVE  SInv'
  <2>1. PICK kind, where :
          /\ \/ pc[p] = "resp" /\ where = "share"
             \/ pc[p] = "go" /\ where = "data"
          /\ Take(Monitor, p, kind) /\ Goes(p, where)
          /\ UNCHANGED <<setup, prog, call, field, pbuf, loopP>>
    BY <1>4 DEF RecvResp, RecvGo
  <2>2. p \in Proc /\ p # Monitor /\ Monitor \in Proc
    BY Numbers
  <2>3. NetTyped'
    BY <2>1, <2>2, TakeTyped
  <2>4. FieldTyped'
    BY <1>0, <2>1, SameProgram DEF FieldTyped
  <2>5. ShapesInv'
    BY <1>0, <2>1, <2>2, TakeFacts DEF ShapesInv
  <2>6. \/ where = "share" /\ Now(p).op = "read"
        \/ where \in {"data", "sending"} /\ Now(p).op = "write"
    BY <1>0, <2>1 DEF PlacesInv
  <2>7. pc' = [pc EXCEPT ![p] = where] /\ pc[p] # "model"
    BY <2>1 DEF Goes
  <2> QED BY <2>1, <2>2, <2>3, <2>4, <2>5, <2>6, <2>7, InsideCall
<1>5. ASSUME NEW p \in Worker, RecvShare(p)
      PROVE  SInv'
  <2>1. /\ pc[p] = "share" /\ Take(Monitor, p, "read") /\ Returns(p)
        /\ field' = [field EXCEPT ![p] =
                 Unpacked(field[p], ShareOrder(Now(p), p), Received(Monitor, p, "read").body)]
        /\ UNCHANGED <<setup, prog, pbuf, loopP>>
    BY <1>5 DEF RecvShare
  <2>2. p \in Proc /\ p # Monitor /\ Monitor \in Proc
    BY Numbers
  <2>3. NetTyped'
    BY <2>1, <2>2, TakeTyped
  <2>4. FieldTyped' /\ DOMAIN field' = Proc
    <3>1. AllCells' = AllCells
      BY <2>1 DEF AllCells, Calls
    <3>2. PICK f : f = Unpacked(field[p], ShareOrder(Now(p), p), Received(Monitor, p, "read").body)
      OBVIOUS
    <3>3. DOMAIN f = DOMAIN field[p]
      BY <3>2, UnpackedKeeps
    <3>4. field' = [field EXCEPT ![p] = f] /\ setup' = setup
      BY <2>1, <3>2
    <3> QED BY <2>2, <3>1, <3>3, <3>4, FieldKept
  <2>5. ShapesInv'
    BY <1>0, <2>1, <2>2, <2>4, TakeFacts DEF ShapesInv
  <2> QED BY <2>1, <2>2, <2>3, <2>4, <2>5, OutOfCall
<1>6. ASSUME NEW p \in Worker, SendPacked(p)
      PROVE  SInv'
  <2>1. /\ pc[p] = "data" /\ Post(p, Monitor, Msg("write", "data", call[p], pbuf[p]))
        /\ pc' = [pc EXCEPT ![p] = "sending"]
        /\ UNCHANGED <<setup, prog, call, field, pbuf, loopP>>
    BY <1>6 DEF SendPacked, Goes
  <2>2. p \in Proc /\ p # Monitor /\ Monitor \in Proc
    BY Numbers
  <2>3. NetTyped'
    BY <2>1, <2>2, PostTyped
  <2>4. FieldTyped'
    BY <1>0, <2>1, SameProgram DEF FieldTyped
  <2>5. ShapesInv'
    BY <1>0, <2>1, <2>2, PostFacts DEF ShapesInv
  <2>6. Now(p).op = "write"
    BY <1>0, <2>1 DEF PlacesInv
  <2> QED BY <2>1, <2>2, <2>3, <2>4, <2>5, <2>6, InsideCall
<1>7. CASE OwnShare \/ OwnPart
  <2>1. /\ pc[Monitor] = "loop" /\ Now(Monitor).op \in {"read", "write"}
        /\ loopP' = 1 /\ UNCHANGED <<setup, prog, call, pc, field, net>> /\ DOMAIN pbuf' = Proc
    BY <1>0, <1>7, Numbers DEF OwnShare, OwnPart, InLoop, NextP, ShapesInv
  <2>2. NetTyped'
    BY <1>0, <2>1 DEF NetTyped
  <2>3. FieldTyped'
    BY <1>0, <2>1, SameProgram DEF FieldTyped
  <2>4. ShapesInv'
    BY <1>0, <2>1 DEF ShapesInv
  <2>5. pc' = [pc EXCEPT ![Monitor] = "loop"]
    BY <1>0, <2>1, Numbers
  <2>6. loopP' \in 0..NProc /\ Monitor \in Proc /\ pc[Monitor] # "model"
    BY <2>1, Numbers
  <2> QED BY <2>1, <2>2, <2>3, <2>4, <2>5, <2>6, InsideCall
<1>8. CASE SendResp \/ SendShare \/ SendGo
  <2>1. PICK m, where :
          /\ \/ where \in {"answering", "shipping"} /\ Now(Monitor).op = "read"
             \/ where = "going" /\ Now(Monitor).op = "write"
          /\ loopP \in Worker /\ pc[Monitor] # "model"
          /\ Post(Monitor, loopP, m) /\ pc' = [pc EXCEPT ![Monitor] = where]
          /\ UNCHANGED <<setup, prog, call, field, pbuf, loopP>>
    <3>1. pc[Monitor] = "loop" /\ loopP < NProc /\ loopP # Monitor => loopP \in Worker
      BY Numbers DEF SInv, TypeOK
    <3>2. pc[Monitor] = "answered" => loopP \in Worker /\ Now(Monitor).op = "read"
      BY <1>0 DEF PlacesInv
    <3>3. CASE SendResp
      BY <3>1, <3>3 DEF SendResp, InLoop, Goes
    <3>4. CASE SendShare
      BY <3>2, <3>4 DEF SendShare, Goes
    <3>5. CASE SendGo
      BY <3>1, <3>5 DEF SendGo, InLoop, Goes
    <3> QED BY <1>8, <3>3, <3>4, <3>5
  <2>2. loopP \in Proc /\ loopP # Monitor /\ Monitor \in Proc
    BY <2>1, Numbers
  <2>3. NetTyped'
    BY <2>1, <2>2, PostTyped
  <2>4. FieldTyped'
    BY <1>0, <2>1, SameProgram DEF FieldTyped
  <2>5. ShapesInv'
    BY <1>0, <2>1, <2>2, PostFacts DEF ShapesInv
  <2> QED BY <2>1, <2>2, <2>3, <2>4, <2>5, InsideCall
<1>9. CASE FinishRead
  <2>1. /\ pc[Monitor] = "loop" /\ Returns(Monitor)
        /\ field' = [field EXCEPT ![Monitor] =
              Unpacked(field[Monitor], ShareOrder(Now(Monitor), Monitor), pbuf[Monitor])]
        /\ UNCHANGED <<setup, prog, pbuf, loopP, net>>
    BY <1>9 DEF FinishRead
  <2>2. FieldTyped' /\ DOMAIN field' = Proc
    <3>1. AllCells' = AllCells
      BY <2>1 DEF AllCells, Calls
    <3> DEFINE f == Unpacked(field[Monitor], ShareOrder(Now(Monitor), Monitor), pbuf[Monitor])
    <3>2. DOMAIN f = DOMAIN field[Monitor] /\ field' = [field EXCEPT ![Monitor] = f]
      BY <2>1, UnpackedKeeps
    <3>3. Monitor \in Proc /\ setup' = setup
      BY <2>1, Numbers
    <3> HIDE DEF f
    <3> QED BY <3>1, <3>2, <3>3, FieldKept
  <2>3. ShapesInv' /\ NetTyped'
    BY <1>0, <2>1, <2>2 DEF ShapesInv, NetTyped
  <2> QED BY <2>1, <2>2, <2>3, Numbers, OutOfCall
<1>10. CASE Collect
  <2>1. /\ pc[Monitor] = "collect" /\ Take(loopP, Monitor, "write") /\ loopP' = loopP + 1
        /\ pc' = [pc EXCEPT ![Monitor] = "loop"]
        /\ UNCHANGED <<setup, prog, call, field, pbuf>>
    BY <1>10 DEF Collect, NextP, Goes
  <2>2. loopP \in Worker /\ loopP \in Proc /\ Monitor \in Proc /\ Now(Monitor).op = "write"
    BY <1>0, <2>1, Numbers DEF PlacesInv
  <2>3. NetTyped'
    BY <2>1, <2>2, TakeTyped
  <2>4. FieldTyped'
    BY <1>0, <2>1, SameProgram DEF FieldTyped
  <2>5. ShapesInv'
    BY <1>0, <2>1, <2>2, TakeFacts DEF ShapesInv
  <2>6. loopP' \in 0..NProc
    BY <2>1, <2>2, Numbers
  <2> QED BY <2>1, <2>2, <2>3, <2>4, <2>5, <2>6, InsideCall
<1>11. CASE FinishWrite
  <2>1. /\ pc[Monitor] = "loop" /\ Returns(Monitor)
        /\ UNCHANGED <<setup, prog, field, pbuf, loopP, net>>
    BY <1>11 DEF FinishWrite
  <2>2. FieldTyped'
    BY <1>0, <2>1 DEF FieldTyped, AllCells, Calls, Own, Owner
  <2>3. ShapesInv' /\ NetTyped'
    BY <1>0, <2>1 DEF ShapesInv, NetTyped
  <2> QED BY <2>1, <2>2, <2>3, Numbers, OutOfCall
<1>12. ASSUME NEW p \in Proc, SendReturns(p)
       PROVE  SInv'
  <2>1. UNCHANGED <<setup, prog, field, pbuf, net>>
    BY <1>12 DEF SendReturns
  <2>2. FieldTyped' /\ ShapesInv' /\ NetTyped'
    BY <1>0, <2>1 DEF FieldTyped, AllCells, Calls, Own, Owner, ShapesInv, NetTyped
  <2>3. CASE pc[p] = "sending"
    BY <1>12, <2>1, <2>2, <2>3, OutOfCall DEF SendReturns
  <2>4. CASE pc[p] # "sending"
    <3>1. p = Monitor
      BY <1>0, <1>12, <2>4, Numbers DEF SendReturns
    <3>2. PICK where :
            /\ pc' = [pc EXCEPT ![Monitor] = where] /\ pc[Monitor] # "model"
            /\ \/ pc[Monitor] = "going" /\ where = "collect" /\ loopP' = loopP
               \/ pc[Monitor] = "answering" /\ where = "answered" /\ loopP' = loopP
               \/ pc[Monitor] = "shipping" /\ where = "loop" /\ loopP' = loopP + 1
            /\ call' = call
      BY <1>12, <2>4, <3>1 DEF SendReturns, Goes, NextP
    <3>3. loopP \in Worker => loopP + 1 \in 0..NProc
      BY Numbers
    <3> QED BY <1>0, <2>1, <2>2, <3>2, <3>3, Numbers, InsideCall DEF PlacesInv
  <2> QED BY <2>3, <2>4
<1>13. CASE UNCHANGED vars
  BY <1>13 DEF vars, SInv, TypeOK, PlacesInv, ShapesInv, Calls, MaxCall, AllCells, Own, Owner, Now
<1> QED
  BY <1>1, <1>2, <1>3, <1>4, <1>5, <1>6, <1>7, <1>8, <1>9, <1>10, <1>11, <1>12, <1>13
  DEF Next, CallAny, WorkerStep, MonitorStep, Finished

-------------------------------------------------------------------------------
(* Messages in the order of their calls *)

LEMMA AppendInOrder ==
  ASSUME NEW s, IsSeq(s), InOrder(s), NEW m, \A k \in Keys(s) : Earlier(k, Key(m))
  PROVE  /\ InOrder(Append(s, m)) /\ Keys(Append(s, m)) = Keys(s) \union {Key(m)}
         /\ \A x \in DOMAIN Append(s, m) : Append(s, m)[x] = m \/ \E y \in DOMAIN s : Append(s, m)[x] = s[y]
<1> DEFINE t == Append(s, m)
<1>1. /\ DOMAIN t = 1..(Len(s) + 1) /\ DOMAIN s = 1..Len(s) /\ Len(s) \in Nat
      /\ \A x \in 1..Len(s) : t[x] = s[x]
      /\ t[Len(s) + 1] = m
  BY AppendFacts, IsSeqFacts
<1> HIDE DEF t
<1>2. \A x \in DOMAIN t : (x \in DOMAIN s /\ t[x] = s[x]) \/ (x = Len(s) + 1 /\ t[x] = m)
  BY <1>1
<1>3. InOrder(t)
  <2> SUFFICES ASSUME NEW x \in DOMAIN t, NEW y \in DOMAIN t, x < y
               PROVE  Earlier(Key(t[x]), Key(t[y]))
    BY DEF InOrder
  <2>1. x \in DOMAIN s /\ t[x] = s[x]
    BY <1>1, <1>2
  <2>2. CASE y \in DOMAIN s /\ t[y] = s[y]
    BY <2>1, <2>2 DEF InOrder
  <2>3. CASE t[y] = m
    <3>1. Key(s[x]) \in Keys(s)
      BY <2>1 DEF Keys
    <3> QED BY <2>1, <2>3, <3>1
  <2> QED BY <1>2, <2>2, <2>3
<1>4. Keys(t) \subseteq Keys(s) \union {Key(m)}
  BY <1>2 DEF Keys
<1>5. Keys(s) \subseteq Keys(t)
  <2> SUFFICES ASSUME NEW x \in DOMAIN s
               PROVE  Key(s[x]) \in Keys(t)
    BY DEF Keys
  <2>1. x \in DOMAIN t /\ t[x] = s[x]
    BY <1>1
  <2> QED BY <2>1 DEF Keys
<1>6. Key(m) \in Keys(t)
  BY <1>1 DEF Keys
<1>7. \A x \in DOMAIN t : t[x] = m \/ \E y \in DOMAIN s : t[x] = s[y]
  BY <1>2
<1> QED BY <1>3, <1>4, <1>5, <1>6, <1>7 DEF t

LEMMA RemoveInOrder ==
  ASSUME NEW s, IsSeq(s), InOrder(s), NEW x \in DOMAIN s, \A k \in Keys(s) : k[1] \in Nat
  PROVE  /\ InOrder(RemoveAt(s, x)) /\ Keys(RemoveAt(s, x)) = Keys(s) \ {Key(s[x])}
         /\ \A y \in DOMAIN RemoveAt(s, x) : \E z \in DOMAIN s : RemoveAt(s, x)[y] = s[z]
<1> DEFINE t == RemoveAt(s, x)
           At(y) == IF y < x THEN y ELSE y + 1
<1>1. /\ DOMAIN t = 1..(Len(s) - 1) /\ DOMAIN s = 1..Len(s) /\ Len(s) \in Nat
      /\ \A y \in 1..(Len(s) - 1) : t[y] = IF y < x THEN s[y] ELSE s[y + 1]
  BY RemoveFacts, IsSeqFacts
<1> HIDE DEF t
<1>2. \A y \in DOMAIN t : At(y) \in DOMAIN s /\ At(y) # x /\ t[y] = s[At(y)]
  BY <1>1
<1>3. \A y, z \in DOMAIN t : y < z => At(y) < At(z)
  BY <1>1
<1>4. \A z \in DOMAIN s : z # x => \E y \in DOMAIN t : At(y) = z
  <2> SUFFICES ASSUME NEW z \in DOMAIN s, z # x
               PROVE  \E y \in DOMAIN t : At(y) = z
    OBVIOUS
  <2>1. CASE z < x
    <3>1. z \in DOMAIN t
      BY <1>1, <2>1
    <3> QED BY <2>1, <3>1
  <2>2. CASE z > x
    <3>1. z - 1 \in DOMAIN t /\ At(z - 1) = z
      BY <1>1, <2>2
    <3> QED BY <3>1
  <2> QED BY <1>1, <2>1, <2>2
<1> HIDE DEF At
<1>5. InOrder(t)
  <2> SUFFICES ASSUME NEW y \in DOMAIN t, NEW z \in DOMAIN t, y < z
               PROVE  Earlier(Key(t[y]), Key(t[z]))
    BY DEF InOrder
  <2>1. Earlier(Key(s[At(y)]), Key(s[At(z)]))
    BY <1>2, <1>3 DEF InOrder
  <2> QED BY <1>2, <2>1
<1>6. \A y \in DOMAIN s : y # x => Key(s[y]) # Key(s[x])
  <2> SUFFICES ASSUME NEW y \in DOMAIN s, y # x, Key(s[y]) = Key(s[x])
               PROVE  FALSE
    OBVIOUS
  <2>1. Key(s[x]) \in Keys(s) /\ Key(s[x])[1] \in Nat
    BY DEF Keys
  <2>2. y < x \/ x < y
    BY <1>1
  <2>3. Earlier(Key(s[x]), Key(s[x]))
    BY <2>2 DEF InOrder
  <2> QED BY <2>1, <2>3 DEF Earlier
<1>7. Keys(t) \subseteq Keys(s) \ {Key(s[x])}
  BY <1>2, <1>6 DEF Keys
<1>8. Keys(s) \ {Key(s[x])} \subseteq Keys(t)
  <2> SUFFICES ASSUME NEW z \in DOMAIN s, z # x
               PROVE  Key(s[z]) \in Keys(t)
    BY DEF Keys
  <2>1. PICK y \in DOMAIN t : At(y) = z
    BY <1>4
  <2>2. t[y] = s[z]
    BY <1>2, <2>1
  <2> QED BY <2>2 DEF Keys
<1>9. \A y \in DOMAIN t : \E z \in DOMAIN s : t[y] = s[z]
  BY <1>2
<1> QED BY <1>5, <1>7, <1>8, <1>9 DEF t

LEMMA PartsFacts ==
  /\ \A c : Parts(c) \subseteq {"resp", "data", "go"}
  /\ Since("resp") = {"answering", "answered", "shipping"} /\ Since("data") = {"shipping"}
  /\ Since("go") = {"going", "collect"}
  /\ After("resp") = {"share"} /\ After("data") = {} /\ After("go") = {"data", "sending"}
BY DEF Parts, Since, After

LEMMA DueFacts ==
  ASSUME SInv, NEW q \in Worker, NEW k \in Due(q) \union Owed(q)
  PROVE  k[1] \in Nat /\ k[1] \in 1..Len(prog)
<1>1. Len(prog) \in Nat
  BY DEF SInv, TypeOK
<1> QED BY <1>1 DEF Due, Owed

\* There is nothing of calls that nobody has made.
LEMMA NothingBeyond ==
  ASSUME SInv, NEW q \in Worker, NEW n \in Nat, n > Len(prog)
  PROVE  /\ \A part \in {"resp", "data", "go"} : ~ Sent(q, n, part) /\ ~ Got(q, n, part)
         /\ ~ Posted(q, n) /\ ~ Collected(q, n)
<1>1. /\ \A p \in Proc : /\ call[p] \in 1..(Len(prog) + 1)
                         /\ pc[p] # "model" => call[p] \in 1..Len(prog)
      /\ Len(prog) \in Nat
  <2>1. Len(prog) \in Nat /\ DOMAIN prog = 1..Len(prog)
    BY DEF SInv, TypeOK
  <2> QED BY <2>1 DEF SInv, TypeOK, PlacesInv
<1>2. q \in Proc /\ Monitor \in Proc
  BY Numbers
<1>3. pc[q] # "model" => n # call[q]
  BY <1>1, <1>2
<1>4. pc[Monitor] # "model" => n # call[Monitor]
  BY <1>1, <1>2
<1>5. ~ (n < call[q]) /\ ~ (n < call[Monitor])
  BY <1>1, <1>2
<1>6. \A part \in {"resp", "data", "go"} : "model" \notin After(part)
  BY PartsFacts
<1> QED BY <1>3, <1>4, <1>5, <1>6 DEF Sent, Got, Posted, Collected

-------------------------------------------------------------------------------
(* How a step of either end changes what is in flight *)

\* Neither end gets any further.
LEMMA NothingMoves ==
  ASSUME SInv, NEW q \in Worker, NetOf(q), CausalOf(q),
         net'[Monitor][q] = net[Monitor][q], net'[q][Monitor] = net[q][Monitor],
         Len(prog') \in Nat, Len(prog) <= Len(prog'),
         \A n \in 1..Len(prog) : prog'[n] = prog[n],
         \A n \in 1..Len(prog') : \A part \in Parts(prog'[n]) :
           (Sent(q, n, part)' <=> Sent(q, n, part)) /\ (Got(q, n, part)' <=> Got(q, n, part)),
         \A n \in 1..Len(prog') : prog'[n].op = "write" =>
           (Posted(q, n)' <=> Posted(q, n)) /\ (Collected(q, n)' <=> Collected(q, n))
  PROVE  NetOf(q)' /\ CausalOf(q)'
<1>0. Len(prog) \in Nat
  BY DEF SInv, TypeOK
<1>1. \A n \in 1..Len(prog') : n \in 1..Len(prog) \/ (n \in Nat /\ n > Len(prog))
  BY <1>0
<1>2. \A n \in 1..Len(prog) : n \in 1..Len(prog')
  BY <1>0
<1>3. Due(q)' \subseteq Due(q)
  <2> SUFFICES ASSUME NEW n \in 1..Len(prog'), NEW part \in Parts(prog'[n]),
                      part \in {"resp", "data", "go"}, Sent(q, n, part)', ~ Got(q, n, part)'
               PROVE  <<n, part>> \in Due(q)
    BY DEF Due
  <2>1. Sent(q, n, part) /\ ~ Got(q, n, part)
    OBVIOUS
  <2>2. n \in 1..Len(prog)
    BY <1>1, <2>1, NothingBeyond
  <2> QED BY <2>1, <2>2 DEF Due
<1>4. Due(q) \subseteq Due(q)'
  <2> SUFFICES ASSUME NEW n \in 1..Len(prog), NEW part \in Parts(prog[n]),
                      part \in {"resp", "data", "go"}, Sent(q, n, part), ~ Got(q, n, part)
               PROVE  <<n, part>> \in Due(q)'
    BY DEF Due
  <2>1. n \in 1..Len(prog') /\ part \in Parts(prog'[n])
    BY <1>2
  <2>2. Sent(q, n, part)' /\ ~ Got(q, n, part)'
    BY <2>1
  <2> QED BY <2>1, <2>2 DEF Due
<1>5. Owed(q)' \subseteq Owed(q)
  <2> SUFFICES ASSUME NEW n \in 1..Len(prog'), prog'[n].op = "write",
                      Posted(q, n)', ~ Collected(q, n)'
               PROVE  <<n, "data">> \in Owed(q)
    BY DEF Owed
  <2>1. Posted(q, n) /\ ~ Collected(q, n)
    OBVIOUS
  <2>2. n \in 1..Len(prog)
    BY <1>1, <2>1, NothingBeyond
  <2> QED BY <2>1, <2>2 DEF Owed
<1>6. Owed(q) \subseteq Owed(q)'
  <2> SUFFICES ASSUME NEW n \in 1..Len(prog), prog[n].op = "write",
                      Posted(q, n), ~ Collected(q, n)
               PROVE  <<n, "data">> \in Owed(q)'
    BY DEF Owed
  <2>1. n \in 1..Len(prog') /\ prog'[n].op = "write"
    BY <1>2
  <2>2. Posted(q, n)' /\ ~ Collected(q, n)'
    BY <2>1
  <2> QED BY <2>1, <2>2 DEF Owed
<1>7. NetOf(q)'
  BY <1>3, <1>4, <1>5, <1>6 DEF NetOf
<1>8. CausalOf(q)'
  <2>1. ASSUME NEW n \in 1..Len(prog'), NEW part \in Parts(prog'[n]), Got(q, n, part)'
        PROVE  Sent(q, n, part)'
    <3>1. Got(q, n, part)
      BY <2>1
    <3>2. n \in 1..Len(prog)
      BY <1>1, <3>1, NothingBeyond, PartsFacts
    <3>3. Sent(q, n, part)
      BY <3>1, <3>2 DEF CausalOf
    <3> QED BY <3>3
  <2>2. ASSUME NEW n \in 1..Len(prog'), prog'[n].op = "write", Collected(q, n)'
        PROVE  Posted(q, n)'
    <3>1. Collected(q, n)
      BY <2>2
    <3>2. n \in 1..Len(prog)
      BY <1>1, <3>1, NothingBeyond
    <3>3. Posted(q, n)
      BY <2>2, <3>1, <3>2 DEF CausalOf
    <3> QED BY <2>2, <3>3
  <2> QED BY <2>1, <2>2 DEF CausalOf
<1> QED BY <1>7, <1>8

\* The monitor sends a part to q.
LEMMA PartSent ==
  ASSUME SInv, NEW q \in Worker, NetOf(q), CausalOf(q), prog' = prog,
         NEW n0 \in 1..Len(prog), NEW p0 \in Parts(prog[n0]), NEW m, Key(m) = <<n0, p0>>,
         m.kind = IF m.what = "go" THEN "write" ELSE "read",
         net'[Monitor][q] = Append(net[Monitor][q], m), net'[q][Monitor] = net[q][Monitor],
         ~ Sent(q, n0, p0),
         \A k \in Due(q) : Earlier(k, <<n0, p0>>),
         \A n \in 1..Len(prog) : \A part \in Parts(prog[n]) :
           /\ Sent(q, n, part)' <=> (Sent(q, n, part) \/ (n = n0 /\ part = p0))
           /\ Got(q, n, part)' <=> Got(q, n, part),
         \A n \in 1..Len(prog) : prog[n].op = "write" =>
           (Posted(q, n)' <=> Posted(q, n)) /\ (Collected(q, n)' <=> Collected(q, n))
  PROVE  NetOf(q)' /\ CausalOf(q)'
<1>1. IsSeq(net[Monitor][q]) /\ InOrder(net[Monitor][q]) /\ Keys(net[Monitor][q]) = Due(q)
  BY Numbers DEF SInv, ShapesInv, NetOf
<1>2. ~ Got(q, n0, p0) /\ p0 \in {"resp", "data", "go"}
  BY PartsFacts DEF CausalOf
<1>3. Due(q)' = Due(q) \union {<<n0, p0>>}
  <2>1. \A n \in 1..Len(prog), part \in {"resp", "data", "go"} :
          <<n, part>> \in Due(q)' <=> (<<n, part>> \in Due(q) \/ (n = n0 /\ part = p0))
    BY <1>2 DEF Due
  <2>2. \A k \in Due(q)' \union Due(q) \union {<<n0, p0>>} :
          \E n \in 1..Len(prog), part \in {"resp", "data", "go"} : k = <<n, part>>
    BY <1>2 DEF Due
  <2>3. ASSUME NEW k \in Due(q)' \union Due(q) \union {<<n0, p0>>}
        PROVE  k \in Due(q)' <=> (k \in Due(q) \/ k = <<n0, p0>>)
    <3>1. PICK n \in 1..Len(prog), part \in {"resp", "data", "go"} : k = <<n, part>>
      BY <2>2
    <3>2. k = <<n0, p0>> <=> (n = n0 /\ part = p0)
      BY <3>1
    <3>3. k \in Due(q)' <=> (k \in Due(q) \/ (n = n0 /\ part = p0))
      BY <2>1, <3>1
    <3> QED BY <3>2, <3>3
  <2> QED BY <2>3
<1>4. Owed(q)' = Owed(q)
  BY DEF Owed
<1>5. /\ InOrder(net'[Monitor][q])
      /\ Keys(net'[Monitor][q]) = Due(q)'
      /\ \A x \in DOMAIN net'[Monitor][q] :
           net'[Monitor][q][x] = m \/ \E y \in DOMAIN net[Monitor][q] :
                                        net'[Monitor][q][x] = net[Monitor][q][y]
  <2>1. \A k \in Keys(net[Monitor][q]) : Earlier(k, Key(m))
    BY <1>1
  <2>2. PICK s : s = net[Monitor][q]
    OBVIOUS
  <2>3. IsSeq(s) /\ InOrder(s) /\ \A k \in Keys(s) : Earlier(k, Key(m))
    BY <1>1, <2>1, <2>2
  <2>4. /\ InOrder(Append(s, m)) /\ Keys(Append(s, m)) = Keys(s) \union {Key(m)}
        /\ \A x \in DOMAIN Append(s, m) :
             Append(s, m)[x] = m \/ \E y \in DOMAIN s : Append(s, m)[x] = s[y]
    BY ONLY <2>3, AppendInOrder
  <2>5. net'[Monitor][q] = Append(s, m)
    BY <2>2
  <2> QED BY <1>1, <1>3, <2>2, <2>4, <2>5
<1>6. \A x \in DOMAIN net'[Monitor][q] :
        net'[Monitor][q][x].kind = IF net'[Monitor][q][x].what = "go" THEN "write" ELSE "read"
  BY <1>5 DEF NetOf
<1>7. NetOf(q)'
  BY <1>4, <1>5, <1>6 DEF NetOf
<1>8. CausalOf(q)'
  BY DEF CausalOf
<1> QED BY <1>7, <1>8

\* q receives a part.
LEMMA PartGot ==
  ASSUME SInv, NEW q \in Worker, NetOf(q), CausalOf(q), prog' = prog,
         NEW n0 \in 1..Len(prog), NEW p0 \in Parts(prog[n0]),
         NEW x \in DOMAIN net[Monitor][q], Key(net[Monitor][q][x]) = <<n0, p0>>,
         net'[Monitor][q] = RemoveAt(net[Monitor][q], x), net'[q][Monitor] = net[q][Monitor],
         \A n \in 1..Len(prog) : \A part \in Parts(prog[n]) :
           /\ Sent(q, n, part)' <=> Sent(q, n, part)
           /\ Got(q, n, part)' <=> (Got(q, n, part) \/ (n = n0 /\ part = p0)),
         \A n \in 1..Len(prog) : prog[n].op = "write" =>
           (Posted(q, n)' <=> Posted(q, n)) /\ (Collected(q, n)' <=> Collected(q, n))
  PROVE  NetOf(q)' /\ CausalOf(q)'
<1>1. IsSeq(net[Monitor][q]) /\ InOrder(net[Monitor][q]) /\ Keys(net[Monitor][q]) = Due(q)
  BY Numbers DEF SInv, ShapesInv, NetOf
<1>2. <<n0, p0>> \in Due(q)
  BY <1>1 DEF Keys
<1>3. Due(q)' = Due(q) \ {<<n0, p0>>}
  <2>1. \A n \in 1..Len(prog), part \in {"resp", "data", "go"} :
          <<n, part>> \in Due(q)' <=> (<<n, part>> \in Due(q) /\ ~ (n = n0 /\ part = p0))
    BY DEF Due
  <2>2. \A k \in Due(q)' \union Due(q) :
          \E n \in 1..Len(prog), part \in {"resp", "data", "go"} : k = <<n, part>>
    BY DEF Due
  <2>3. ASSUME NEW k \in Due(q)' \union Due(q)
        PROVE  k \in Due(q)' <=> (k \in Due(q) /\ k # <<n0, p0>>)
    <3>1. PICK n \in 1..Len(prog), part \in {"resp", "data", "go"} : k = <<n, part>>
      BY <2>2
    <3>2. k = <<n0, p0>> <=> (n = n0 /\ part = p0)
      BY <3>1
    <3>3. k \in Due(q)' <=> (k \in Due(q) /\ ~ (n = n0 /\ part = p0))
      BY <2>1, <3>1
    <3> QED BY <3>2, <3>3
  <2> QED BY <2>3
<1>4. Owed(q)' = Owed(q)
  BY DEF Owed
<1>5. \A k \in Keys(net[Monitor][q]) : k[1] \in Nat
  BY <1>1, DueFacts
<1>6. /\ InOrder(net'[Monitor][q])
      /\ Keys(net'[Monitor][q]) = Due(q)'
      /\ \A y \in DOMAIN net'[Monitor][q] : \E z \in DOMAIN net[Monitor][q] :
           net'[Monitor][q][y] = net[Monitor][q][z]
  BY <1>1, <1>3, <1>5, RemoveInOrder
<1>7. \A y \in DOMAIN net'[Monitor][q] :
        net'[Monitor][q][y].kind = IF net'[Monitor][q][y].what = "go" THEN "write" ELSE "read"
  BY <1>6 DEF NetOf
<1>8. NetOf(q)'
  BY <1>4, <1>6, <1>7 DEF NetOf
<1>9. Sent(q, n0, p0)
  BY <1>2 DEF Due
<1>10. CausalOf(q)'
  BY <1>9 DEF CausalOf
<1> QED BY <1>8, <1>10

\* q sends its part of a record.
LEMMA DataPosted ==
  ASSUME SInv, NEW q \in Worker, NetOf(q), CausalOf(q), prog' = prog,
         NEW n0 \in 1..Len(prog), prog[n0].op = "write", NEW m, Key(m) = <<n0, "data">>,
         m.kind = "write",
         net'[Monitor][q] = net[Monitor][q], net'[q][Monitor] = Append(net[q][Monitor], m),
         ~ Posted(q, n0),
         \A k \in Owed(q) : Earlier(k, <<n0, "data">>),
         \A n \in 1..Len(prog) : \A part \in Parts(prog[n]) :
           /\ Sent(q, n, part)' <=> Sent(q, n, part)
           /\ Got(q, n, part)' <=> Got(q, n, part),
         \A n \in 1..Len(prog) : prog[n].op = "write" =>
           /\ Posted(q, n)' <=> (Posted(q, n) \/ n = n0)
           /\ Collected(q, n)' <=> Collected(q, n)
  PROVE  NetOf(q)' /\ CausalOf(q)'
<1>1. IsSeq(net[q][Monitor]) /\ InOrder(net[q][Monitor]) /\ Keys(net[q][Monitor]) = Owed(q)
  BY Numbers DEF SInv, ShapesInv, NetOf
<1>2. ~ Collected(q, n0)
  BY DEF CausalOf
<1>3. Owed(q)' = Owed(q) \union {<<n0, "data">>}
  <2>1. \A n \in 1..Len(prog) :
          <<n, "data">> \in Owed(q)' <=> (<<n, "data">> \in Owed(q) \/ n = n0)
    BY <1>2 DEF Owed
  <2>2. \A k \in Owed(q)' \union Owed(q) \union {<<n0, "data">>} :
          \E n \in 1..Len(prog) : k = <<n, "data">>
    BY DEF Owed
  <2> QED BY <2>1, <2>2
<1>4. Due(q)' = Due(q)
  BY DEF Due
<1>5. /\ InOrder(net'[q][Monitor])
      /\ Keys(net'[q][Monitor]) = Owed(q)'
      /\ \A x \in DOMAIN net'[q][Monitor] :
           net'[q][Monitor][x] = m \/ \E y \in DOMAIN net[q][Monitor] :
                                        net'[q][Monitor][x] = net[q][Monitor][y]
  <2>1. \A k \in Keys(net[q][Monitor]) : Earlier(k, Key(m))
    BY <1>1
  <2>2. PICK s : s = net[q][Monitor]
    OBVIOUS
  <2>3. IsSeq(s) /\ InOrder(s) /\ \A k \in Keys(s) : Earlier(k, Key(m))
    BY <1>1, <2>1, <2>2
  <2>4. /\ InOrder(Append(s, m)) /\ Keys(Append(s, m)) = Keys(s) \union {Key(m)}
        /\ \A x \in DOMAIN Append(s, m) :
             Append(s, m)[x] = m \/ \E y \in DOMAIN s : Append(s, m)[x] = s[y]
    BY ONLY <2>3, AppendInOrder
  <2>5. net'[q][Monitor] = Append(s, m)
    BY <2>2
  <2> QED BY <1>1, <1>3, <2>2, <2>4, <2>5
<1>6. \A x \in DOMAIN net'[q][Monitor] : net'[q][Monitor][x].kind = "write"
  BY <1>5 DEF NetOf
<1>7. NetOf(q)'
  BY <1>4, <1>5, <1>6 DEF NetOf
<1>8. CausalOf(q)'
  BY DEF CausalOf
<1> QED BY <1>7, <1>8

\* The monitor receives q's part.
LEMMA DataCollected ==
  ASSUME SInv, NEW q \in Worker, NetOf(q), CausalOf(q), prog' = prog,
         NEW n0 \in 1..Len(prog), prog[n0].op = "write",
         NEW x \in DOMAIN net[q][Monitor], Key(net[q][Monitor][x]) = <<n0, "data">>,
         net'[Monitor][q] = net[Monitor][q], net'[q][Monitor] = RemoveAt(net[q][Monitor], x),
         \A n \in 1..Len(prog) : \A part \in Parts(prog[n]) :
           /\ Sent(q, n, part)' <=> Sent(q, n, part)
           /\ Got(q, n, part)' <=> Got(q, n, part),
         \A n \in 1..Len(prog) : prog[n].op = "write" =>
           /\ Posted(q, n)' <=> Posted(q, n)
           /\ Collected(q, n)' <=> (Collected(q, n) \/ n = n0)
  PROVE  NetOf(q)' /\ CausalOf(q)'
<1>1. IsSeq(net[q][Monitor]) /\ InOrder(net[q][Monitor]) /\ Keys(net[q][Monitor]) = Owed(q)
  BY Numbers DEF SInv, ShapesInv, NetOf
<1>2. <<n0, "data">> \in Owed(q)
  BY <1>1 DEF Keys
<1>3. Owed(q)' = Owed(q) \ {<<n0, "data">>}
  <2>1. \A n \in 1..Len(prog) :
          <<n, "data">> \in Owed(q)' <=> (<<n, "data">> \in Owed(q) /\ n # n0)
    BY DEF Owed
  <2>2. \A k \in Owed(q)' \union Owed(q) : \E n \in 1..Len(prog) : k = <<n, "data">>
    BY DEF Owed
  <2> QED BY <2>1, <2>2
<1>4. Due(q)' = Due(q)
  BY DEF Due
<1>5. \A k \in Keys(net[q][Monitor]) : k[1] \in Nat
  BY <1>1, DueFacts
<1>6. /\ InOrder(net'[q][Monitor])
      /\ Keys(net'[q][Monitor]) = Owed(q)'
      /\ \A y \in DOMAIN net'[q][Monitor] : \E z \in DOMAIN net[q][Monitor] :
           net'[q][Monitor][y] = net[q][Monitor][z]
  BY <1>1, <1>3, <1>5, RemoveInOrder
<1>7. \A y \in DOMAIN net'[q][Monitor] : net'[q][Monitor][y].kind = "write"
  BY <1>6 DEF NetOf
<1>8. NetOf(q)'
  BY <1>4, <1>6, <1>7 DEF NetOf
<1>9. Posted(q, n0)
  BY <1>2 DEF Owed
<1>10. CausalOf(q)'
  BY <1>9 DEF CausalOf
<1> QED BY <1>8, <1>10

-------------------------------------------------------------------------------
(* What a receive gets *)

LEMMA CallTypes ==
  ASSUME SInv, NEW p \in Proc
  PROVE  /\ call[p] \in Nat /\ call[p] \in 1..(Len(prog) + 1) /\ Len(prog) \in Nat
         /\ pc[p] # "model" => call[p] \in 1..Len(prog)
<1>1. Len(prog) \in Nat /\ DOMAIN prog = 1..Len(prog)
  BY DEF SInv, TypeOK
<1> QED BY <1>1 DEF SInv, TypeOK, PlacesInv

\* The first message of its kind is the one a processor waits for.
LEMMA ReceivesItsPart ==
  ASSUME SInv, NetInv, NEW p \in Worker, NEW part,
         \/ pc[p] = "resp" /\ part = "resp"
         \/ pc[p] = "share" /\ part = "data"
         \/ pc[p] = "go" /\ part = "go",
         NEW kind, kind = (IF part = "go" THEN "write" ELSE "read"),
         Ready(Monitor, p, kind)
  PROVE  /\ FirstOf(Monitor, p, kind) \in DOMAIN net[Monitor][p]
         /\ Received(Monitor, p, kind) = net[Monitor][p][FirstOf(Monitor, p, kind)]
         /\ Key(Received(Monitor, p, kind)) = <<call[p], part>>
         /\ call[p] \in 1..Len(prog) /\ part \in Parts(prog[call[p]])
<1> DEFINE s == net[Monitor][p]
           x == FirstOf(Monitor, p, kind)
           n0 == call[p]
<1>1. /\ p \in Proc /\ Monitor \in Proc /\ IsSeq(s)
      /\ n0 \in 1..Len(prog) /\ Len(prog) \in Nat /\ call[Monitor] \in Nat
  BY Numbers, CallTypes DEF SInv, ShapesInv
<1>2. /\ x \in DOMAIN s /\ s[x].kind = kind /\ Received(Monitor, p, kind) = s[x]
      /\ \A y \in DOMAIN s : y < x => s[y].kind # kind
  BY <1>1, FirstOfFacts
<1>3. /\ Keys(s) = Due(p) /\ InOrder(s) /\ CausalOf(p)
      /\ \A y \in DOMAIN s : s[y].kind = IF s[y].what = "go" THEN "write" ELSE "read"
  BY DEF NetInv, NetOf
<1>4. part \in Parts(prog[n0]) /\ part \in {"resp", "data", "go"} /\ ~ Got(p, n0, part)
  <2>1. /\ pc[p] \in {"resp", "share"} => prog[n0].op = "read"
        /\ pc[p] = "go" => prog[n0].op = "write"
    BY DEF SInv, PlacesInv, Now
  <2>2. pc[p] \notin After(part)
    BY PartsFacts
  <2> QED BY <1>1, <2>1, <2>2 DEF Parts, Got
<1> HIDE DEF n0
<1>5. PICK n \in 1..Len(prog), w \in {"resp", "data", "go"} :
        /\ Key(s[x]) = <<n, w>> /\ s[x].what = w
        /\ w \in Parts(prog[n]) /\ Sent(p, n, w) /\ ~ Got(p, n, w)
  <2>1. Key(s[x]) \in Due(p)
    BY <1>2, <1>3 DEF Keys
  <2> QED BY <2>1 DEF Due, Key
<1>6. w = "go" <=> part = "go"
  BY <1>2, <1>3, <1>5
<1>7. n >= n0
  BY <1>1, <1>5 DEF Got, n0
\* Were the part that is waited for in flight too, it would come first.
<1>8. ASSUME <<n0, part>> \in Due(p), Earlier(<<n0, part>>, <<n, w>>)
      PROVE  FALSE
  <2>1. PICK y \in DOMAIN s : Key(s[y]) = <<n0, part>>
    BY <1>3, <1>8 DEF Keys
  <2>2. s[y].what = part
    BY <2>1 DEF Key
  <2>3. s[y].kind = kind
    BY <1>3, <2>2
  <2>4. ~ (y < x)
    BY <1>2, <2>3
  <2>5. DOMAIN s = 1..Len(s) /\ Len(s) \in Nat
    BY <1>1, IsSeqFacts
  <2>6. y = x \/ x < y
    BY <1>2, <2>4, <2>5
  <2>7. ~ Earlier(<<n0, part>>, <<n0, part>>) /\ ~ Earlier(<<n, w>>, <<n0, part>>)
    BY <1>1, <1>5, <1>7, <1>8 DEF Earlier
  <2>8. y = x => Earlier(<<n0, part>>, <<n0, part>>)
    BY <1>5, <1>8, <2>1
  <2>9. x < y => Earlier(<<n, w>>, <<n0, part>>)
    BY <1>2, <1>3, <1>5, <2>1 DEF InOrder
  <2> QED BY <2>6, <2>7, <2>8, <2>9
<1>9. ASSUME n > n0
      PROVE  FALSE
  <2>1. n0 < call[Monitor]
    BY <1>1, <1>5, <1>9 DEF Sent
  <2>2. Sent(p, n0, part)
    BY <2>1 DEF Sent
  <2>3. <<n0, part>> \in Due(p)
    BY <1>1, <1>4, <2>2 DEF Due
  <2>4. Earlier(<<n0, part>>, <<n, w>>)
    BY <1>9 DEF Earlier
  <2> QED BY <1>8, <2>3, <2>4
<1>10. ASSUME n = n0, w # part
       PROVE  FALSE
  <2>1. part \in {"resp", "data"} /\ w \in {"resp", "data"}
    BY <1>4, <1>5, <1>6, <1>10
  <2>2. CASE part = "resp" /\ w = "data"
    <3>1. Sent(p, n0, part)
      BY <1>5, <1>10, <2>2, PartsFacts DEF Sent
    <3>2. <<n0, part>> \in Due(p)
      BY <1>1, <1>4, <3>1 DEF Due
    <3>3. Earlier(<<n0, part>>, <<n, w>>)
      BY <1>10, <2>2 DEF Earlier
    <3> QED BY <1>8, <3>2, <3>3
  <2>3. CASE part = "data" /\ w = "resp"
    <3>1. pc[p] = "share"
      BY <2>3
    <3>2. Got(p, n, w)
      BY <1>10, <2>3, <3>1, PartsFacts DEF Got, n0
    <3> QED BY <1>5, <3>2
  <2> QED BY <1>10, <2>1, <2>2, <2>3
<1>11. n = n0 /\ w = part
  <2>1. n \in 1..Len(prog) /\ n0 \in 1..Len(prog) /\ Len(prog) \in Nat
    BY <1>1
  <2>2. ~ (n > n0)
    BY <1>9
  <2>3. n = n0
    BY <1>7, <2>1, <2>2
  <2>4. w = part
    BY <1>10, <2>3
  <2> QED BY <2>3, <2>4
<1> QED BY <1>1, <1>2, <1>4, <1>5, <1>11 DEF n0

\* The monitor gets the message about its own record.
LEMMA CollectsItsPart ==
  ASSUME SInv, NetInv, pc[Monitor] = "collect", Ready(loopP, Monitor, "write")
  PROVE  /\ loopP \in Worker
         /\ FirstOf(loopP, Monitor, "write") \in DOMAIN net[loopP][Monitor]
         /\ Received(loopP, Monitor, "write") =
              net[loopP][Monitor][FirstOf(loopP, Monitor, "write")]
         /\ Key(Received(loopP, Monitor, "write")) = <<call[Monitor], "data">>
         /\ call[Monitor] \in 1..Len(prog) /\ prog[call[Monitor]].op = "write"
<1> DEFINE s == net[loopP][Monitor]
           x == FirstOf(loopP, Monitor, "write")
<1>1. /\ loopP \in Worker /\ loopP \in Proc /\ loopP \in Nat /\ Monitor \in Proc /\ IsSeq(s)
      /\ prog[call[Monitor]].op = "write"
      /\ call[Monitor] \in 1..Len(prog) /\ Len(prog) \in Nat /\ call[loopP] \in Nat
  BY Numbers, CallTypes DEF SInv, ShapesInv, PlacesInv, Now
<1>2. x \in DOMAIN s /\ Received(loopP, Monitor, "write") = s[x]
  BY <1>1, FirstOfFacts
<1>3. Keys(s) = Owed(loopP) /\ CausalOf(loopP)
  BY <1>1 DEF NetInv, NetOf
<1>4. PICK n \in 1..Len(prog) :
        /\ Key(s[x]) = <<n, "data">> /\ prog[n].op = "write"
        /\ Posted(loopP, n) /\ ~ Collected(loopP, n)
  <2>1. Key(s[x]) \in Owed(loopP)
    BY <1>2, <1>3 DEF Keys
  <2> QED BY <2>1 DEF Owed
<1>5. Got(loopP, n, "go") /\ "go" \in Parts(prog[n])
  BY <1>4, PartsFacts DEF Posted, Got, Parts
<1>6. Sent(loopP, n, "go")
  BY <1>3, <1>4, <1>5 DEF CausalOf
<1>7. n = call[Monitor]
  BY <1>1, <1>4, <1>6 DEF Sent, Collected
<1> QED BY <1>1, <1>2, <1>4, <1>7

-------------------------------------------------------------------------------
(* Every step keeps what is in flight in order *)

\* The ends a step leaves alone.
LEMMA MonitorStays ==
  ASSUME call'[Monitor] = call[Monitor], pc'[Monitor] = pc[Monitor], loopP' = loopP
  PROVE  \A q, n, part : /\ Sent(q, n, part)' <=> Sent(q, n, part)
                         /\ Collected(q, n)' <=> Collected(q, n)
BY DEF Sent, Collected

LEMMA WorkerStays ==
  ASSUME NEW q, call'[q] = call[q], pc'[q] = pc[q]
  PROVE  \A n, part : /\ Got(q, n, part)' <=> Got(q, n, part)
                      /\ Posted(q, n)' <=> Posted(q, n)
BY DEF Got, Posted

\* A step of worker p in a call does not concern the others.
LEMMA OtherWorkersKeep ==
  ASSUME SInv, NetInv, NEW p \in Worker, prog' = prog, loopP' = loopP,
         \A q \in Proc : q # p => call'[q] = call[q] /\ pc'[q] = pc[q],
         \A r, t \in Proc : (r # p /\ t # p) => net'[r][t] = net[r][t],
         NEW q \in Worker, q # p
  PROVE  NetOf(q)' /\ CausalOf(q)'
<1>1. q \in Proc /\ p \in Proc /\ Monitor \in Proc /\ p # Monitor /\ q # Monitor
  BY Numbers
<1>2. Len(prog) \in Nat
  BY CallTypes, <1>1
<1>3. /\ \A n, part : Sent(q, n, part)' <=> Sent(q, n, part)
      /\ \A n, part : Collected(q, n)' <=> Collected(q, n)
  BY <1>1, MonitorStays
<1>4. /\ \A n, part : Got(q, n, part)' <=> Got(q, n, part)
      /\ \A n, part : Posted(q, n)' <=> Posted(q, n)
  BY <1>1, WorkerStays
<1>5. NetOf(q) /\ CausalOf(q)
  BY DEF NetInv
<1> QED BY <1>1, <1>2, <1>3, <1>4, <1>5, NothingMoves

LEMMA ReceiveNet ==
  ASSUME SInv, NetInv, NEW p \in Worker, RecvResp(p) \/ RecvShare(p) \/ RecvGo(p)
  PROVE  NetInv'
<1>1. p \in Proc /\ Monitor \in Proc /\ p # Monitor /\ DOMAIN pc = Proc /\ DOMAIN call = Proc
  BY Numbers DEF SInv, TypeOK
<1>2. PICK part, kind :
        /\ \/ /\ pc[p] = "resp" /\ part = "resp"
              /\ pc' = [pc EXCEPT ![p] = "share"] /\ call' = call
           \/ /\ pc[p] = "share" /\ part = "data"
              /\ pc' = [pc EXCEPT ![p] = "model"] /\ call' = [call EXCEPT ![p] = call[p] + 1]
           \/ /\ pc[p] = "go" /\ part = "go"
              /\ pc' = [pc EXCEPT ![p] = "data"] /\ call' = call
        /\ kind = (IF part = "go" THEN "write" ELSE "read")
        /\ Take(Monitor, p, kind)
        /\ prog' = prog /\ loopP' = loopP
  BY DEF RecvResp, RecvShare, RecvGo, Goes, Returns
<1>3. /\ \A q \in Proc : q # p => call'[q] = call[q] /\ pc'[q] = pc[q]
      /\ \/ pc[p] = "resp" /\ part = "resp" /\ pc'[p] = "share" /\ call'[p] = call[p]
         \/ pc[p] = "share" /\ part = "data" /\ pc'[p] = "model" /\ call'[p] = call[p] + 1
         \/ pc[p] = "go" /\ part = "go" /\ pc'[p] = "data" /\ call'[p] = call[p]
  BY <1>1, <1>2
<1>4. /\ \A r, t \in Proc : r # Monitor \/ t # p => net'[r][t] = net[r][t]
      /\ Ready(Monitor, p, kind)
      /\ net'[Monitor][p] = RemoveAt(net[Monitor][p], FirstOf(Monitor, p, kind))
  BY <1>1, <1>2, TakeFacts DEF SInv
<1>0. PICK n0, x : n0 = call[p] /\ x = FirstOf(Monitor, p, kind)
  OBVIOUS
<1>5. /\ x \in DOMAIN net[Monitor][p] /\ Key(net[Monitor][p][x]) = <<n0, part>>
      /\ n0 \in 1..Len(prog) /\ part \in Parts(prog[n0])
  <2>1. \/ pc[p] = "resp" /\ part = "resp"
        \/ pc[p] = "share" /\ part = "data"
        \/ pc[p] = "go" /\ part = "go"
    BY <1>2
  <2>2. kind = (IF part = "go" THEN "write" ELSE "read") /\ Ready(Monitor, p, kind)
    BY <1>2, <1>4
  <2>3. /\ FirstOf(Monitor, p, kind) \in DOMAIN net[Monitor][p]
        /\ Received(Monitor, p, kind) = net[Monitor][p][FirstOf(Monitor, p, kind)]
        /\ Key(Received(Monitor, p, kind)) = <<call[p], part>>
        /\ call[p] \in 1..Len(prog) /\ part \in Parts(prog[call[p]])
    BY <2>1, <2>2, ReceivesItsPart
  <2> QED BY <1>0, <2>3
<1>6. \A n, w : Sent(p, n, w)' <=> Sent(p, n, w)
  BY <1>1, <1>2, <1>3, MonitorStays
<1>7. \A n, w : Collected(p, n)' <=> Collected(p, n)
  BY <1>1, <1>2, <1>3, MonitorStays
<1>8. /\ pc[p] \in {"resp", "share"} => prog[n0].op = "read"
      /\ pc[p] = "go" => prog[n0].op = "write"
  BY <1>0 DEF SInv, PlacesInv, Now
<1>9. Len(prog) \in Nat /\ call[p] = n0 /\ n0 \in Nat
  BY <1>0, <1>1, CallTypes
<1>10. ASSUME NEW n \in 1..Len(prog), NEW w \in Parts(prog[n])
       PROVE  Got(p, n, w)' <=> (Got(p, n, w) \/ (n = n0 /\ w = part))
  <2>1. w \in {"resp", "data", "go"} /\ n \in Nat
    BY PartsFacts, <1>9
  <2>2. n = n0 => (pc[p] = "share" => w \in {"resp", "data"})
    BY <1>8 DEF Parts
  <2>3. Got(p, n, w)' <=> n < call'[p] \/ (n = call'[p] /\ pc'[p] \in After(w))
    BY DEF Got
  <2>4. Got(p, n, w) <=> n < n0 \/ (n = n0 /\ pc[p] \in After(w))
    BY <1>9 DEF Got
  <2>5. CASE pc[p] = "resp"
    BY <1>3, <1>9, <2>1, <2>3, <2>4, <2>5, PartsFacts
  <2>6. CASE pc[p] = "share"
    BY <1>3, <1>9, <2>1, <2>2, <2>3, <2>4, <2>6, PartsFacts
  <2>7. CASE pc[p] = "go"
    BY <1>3, <1>9, <2>1, <2>3, <2>4, <2>7, PartsFacts
  <2> QED BY <1>3, <2>5, <2>6, <2>7
<1>11. ASSUME NEW n \in 1..Len(prog), prog[n].op = "write"
       PROVE  Posted(p, n)' <=> Posted(p, n)
  BY <1>3, <1>8, <1>9, <1>11 DEF Posted
<1>12. net'[p][Monitor] = net[p][Monitor]
  BY <1>1, <1>4
<1>13. NetOf(p) /\ CausalOf(p)
  BY DEF NetInv
<1>14. NetOf(p)' /\ CausalOf(p)'
  <2>1. prog' = prog /\ net'[Monitor][p] = RemoveAt(net[Monitor][p], x)
    BY <1>0, <1>2, <1>4
  <2>2. \A n \in 1..Len(prog) : \A w \in Parts(prog[n]) :
          /\ Sent(p, n, w)' <=> Sent(p, n, w)
          /\ Got(p, n, w)' <=> (Got(p, n, w) \/ (n = n0 /\ w = part))
    BY <1>6, <1>10
  <2>3. \A n \in 1..Len(prog) : prog[n].op = "write" =>
          (Posted(p, n)' <=> Posted(p, n)) /\ (Collected(p, n)' <=> Collected(p, n))
    BY <1>7, <1>11
  <2> QED BY <1>5, <1>12, <1>13, <2>1, <2>2, <2>3, PartGot
<1>15. \A q \in Worker : q # p => NetOf(q)' /\ CausalOf(q)'
  BY <1>1, <1>2, <1>3, <1>4, OtherWorkersKeep
<1> QED BY <1>14, <1>15 DEF NetInv

LEMMA SendNet ==
  ASSUME SInv, NetInv, NEW p \in Worker, SendPacked(p)
  PROVE  NetInv'
<1>0. PICK n0, m : n0 = call[p] /\ m = Msg("write", "data", n0, pbuf[p])
  OBVIOUS
<1>1. p \in Proc /\ Monitor \in Proc /\ p # Monitor /\ DOMAIN pc = Proc /\ DOMAIN call = Proc
  BY Numbers DEF SInv, TypeOK
<1>2. /\ pc[p] = "data" /\ Post(p, Monitor, m) /\ pc' = [pc EXCEPT ![p] = "sending"]
      /\ call' = call /\ prog' = prog /\ loopP' = loopP
  BY <1>0 DEF SendPacked, Goes
<1>3. pc'[p] = "sending" /\ \A q \in Proc : q # p => pc'[q] = pc[q]
  BY <1>1, <1>2
<1>4. /\ \A r, t \in Proc : r # p \/ t # Monitor => net'[r][t] = net[r][t]
      /\ net'[p][Monitor] = Append(net[p][Monitor], m)
  BY <1>1, <1>2, PostFacts DEF SInv
<1>5. Key(m) = <<n0, "data">> /\ m.kind = "write"
  BY <1>0 DEF Msg, Key
<1>6. n0 \in 1..Len(prog) /\ Len(prog) \in Nat /\ prog[n0].op = "write" /\ n0 = call[p]
  BY <1>0, <1>1, <1>2, CallTypes DEF SInv, PlacesInv, Now
<1>7. \A n, w : Sent(p, n, w)' <=> Sent(p, n, w)
  BY <1>1, <1>2, <1>3, MonitorStays
<1>8. \A n, w : Collected(p, n)' <=> Collected(p, n)
  BY <1>1, <1>2, <1>3, MonitorStays
<1>9. ASSUME NEW n \in 1..Len(prog), NEW w \in Parts(prog[n])
      PROVE  Got(p, n, w)' <=> Got(p, n, w)
  <2>1. w \in {"resp", "data", "go"}
    BY PartsFacts
  <2>2. "sending" \in After(w) <=> "data" \in After(w)
    BY <2>1, PartsFacts
  <2> QED BY <1>2, <1>3, <2>2 DEF Got
<1>10. \A n \in 1..Len(prog) : Posted(p, n)' <=> (Posted(p, n) \/ n = n0)
  BY <1>2, <1>3, <1>6 DEF Posted
<1>11. ~ Posted(p, n0)
  BY <1>2, <1>6 DEF Posted
<1>12. \A k \in Owed(p) : Earlier(k, <<n0, "data">>)
  BY <1>2, <1>6 DEF Owed, Posted, Earlier
<1>13. NetOf(p) /\ CausalOf(p) /\ net'[Monitor][p] = net[Monitor][p]
  BY <1>1, <1>4 DEF NetInv
<1>14. NetOf(p)' /\ CausalOf(p)'
  <2>1. \A n \in 1..Len(prog) : \A w \in Parts(prog[n]) :
          /\ Sent(p, n, w)' <=> Sent(p, n, w)
          /\ Got(p, n, w)' <=> Got(p, n, w)
    BY <1>7, <1>9
  <2>2. \A n \in 1..Len(prog) : prog[n].op = "write" =>
          /\ Posted(p, n)' <=> (Posted(p, n) \/ n = n0)
          /\ Collected(p, n)' <=> Collected(p, n)
    BY <1>8, <1>10
  <2> QED BY <1>2, <1>4, <1>5, <1>6, <1>11, <1>12, <1>13, <2>1, <2>2, DataPosted
<1>15. \A q \in Worker : q # p => NetOf(q)' /\ CausalOf(q)'
  BY <1>1, <1>2, <1>3, <1>4, OtherWorkersKeep
<1> QED BY <1>14, <1>15 DEF NetInv

\* A step of the monitor that leaves the messages alone moves it past nothing.
LEMMA MonitorKeeps ==
  ASSUME SInv, NetInv, UNCHANGED <<prog, net>>,
         \A q \in Worker : call'[q] = call[q] /\ pc'[q] = pc[q],
         \A q \in Worker, n \in 1..Len(prog) :
           /\ \A part \in Parts(prog[n]) : Sent(q, n, part)' <=> Sent(q, n, part)
           /\ prog[n].op = "write" => (Collected(q, n)' <=> Collected(q, n))
  PROVE  NetInv'
<1> SUFFICES ASSUME NEW q \in Worker
             PROVE  NetOf(q)' /\ CausalOf(q)'
  BY DEF NetInv
<1>1. /\ \A n, part : Got(q, n, part)' <=> Got(q, n, part)
      /\ \A n, part : Posted(q, n)' <=> Posted(q, n)
  BY WorkerStays
<1>2. Len(prog) \in Nat /\ NetOf(q) /\ CausalOf(q)
  BY CallTypes, Numbers DEF NetInv
<1> QED BY <1>1, <1>2, NothingMoves

LEMMA MonitorSends ==
  ASSUME SInv, NetInv, SendResp \/ SendShare \/ SendGo
  PROVE  NetInv'
<1>0. PICK n0, p, k0 : n0 = call[Monitor] /\ p = loopP /\ k0 = pc[Monitor]
  OBVIOUS
<1>1. DOMAIN pc = Proc /\ Monitor \in Proc /\ Len(prog) \in Nat /\ n0 \in Nat /\ loopP \in Nat
  BY <1>0, Numbers, CallTypes DEF SInv, TypeOK
<1>2. PICK part, kind, body, where :
        /\ \/ k0 = "loop" /\ part = "resp" /\ where = "answering" /\ prog[n0].op = "read"
           \/ k0 = "answered" /\ part = "data" /\ where = "shipping" /\ prog[n0].op = "read"
           \/ k0 = "loop" /\ part = "go" /\ where = "going" /\ prog[n0].op = "write"
        /\ kind = (IF part = "go" THEN "write" ELSE "read")
        /\ Post(Monitor, p, Msg(kind, part, n0, body)) /\ pc' = [pc EXCEPT ![Monitor] = where]
        /\ UNCHANGED <<prog, call, loopP>> /\ p \in Worker
  <2>1. pc[Monitor] = "loop" /\ loopP < NProc /\ loopP # Monitor => loopP \in Worker
    BY Numbers DEF SInv, TypeOK
  <2>2. pc[Monitor] = "answered" => loopP \in Worker /\ prog[n0].op = "read"
    BY <1>0 DEF SInv, PlacesInv, Now
  <2>3. CASE SendResp
    BY <1>0, <2>1, <2>3 DEF SendResp, InLoop, Goes, Now
  <2>4. CASE SendShare
    <3>1. PICK body : body = Packed(gbuf, ShareOrder(Now(Monitor), loopP))
      OBVIOUS
    <3>2. /\ pc[Monitor] = "answered" /\ Post(Monitor, loopP, Msg("read", "data", n0, body))
          /\ pc' = [pc EXCEPT ![Monitor] = "shipping"] /\ UNCHANGED <<prog, call, loopP>>
      BY <1>0, <2>4, <3>1 DEF SendShare, Goes
    <3> QED BY <1>0, <2>2, <3>2
  <2>5. CASE SendGo
    BY <1>0, <2>1, <2>5 DEF SendGo, InLoop, Goes, Now
  <2> QED BY <2>3, <2>4, <2>5
<1>3. /\ p \in Proc /\ p # Monitor /\ p \in Nat
      /\ pc'[Monitor] = where /\ \A q \in Worker : q \in Proc /\ q # Monitor /\ pc'[q] = pc[q]
  BY <1>1, <1>2, Numbers
<1>4. PICK m : /\ m = Msg(kind, part, n0, body) /\ Key(m) = <<n0, part>> /\ m.what = part
               /\ m.kind = kind
  <2>1. LET m == Msg(kind, part, n0, body)
        IN Key(m) = <<n0, part>> /\ m.what = part /\ m.kind = kind
    BY DEF Msg, Key
  <2> QED BY <2>1
<1>5. /\ net'[Monitor][p] = Append(net[Monitor][p], m)
      /\ \A r, t \in Proc : r # Monitor \/ t # p => net'[r][t] = net[r][t]
  <2>1. Post(Monitor, p, m) /\ ShapesInv
    BY <1>2, <1>4 DEF SInv
  <2>2. Monitor \in Proc /\ p \in Proc
    BY <1>1, <1>3
  <2> QED BY <2>1, <2>2, PostFacts
<1>6. /\ n0 \in 1..Len(prog) /\ part \in Parts(prog[n0]) /\ part \in {"resp", "data", "go"}
      /\ k0 # "model" /\ where # "model"
  <2>1. n0 \in 1..Len(prog)
    BY <1>0, <1>1, <1>2, CallTypes
  <2> QED BY <1>2, <2>1 DEF Parts
<1>7. \A q, n : /\ Collected(q, n) <=> n < n0 \/ (n = n0 /\ p > q)
                /\ Collected(q, n)' <=> n < n0 \/ (n = n0 /\ p > q)
  BY <1>0, <1>2, <1>3, <1>6 DEF Collected
<1>8. \A q, n, w :
        /\ Sent(q, n, w) <=> n < n0 \/ (n = n0 /\ (p > q \/ (p = q /\ k0 \in Since(w))))
        /\ Sent(q, n, w)' <=> n < n0 \/ (n = n0 /\ (p > q \/ (p = q /\ where \in Since(w))))
  BY <1>0, <1>2, <1>3, <1>6 DEF Sent
<1>9. /\ \A q \in Worker : \A n, w : Got(q, n, w)' <=> Got(q, n, w)
      /\ \A q \in Worker : \A n, w : Posted(q, n)' <=> Posted(q, n)
  BY <1>2, <1>3, WorkerStays
<1>10. ASSUME NEW w \in Parts(prog[n0])
       PROVE  where \in Since(w) <=> (k0 \in Since(w) \/ w = part)
  <2>1. w \in IF prog[n0].op = "read" THEN {"resp", "data"} ELSE {"go"}
    BY <1>2 DEF Parts
  <2> QED BY <1>2, <2>1, PartsFacts
<1>11. NetOf(p)' /\ CausalOf(p)'
  <2>1. \A n \in 1..Len(prog) : \A w \in Parts(prog[n]) :
          /\ Sent(p, n, w)' <=> (Sent(p, n, w) \/ (n = n0 /\ w = part))
          /\ Got(p, n, w)' <=> Got(p, n, w)
    <3> SUFFICES ASSUME NEW n \in 1..Len(prog), NEW w \in Parts(prog[n])
                 PROVE  Sent(p, n, w)' <=> (Sent(p, n, w) \/ (n = n0 /\ w = part))
      BY <1>2, <1>9
    <3>1. n = n0 => (where \in Since(w) <=> (k0 \in Since(w) \/ w = part))
      BY <1>10
    <3> QED BY <1>1, <1>3, <1>8, <3>1
  <2>2. \A n \in 1..Len(prog) : prog[n].op = "write" =>
          (Posted(p, n)' <=> Posted(p, n)) /\ (Collected(p, n)' <=> Collected(p, n))
    BY <1>2, <1>7, <1>9
  <2>3. ~ Sent(p, n0, part)
    BY <1>1, <1>2, <1>3, <1>8, PartsFacts
  <2>4. ASSUME NEW k \in Due(p)
        PROVE  Earlier(k, <<n0, part>>)
    <3>1. PICK n \in 1..Len(prog), w \in {"resp", "data", "go"} :
            k = <<n, w>> /\ w \in Parts(prog[n]) /\ Sent(p, n, w)
      BY DEF Due
    <3>2. n < n0 \/ (n = n0 /\ k0 \in Since(w))
      BY <1>1, <1>3, <1>8, <3>1
    <3>3. k0 \in Since(w) => k0 = "answered" /\ w = "resp"
      BY <1>2, PartsFacts
    <3>4. n < n0 \/ (n = n0 /\ w = "resp" /\ part = "data")
      BY <1>2, <3>2, <3>3
    <3> QED BY <3>1, <3>4 DEF Earlier
  <2>5. NetOf(p) /\ CausalOf(p) /\ net'[p][Monitor] = net[p][Monitor]
    BY <1>1, <1>2, <1>3, <1>5 DEF NetInv
  <2>6. m.kind = IF m.what = "go" THEN "write" ELSE "read"
    BY <1>2, <1>4
  <2> QED BY <1>2, <1>4, <1>5, <1>6, <2>1, <2>2, <2>3, <2>4, <2>5, <2>6, PartSent
<1>12. ASSUME NEW q \in Worker, q # p
       PROVE  NetOf(q)' /\ CausalOf(q)'
  <2>1. net'[Monitor][q] = net[Monitor][q] /\ net'[q][Monitor] = net[q][Monitor]
    BY <1>1, <1>3, <1>5, <1>12
  <2>2. \A n, w : Sent(q, n, w)' <=> Sent(q, n, w)
    BY <1>8, <1>12
  <2>3. \A n : Collected(q, n)' <=> Collected(q, n)
    BY <1>7
  <2>4. NetOf(q) /\ CausalOf(q)
    BY DEF NetInv
  <2> QED BY <1>1, <1>2, <1>9, <2>1, <2>2, <2>3, <2>4, NothingMoves
<1> QED BY <1>11, <1>12 DEF NetInv

LEMMA CollectNet ==
  ASSUME SInv, NetInv, Collect
  PROVE  NetInv'
<1>0. PICK n0, p, x : n0 = call[Monitor] /\ p = loopP /\ x = FirstOf(loopP, Monitor, "write")
  OBVIOUS
<1>1. /\ pc[Monitor] = "collect" /\ Take(p, Monitor, "write") /\ loopP' = p + 1
      /\ pc' = [pc EXCEPT ![Monitor] = "loop"] /\ UNCHANGED <<prog, call>>
      /\ DOMAIN pc = Proc /\ Ready(p, Monitor, "write")
  BY <1>0 DEF Collect, NextP, Goes, Take, SInv, TypeOK
<1>2. /\ p \in Worker /\ x \in DOMAIN net[p][Monitor]
      /\ Key(net[p][Monitor][x]) = <<n0, "data">>
      /\ n0 \in 1..Len(prog) /\ prog[n0].op = "write" /\ Len(prog) \in Nat
  <2>1. /\ loopP \in Worker /\ x \in DOMAIN net[loopP][Monitor]
        /\ Received(loopP, Monitor, "write") = net[loopP][Monitor][x]
        /\ Key(Received(loopP, Monitor, "write")) = <<n0, "data">>
        /\ n0 \in 1..Len(prog) /\ prog[n0].op = "write"
    BY <1>0, <1>1, CollectsItsPart
  <2>2. Len(prog) \in Nat
    BY CallTypes, Numbers
  <2> QED BY <1>0, <2>1, <2>2
<1>3. /\ p \in Proc /\ p # Monitor /\ p \in Nat /\ Monitor \in Proc
      /\ pc'[Monitor] = "loop"
      /\ \A q \in Worker : q \in Proc /\ q # Monitor /\ pc'[q] = pc[q] /\ q \in Nat
  BY <1>1, <1>2, Numbers
<1>4. /\ net'[p][Monitor] = RemoveAt(net[p][Monitor], x)
      /\ \A r, t \in Proc : r # p \/ t # Monitor => net'[r][t] = net[r][t]
  BY <1>0, <1>1, <1>3, TakeFacts DEF SInv
<1>5. \A q, n : /\ Collected(q, n) <=> n < n0 \/ (n = n0 /\ p > q)
                /\ Collected(q, n)' <=> n < n0 \/ (n = n0 /\ p + 1 > q)
  BY <1>0, <1>1, <1>3 DEF Collected
<1>6. \A q, n, w :
        /\ Sent(q, n, w) <=> n < n0 \/ (n = n0 /\ (p > q \/ (p = q /\ "collect" \in Since(w))))
        /\ Sent(q, n, w)' <=> n < n0 \/ (n = n0 /\ (p + 1 > q \/ (p + 1 = q /\ "loop" \in Since(w))))
  BY <1>0, <1>1, <1>3 DEF Sent
<1>7. /\ \A q \in Worker : \A n, w : Got(q, n, w)' <=> Got(q, n, w)
      /\ \A q \in Worker : \A n, w : Posted(q, n)' <=> Posted(q, n)
  BY <1>1, <1>3, WorkerStays
<1>8. ASSUME NEW q \in Worker, NEW n \in 1..Len(prog), NEW w \in Parts(prog[n])
      PROVE  Sent(q, n, w)' <=> Sent(q, n, w)
  <2>1. n = n0 => w = "go"
    BY <1>2 DEF Parts
  <2>2. "collect" \in Since("go") /\ "loop" \notin Since("go")
    BY PartsFacts
  <2> QED BY <1>2, <1>3, <1>6, <2>1, <2>2
<1>9. NetOf(p)' /\ CausalOf(p)'
  <2>1. \A n \in 1..Len(prog) : \A w \in Parts(prog[n]) :
          /\ Sent(p, n, w)' <=> Sent(p, n, w)
          /\ Got(p, n, w)' <=> Got(p, n, w)
    BY <1>2, <1>7, <1>8
  <2>2. \A n \in 1..Len(prog) : prog[n].op = "write" =>
          /\ Posted(p, n)' <=> Posted(p, n)
          /\ Collected(p, n)' <=> (Collected(p, n) \/ n = n0)
    BY <1>2, <1>3, <1>5, <1>7
  <2>3. NetOf(p) /\ CausalOf(p) /\ net'[Monitor][p] = net[Monitor][p]
    BY <1>2, <1>3, <1>4 DEF NetInv
  <2> QED BY <1>1, <1>2, <1>4, <2>1, <2>2, <2>3, DataCollected
<1>10. ASSUME NEW q \in Worker, q # p
       PROVE  NetOf(q)' /\ CausalOf(q)'
  <2>1. net'[Monitor][q] = net[Monitor][q] /\ net'[q][Monitor] = net[q][Monitor]
    BY <1>3, <1>4, <1>10
  <2>2. \A n : Collected(q, n)' <=> Collected(q, n)
    BY <1>3, <1>5, <1>10
  <2>3. NetOf(q) /\ CausalOf(q)
    BY DEF NetInv
  <2> QED BY <1>1, <1>2, <1>7, <1>8, <2>1, <2>2, <2>3, NothingMoves
<1> QED BY <1>9, <1>10 DEF NetInv

\* A processor that makes a call has neither sent nor received anything of it.
LEMMA IntoCallNet ==
  ASSUME SInv, NetInv, NEW p \in Proc, NEW c \in Calls, Makes(p, c), UNCHANGED <<call, net>>,
         NEW where, Goes(p, where),
         p # Monitor => UNCHANGED loopP /\ where \in {"resp", "go"},
         p = Monitor => where = "loop" /\ loopP' = 0
  PROVE  NetInv'
<1>1. /\ Len(prog') \in Nat /\ Len(prog) <= Len(prog') /\ pc[p] = "model"
      /\ \A n \in 1..Len(prog) : prog'[n] = prog[n]
  BY MakesFacts DEF SInv, PlacesInv
<1>2. DOMAIN pc = Proc
  BY DEF SInv, TypeOK
<1>3. pc'[p] = where /\ \A q \in Proc : q # p => pc'[q] = pc[q]
  BY <1>2 DEF Goes
<1> SUFFICES ASSUME NEW q \in Worker
             PROVE  NetOf(q)' /\ CausalOf(q)'
  BY DEF NetInv
<1>4. q \in Proc /\ Monitor \in Proc /\ q # Monitor /\ q \in Nat /\ q > 0
  BY Numbers
<1>5. \A n \in 1..Len(prog') : \A part \in Parts(prog'[n]) : part \in {"resp", "data", "go"}
  BY PartsFacts
<1>6. \A n, part : part \in {"resp", "data", "go"} => (Got(q, n, part)' <=> Got(q, n, part))
  BY <1>1, <1>3, <1>4, PartsFacts DEF Got
<1>7. \A n : Posted(q, n)' <=> Posted(q, n)
  BY <1>1, <1>3, <1>4 DEF Posted
<1>8. \A n, part : /\ Sent(q, n, part)' <=> Sent(q, n, part)
                   /\ Collected(q, n)' <=> Collected(q, n)
  <2>1. CASE p = Monitor
    BY <1>1, <1>3, <1>4, <2>1 DEF Sent, Collected
  <2>2. CASE p # Monitor
    BY <1>3, <1>4, <2>2, MonitorStays
  <2> QED BY <2>1, <2>2
<1>9. NetOf(q) /\ CausalOf(q)
  BY DEF NetInv
<1> QED BY <1>1, <1>5, <1>6, <1>7, <1>8, <1>9, NothingMoves

\* A call without messages passes nothing either.
LEMMA PassCallNet ==
  ASSUME SInv, NetInv, NEW p \in Proc, NEW c \in Calls, c.op \in {"header", "flush"},
         Makes(p, c), Returns(p), UNCHANGED <<net, loopP>>
  PROVE  NetInv'
<1>1. /\ Len(prog') \in Nat /\ Len(prog) <= Len(prog') /\ pc[p] = "model"
      /\ (\A n \in 1..Len(prog) : prog'[n] = prog[n]) /\ prog'[call[p]] = c
  BY MakesFacts DEF SInv, PlacesInv
<1>2. DOMAIN pc = Proc /\ DOMAIN call = Proc
  BY DEF SInv, TypeOK
<1>3. pc' = pc /\ call'[p] = call[p] + 1 /\ call[p] \in Nat
      /\ \A q \in Proc : q # p => call'[q] = call[q]
  <2>1. pc' = pc
    BY <1>1, <1>2 DEF Returns, Goes, SInv, TypeOK
  <2> QED BY <1>2, <2>1, CallTypes DEF Returns
<1> SUFFICES ASSUME NEW q \in Worker
             PROVE  NetOf(q)' /\ CausalOf(q)'
  BY DEF NetInv
<1>4. q \in Proc /\ Monitor \in Proc /\ q # Monitor
  BY Numbers
<1>5. \A n \in 1..Len(prog') : n \in Nat /\ (n = call[p] => Parts(prog'[n]) = {} /\ prog'[n].op # "write")
  BY <1>1 DEF Parts
<1>6. \A n \in Nat : n # call[p] => (n < call[p] + 1 <=> n < call[p])
  BY <1>3
<1>7. ASSUME NEW n \in 1..Len(prog'), NEW part \in Parts(prog'[n])
      PROVE  (Sent(q, n, part)' <=> Sent(q, n, part)) /\ (Got(q, n, part)' <=> Got(q, n, part))
  <2>1. n \in Nat /\ n # call[p] /\ part \in {"resp", "data", "go"}
    BY <1>5, PartsFacts
  <2>2. "model" \notin After(part)
    BY <2>1, PartsFacts
  <2>3. Sent(q, n, part)' <=> Sent(q, n, part)
    BY <1>1, <1>3, <1>4, <1>6, <2>1 DEF Sent
  <2>4. Got(q, n, part)' <=> Got(q, n, part)
    BY <1>1, <1>3, <1>4, <1>6, <2>1, <2>2 DEF Got
  <2> QED BY <2>3, <2>4
<1>8. ASSUME NEW n \in 1..Len(prog'), prog'[n].op = "write"
      PROVE  (Posted(q, n)' <=> Posted(q, n)) /\ (Collected(q, n)' <=> Collected(q, n))
  <2>1. n \in Nat /\ n # call[p]
    BY <1>5, <1>8
  <2>2. Posted(q, n)' <=> Posted(q, n)
    BY <1>1, <1>3, <1>4, <1>6, <2>1 DEF Posted
  <2>3. Collected(q, n)' <=> Collected(q, n)
    BY <1>1, <1>3, <1>4, <1>6, <2>1 DEF Collected
  <2> QED BY <2>2, <2>3
<1>9. NetOf(q) /\ CausalOf(q) /\ net'[Monitor][q] = net[Monitor][q] /\ net'[q][Monitor] = net[q][Monitor]
  BY DEF NetInv
<1> QED BY <1>1, <1>7, <1>8, <1>9, NothingMoves

\* The monitor's turn goes to the next processor, or its call returns.
LEMMA MonitorTurns ==
  ASSUME SInv, NetInv, OwnShare \/ OwnPart \/ FinishRead \/ FinishWrite
                       \/ (SendReturns(Monitor) /\ pc[Monitor] # "sending")
  PROVE  NetInv'
<1>0. PICK n0, p, k0 : n0 = call[Monitor] /\ p = loopP /\ k0 = pc[Monitor]
  OBVIOUS
<1>1. /\ DOMAIN pc = Proc /\ DOMAIN call = Proc /\ Monitor \in Proc /\ Monitor = 0
      /\ Len(prog) \in Nat /\ n0 \in Nat /\ p \in Nat /\ NProc \in Nat
  BY <1>0, Numbers, CallTypes DEF SInv, TypeOK
<1>2. UNCHANGED <<prog, net>>
  BY DEF OwnShare, OwnPart, FinishRead, FinishWrite, SendReturns
<1>3. \/ k0 = "loop" /\ p = 0 /\ loopP' = 1 /\ pc' = pc /\ call' = call
      \/ k0 = "loop" /\ p = NProc /\ loopP' = p /\ pc' = [pc EXCEPT ![Monitor] = "model"]
         /\ call' = [call EXCEPT ![Monitor] = n0 + 1]
      \/ k0 = "going" /\ pc' = [pc EXCEPT ![Monitor] = "collect"] /\ call' = call /\ loopP' = p
      \/ k0 = "answering" /\ pc' = [pc EXCEPT ![Monitor] = "answered"] /\ call' = call /\ loopP' = p
      \/ k0 = "shipping" /\ pc' = [pc EXCEPT ![Monitor] = "loop"] /\ call' = call
         /\ loopP' = p + 1
  <2>1. CASE OwnShare \/ OwnPart
    BY <1>0, <1>1, <2>1 DEF OwnShare, OwnPart, InLoop, NextP
  <2>2. CASE FinishRead \/ FinishWrite
    BY <1>0, <1>1, <2>2 DEF FinishRead, FinishWrite, Returns, Goes
  <2>3. CASE SendReturns(Monitor) /\ pc[Monitor] # "sending"
    BY <1>0, <1>1, <2>3 DEF SendReturns, Goes, NextP
  <2> QED BY <2>1, <2>2, <2>3
<1>4. \A q \in Worker : q \in Proc /\ q # Monitor /\ q \in Nat /\ q > 0 /\ q < NProc
  BY Numbers
<1>5. \A q \in Worker : call'[q] = call[q] /\ pc'[q] = pc[q]
  BY <1>1, <1>3, <1>4
<1>6. k0 = "shipping" => prog[n0].op = "read"
  BY <1>0 DEF SInv, PlacesInv, Now
<1>7. ASSUME NEW q \in Worker, NEW n \in 1..Len(prog), NEW part \in Parts(prog[n])
      PROVE  Sent(q, n, part)' <=> Sent(q, n, part)
  <2>1. part \in {"resp", "data", "go"} /\ n \in Nat
    BY <1>1, PartsFacts
  <2>2. k0 = "shipping" /\ n = n0 => part \in {"resp", "data"}
    BY <1>6 DEF Parts
  <2>3. Sent(q, n, part) <=>
          \/ n < n0
          \/ n = n0 /\ k0 # "model" /\ (p > q \/ (p = q /\ k0 \in Since(part)))
    <3>1. Sent(q, n, part) <=>
            \/ n < call[Monitor]
            \/ /\ n = call[Monitor] /\ pc[Monitor] # "model"
               /\ loopP > q \/ (loopP = q /\ pc[Monitor] \in Since(part))
      BY DEF Sent
    <3> QED BY <1>0, <3>1
  <2>4. Sent(q, n, part)' <=>
          \/ n < call'[Monitor]
          \/ /\ n = call'[Monitor] /\ pc'[Monitor] # "model"
             /\ loopP' > q \/ (loopP' = q /\ pc'[Monitor] \in Since(part))
    BY DEF Sent
  <2>5. CASE k0 = "loop" /\ p = 0 /\ loopP' = 1 /\ pc' = pc /\ call' = call
    BY <1>0, <1>1, <1>4, <2>1, <2>3, <2>4, <2>5, PartsFacts
  <2>6. CASE k0 = "loop" /\ p = NProc /\ pc'[Monitor] = "model" /\ call'[Monitor] = n0 + 1
    BY <1>1, <1>4, <2>1, <2>3, <2>4, <2>6
  <2>7. CASE k0 \in {"going", "answering"} /\ call' = call /\ loopP' = p
             /\ pc'[Monitor] = IF k0 = "going" THEN "collect" ELSE "answered"
    BY <1>0, <1>1, <1>4, <2>1, <2>3, <2>4, <2>7, PartsFacts
  <2>8. CASE k0 = "shipping" /\ call' = call /\ loopP' = p + 1 /\ pc'[Monitor] = "loop"
    <3>1. "loop" \notin Since(part) /\ (n = n0 => k0 \in Since(part))
      BY <2>1, <2>2, <2>8, PartsFacts
    <3>2. Sent(q, n, part) <=> n < n0 \/ (n = n0 /\ (p > q \/ p = q))
      BY <2>3, <2>8, <3>1
    <3>3. Sent(q, n, part)' <=> n < n0 \/ (n = n0 /\ p + 1 > q)
      BY <1>0, <2>4, <2>8, <3>1
    <3>4. p + 1 > q <=> p > q \/ p = q
      BY <1>1, <1>4
    <3> QED BY <3>2, <3>3, <3>4
  <2> QED BY <1>1, <1>3, <2>5, <2>6, <2>7, <2>8
<1>8. ASSUME NEW q \in Worker, NEW n \in 1..Len(prog), prog[n].op = "write"
      PROVE  Collected(q, n)' <=> Collected(q, n)
  <2>1. Collected(q, n) <=> n < n0 \/ (n = n0 /\ k0 # "model" /\ p > q)
    BY <1>0 DEF Collected
  <2>2. Collected(q, n)' <=> \/ n < call'[Monitor]
                             \/ n = call'[Monitor] /\ pc'[Monitor] # "model" /\ loopP' > q
    BY DEF Collected
  <2>3. k0 = "shipping" => n # n0
    BY <1>6, <1>8
  <2>4. n \in Nat /\ call[Monitor] = n0 /\ pc[Monitor] = k0
    BY <1>0, <1>1
  <2>5. /\ pc'[Monitor] \in {"loop", "model", "collect", "answered"}
        /\ pc'[Monitor] = "model" <=> call'[Monitor] = n0 + 1
        /\ pc'[Monitor] # "model" <=> call'[Monitor] = n0
        /\ k0 # "model"
    BY <1>1, <1>3, <2>4
  <2>6. loopP' > q <=> p > q \/ (k0 = "shipping" /\ p = q)
    BY <1>1, <1>3, <1>4
  <2>7. pc'[Monitor] = "model" => p > q
    BY <1>1, <1>3, <1>4, <2>4
  <2> QED BY <1>1, <2>1, <2>2, <2>3, <2>4, <2>5, <2>6, <2>7
<1> QED BY <1>2, <1>5, <1>7, <1>8, MonitorKeeps

LEMMA NetInit == Init => NetInv
<1> SUFFICES ASSUME Init, NEW q \in Worker
             PROVE  NetOf(q) /\ CausalOf(q)
  BY DEF NetInv
<1>1. /\ Len(prog) = 0 /\ q \in Proc /\ Monitor \in Proc
      /\ net[Monitor][q] = <<>> /\ net[q][Monitor] = <<>>
  BY Numbers DEF Init
<1>2. Due(q) = {} /\ Owed(q) = {} /\ Keys(<<>>) = {}
  BY <1>1 DEF Due, Owed, Keys
<1>3. InOrder(<<>>)
  BY DEF InOrder
<1> QED BY <1>1, <1>2, <1>3 DEF NetOf, CausalOf

LEMMA NetNext ==
  ASSUME SInv, NetInv, [Next]_vars
  PROVE  NetInv'
<1>1. ASSUME NEW p \in Proc, CallRead(p) \/ CallWrite(p)
      PROVE  NetInv'
  <2>1. PICK c \in Calls, where \in {"resp", "go", "loop"} :
          /\ Makes(p, c) /\ UNCHANGED <<call, net>> /\ Goes(p, where)
          /\ p # Monitor => UNCHANGED loopP /\ where \in {"resp", "go"}
          /\ p = Monitor => where = "loop" /\ loopP' = 0
    BY <1>1 DEF CallRead, CallWrite
  <2> QED BY <2>1, IntoCallNet
<1>2. ASSUME NEW p \in Proc, WriteHeader(p) \/ Flush(p)
      PROVE  NetInv'
  <2>1. PICK c \in Calls :
          c.op \in {"header", "flush"} /\ Makes(p, c) /\ Returns(p) /\ UNCHANGED <<net, loopP>>
    BY <1>2 DEF WriteHeader, Flush
  <2> QED BY <2>1, PassCallNet
<1>3. ASSUME NEW p \in Worker, WorkerStep(p)
      PROVE  NetInv'
  BY <1>3, ReceiveNet, SendNet DEF WorkerStep
<1>4. CASE MonitorStep
  BY <1>4, MonitorTurns, MonitorSends, CollectNet DEF MonitorStep
<1>5. ASSUME NEW p \in Proc, SendReturns(p)
      PROVE  NetInv'
  <2>1. CASE p = Monitor
    <3>1. pc[Monitor] # "sending"
      BY DEF SInv, PlacesInv
    <3> QED BY <1>5, <2>1, <3>1, MonitorTurns
  <2>2. CASE p \in Worker
    <3>1. /\ pc[p] = "sending" /\ pc' = [pc EXCEPT ![p] = "model"]
          /\ call' = [call EXCEPT ![p] = call[p] + 1] /\ UNCHANGED <<prog, net, loopP>>
          /\ DOMAIN pc = Proc /\ DOMAIN call = Proc
      BY <1>5, <2>2 DEF SendReturns, Returns, Goes, SInv, TypeOK
    <3>2. /\ pc'[p] = "model" /\ call'[p] = call[p] + 1 /\ p # Monitor
          /\ \A q \in Proc : q # p => call'[q] = call[q] /\ pc'[q] = pc[q]
          /\ Monitor \in Proc
      BY <2>2, <3>1, Numbers
    <3>3. Len(prog) \in Nat /\ call[p] \in Nat
      BY CallTypes
    <3>4. prog[call[p]].op = "write"
      BY <2>2, <3>1 DEF SInv, PlacesInv, Now
    <3>5. /\ \A n, w : Sent(p, n, w)' <=> Sent(p, n, w)
          /\ \A n, w : Collected(p, n)' <=> Collected(p, n)
      BY <3>1, <3>2, MonitorStays
    <3>6. ASSUME NEW n \in 1..Len(prog), NEW w \in Parts(prog[n])
          PROVE  Got(p, n, w)' <=> Got(p, n, w)
      <4>1. n = call[p] => w = "go"
        BY <3>4 DEF Parts
      <4>2. w \in {"resp", "data", "go"} /\ n \in Nat
        BY PartsFacts
      <4> QED BY <3>1, <3>2, <3>3, <4>1, <4>2, PartsFacts DEF Got
    <3>7. \A n \in 1..Len(prog) : Posted(p, n)' <=> Posted(p, n)
      BY <3>1, <3>2, <3>3 DEF Posted
    <3>8. NetOf(p) /\ CausalOf(p)
      BY <2>2 DEF NetInv
    <3>9. NetOf(p)' /\ CausalOf(p)'
      BY <2>2, <3>1, <3>3, <3>5, <3>6, <3>7, <3>8, NothingMoves
    <3>10. \A q \in Worker : q # p => NetOf(q)' /\ CausalOf(q)'
      BY <2>2, <3>1, <3>2, OtherWorkersKeep
    <3> QED BY <3>9, <3>10 DEF NetInv
  <2> QED BY <2>1, <2>2, Numbers
<1>6. CASE UNCHANGED vars
  BY <1>6 DEF vars, NetInv, NetOf, CausalOf, Due, Owed, Sent, Got, Posted, Collected
<1> QED BY <1>1, <1>2, <1>3, <1>4, <1>5, <1>6 DEF Next, CallAny, Finished

-------------------------------------------------------------------------------
(* The order of elements in a message *)

\* A sequence of all the places of a set.
Lists(order, cells) ==
  /\ Cardinality(cells) \in Nat /\ order \in [1..Cardinality(cells) -> cells]
  /\ \A cell \in cells : \E n \in DOMAIN order : order[n] = cell

\* Listing a finite set by the number of smaller elements lists all of it, and
\* nothing else, when the order is total.
LEMMA Listed ==
  ASSUME NEW S, IsFiniteSet(S), NEW below, \A x \in S : below[x] \in SUBSET S,
         \A x \in S : x \notin below[x],
         \A x, y, z \in S : x \in below[y] /\ y \in below[z] => x \in below[z],
         \A x, y \in S : x # y => x \in below[y] \/ y \in below[x],
         NEW list, list = [n \in 1..Cardinality(S) |-> list[n]],
         \A n \in 1..Cardinality(S) :
           (\E x \in S : Cardinality(below[x]) = n - 1)
             => list[n] \in S /\ Cardinality(below[list[n]]) = n - 1
  PROVE  Lists(list, S)
<1> DEFINE N == Cardinality(S)
           rank == [x \in S |-> Cardinality(below[x])]
<1>1. N \in Nat
  BY FS_CardinalityType
<1>2. ASSUME NEW x \in S
      PROVE  IsFiniteSet(below[x]) /\ rank[x] \in Nat /\ rank[x] < N
  <2>1. below[x] \in SUBSET S /\ below[x] # S
    OBVIOUS
  <2>2. IsFiniteSet(below[x]) /\ Cardinality(below[x]) <= N /\ Cardinality(below[x]) # N
    BY <2>1, FS_Subset
  <2>3. Cardinality(below[x]) \in Nat
    BY <2>2, FS_CardinalityType
  <2> QED BY <1>1, <2>2, <2>3
<1>3. ASSUME NEW x \in S, NEW y \in S, x \in below[y]
      PROVE  rank[x] < rank[y]
  <2>1. below[x] \in SUBSET below[y] /\ below[x] # below[y]
    BY <1>3
  <2>2. IsFiniteSet(below[y]) /\ rank[x] \in Nat /\ rank[y] \in Nat
    BY <1>2
  <2>3. rank[x] = Cardinality(below[x]) /\ rank[y] = Cardinality(below[y])
    OBVIOUS
  <2> HIDE DEF rank
  <2>4. Cardinality(below[x]) <= Cardinality(below[y]) /\ Cardinality(below[x]) # Cardinality(below[y])
    BY <2>1, <2>2, FS_Subset
  <2> QED BY <2>2, <2>3, <2>4
<1>4. \A x \in S : Cardinality(below[x]) = rank[x]
  OBVIOUS
<1>5. DOMAIN rank = S
  OBVIOUS
<1> HIDE DEF rank
<1>6. ASSUME NEW x \in S, NEW y \in S, rank[x] = rank[y]
      PROVE  x = y
  <2>1. rank[x] \in Nat /\ rank[y] \in Nat
    BY <1>2
  <2>2. x \notin below[y] /\ y \notin below[x]
    BY <1>3, <1>6, <2>1
  <2> QED BY <2>2
<1>7. \A n \in 1..N : \E x \in S : rank[x] = n - 1
  <2> DEFINE T == 0..(N - 1)
  <2>1. rank = [x \in S |-> rank[x]] /\ \A x \in S : rank[x] \in T
    BY <1>1, <1>2, <1>5 DEF rank
  <2>2. rank \in [S -> T]
    BY <2>1
  <2>3. rank \in Injection(S, T)
    BY <1>6, <2>2 DEF Injection, IsInjective
  <2>4. IsFiniteSet(T) /\ Cardinality(T) = N
    <3>1. \A k \in Nat : IsFiniteSet(0..(k - 1)) /\ Cardinality(0..(k - 1)) = k
      <4> TAKE k \in Nat
      <4>1. 0 \in Int /\ k - 1 \in Int
        OBVIOUS
      <4>2. IsFiniteSet(0..(k - 1)) /\ Cardinality(0..(k - 1)) = IF 0 > k - 1 THEN 0 ELSE (k - 1) - 0 + 1
        BY <4>1, FS_Interval
      <4> QED BY <4>2
    <3> QED BY <1>1, <3>1
  <2>5. rank \in Surjection(S, T)
    BY <2>3, <2>4, FS_Injection
  <2>6. \A t \in T : \E x \in S : rank[x] = t
    BY <2>5 DEF Surjection
  <2>7. \A n \in 1..N : n - 1 \in T
    BY <1>1
  <2> QED BY <2>6, <2>7
<1>8. ASSUME NEW n \in 1..N
      PROVE  list[n] \in S /\ rank[list[n]] = n - 1
  BY <1>4, <1>7
<1>9. ASSUME NEW x \in S
      PROVE  \E n \in 1..N : list[n] = x
  <2>1. rank[x] + 1 \in 1..N /\ (rank[x] + 1) - 1 = rank[x]
    BY <1>1, <1>2
  <2>2. rank[list[rank[x] + 1]] = rank[x] /\ list[rank[x] + 1] \in S
    BY <1>8, <2>1
  <2>3. list[rank[x] + 1] = x
    BY <1>6, <2>2
  <2> QED BY <2>1, <2>3
<1>10. list \in [1..N -> S]
  BY <1>8
<1>11. DOMAIN list = 1..N
  OBVIOUS
<1> QED BY <1>1, <1>9, <1>10, <1>11 DEF Lists

Places == {<<a, b, c>> : a \in Int, b \in Int, c \in Int}

LEMMA OrderedLists ==
  ASSUME NEW cells \in SUBSET Places, IsFiniteSet(cells)
  PROVE  /\ Lists(Ordered(cells, PointMajor), cells)
         /\ Lists(Ordered(cells, LevelMajor), cells)
<1>0. \A x \in cells : /\ x[1] \in Int /\ x[2] \in Int /\ x[3] \in Int
                       /\ x = <<x[1], x[2], x[3]>>
  BY DEF Places
<1>1. \A x, y \in cells : x # y => x[1] # y[1] \/ x[2] # y[2] \/ x[3] # y[3]
  BY <1>0
<1>2. Lists(Ordered(cells, PointMajor), cells)
  <2>1. PICK below : below = [x \in cells |-> {y \in cells : Before(y, x)}]
    OBVIOUS
  <2>2. \A x, y \in cells : y \in below[x] <=> Before(y, x)
    BY <2>1
  <2>3. \A x \in cells : below[x] \in SUBSET cells
    BY <2>1
  <2>4. \A x \in cells : x \notin below[x]
    BY <1>0, <2>2 DEF Before
  <2>5. \A x, y, z \in cells : x \in below[y] /\ y \in below[z] => x \in below[z]
    BY <1>0, <2>2 DEF Before
  <2>6. \A x, y \in cells : x # y => x \in below[y] \/ y \in below[x]
    BY <1>0, <1>1, <2>2 DEF Before
  <2>7. PICK list : list = Ordered(cells, PointMajor)
    OBVIOUS
  <2>8. list = [n \in 1..Cardinality(cells) |-> list[n]]
    <3> DEFINE Nth(n) == CHOOSE x \in cells : Cardinality({y \in cells : Before(PointMajor(y), PointMajor(x))}) = n - 1
    <3>1. list = [n \in 1..Cardinality(cells) |-> Nth(n)]
      BY <2>7 DEF Ordered
    <3> HIDE DEF Nth
    <3> QED BY <3>1
  <2>9. \A n \in 1..Cardinality(cells) :
          list[n] = CHOOSE x \in cells : Cardinality({y \in cells : Before(y, x)}) = n - 1
    BY <2>7 DEF Ordered, PointMajor
  <2>10. \A x \in cells : below[x] = {y \in cells : Before(y, x)}
    BY <2>1
  <2>11. ASSUME NEW n \in 1..Cardinality(cells), NEW x \in cells, Cardinality(below[x]) = n - 1
         PROVE  list[n] \in cells /\ Cardinality(below[list[n]]) = n - 1
    BY <2>9, <2>10, <2>11
  <2>12. Lists(list, cells)
    BY <2>3, <2>4, <2>5, <2>6, <2>8, <2>11, Listed
  <2> QED BY <2>7, <2>12
<1>3. Lists(Ordered(cells, LevelMajor), cells)
  <2>1. PICK below : below = [x \in cells |-> {y \in cells : Before(LevelMajor(y), LevelMajor(x))}]
    OBVIOUS
  <2>2. \A x, y \in cells : y \in below[x] <=> Before(LevelMajor(y), LevelMajor(x))
    BY <2>1
  <2>3. \A x \in cells : below[x] \in SUBSET cells
    BY <2>1
  <2>4. \A x \in cells : x \notin below[x]
    BY <1>0, <2>2 DEF Before, LevelMajor
  <2>5. \A x, y, z \in cells : x \in below[y] /\ y \in below[z] => x \in below[z]
    BY <1>0, <2>2 DEF Before, LevelMajor
  <2>6. \A x, y \in cells : x # y => x \in below[y] \/ y \in below[x]
    BY <1>0, <1>1, <2>2 DEF Before, LevelMajor
  <2>7. PICK list : list = Ordered(cells, LevelMajor)
    OBVIOUS
  <2>8. list = [n \in 1..Cardinality(cells) |-> list[n]]
    <3> DEFINE Nth(n) == CHOOSE x \in cells : Cardinality({y \in cells : Before(LevelMajor(y), LevelMajor(x))}) = n - 1
    <3>1. list = [n \in 1..Cardinality(cells) |-> Nth(n)]
      BY <2>7 DEF Ordered
    <3> HIDE DEF Nth
    <3> QED BY <3>1
  <2>9. \A n \in 1..Cardinality(cells) :
          list[n] = CHOOSE x \in cells : Cardinality({y \in cells : Before(LevelMajor(y), LevelMajor(x))}) = n - 1
    BY <2>7 DEF Ordered
  <2>10. \A x \in cells : below[x] = {y \in cells : Before(LevelMajor(y), LevelMajor(x))}
    BY <2>1
  <2>11. ASSUME NEW n \in 1..Cardinality(cells), NEW x \in cells, Cardinality(below[x]) = n - 1
         PROVE  list[n] \in cells /\ Cardinality(below[list[n]]) = n - 1
    BY <2>9, <2>10, <2>11
  <2>12. Lists(list, cells)
    BY <2>3, <2>4, <2>5, <2>6, <2>8, <2>11, Listed
  <2> QED BY <2>7, <2>12
<1> QED BY <1>2, <1>3

LEMMA CellsFacts ==
  ASSUME setup \in Setups, NEW c \in Calls, c.op \in {"read", "write"}
  PROVE  /\ Cells(c) \subseteq Padded(c) /\ Padded(c) \subseteq AllCells
         /\ Padded(c) \in SUBSET Places /\ IsFiniteSet(Padded(c))
         /\ \A cell \in Padded(c) : Owner[<<cell[1], cell[2]>>] \in Proc
<1>1. c.m \in 1..Rows /\ c.n \in 1..Cols /\ c.k \in Nat \ {0} /\ Rows \in Nat /\ Cols \in Nat
  BY SetupFacts, IoAssumption
<1>2. (0..c.n - 1) \subseteq 0..Cols - 1 /\ (0..c.m - 1) \subseteq 0..Rows - 1
  BY <1>1
<1>3. (0..c.n - 1) \X (0..c.m - 1) \subseteq Point
  BY <1>2 DEF Point
<1>4. Cells(c) \subseteq Padded(c)
  BY <1>3 DEF Cells, Padded
<1>5. Padded(c) \subseteq AllCells
  BY DEF AllCells
<1>6. \A cell \in Padded(c) : \E pt \in Point, k \in 0..c.k - 1 : cell = <<pt[1], pt[2], k>>
  BY DEF Padded
<1>7. \A pt \in Point : pt[1] \in Int /\ pt[2] \in Int /\ pt = <<pt[1], pt[2]>>
  BY <1>1 DEF Point
<1>8. Padded(c) \in SUBSET Places
  <2> SUFFICES ASSUME NEW cell \in Padded(c)
               PROVE  cell \in Places
    OBVIOUS
  <2>1. PICK pt \in Point, k \in 0..c.k - 1 : cell = <<pt[1], pt[2], k>>
    BY <1>6
  <2>2. k \in Int /\ pt[1] \in Int /\ pt[2] \in Int
    BY <1>1, <1>7
  <2> QED BY <2>1, <2>2 DEF Places
<1>9. \A cell \in Padded(c) : Owner[<<cell[1], cell[2]>>] \in Proc
  <2> SUFFICES ASSUME NEW cell \in Padded(c)
               PROVE  Owner[<<cell[1], cell[2]>>] \in Proc
    OBVIOUS
  <2>1. PICK pt \in Point, k \in 0..c.k - 1 : cell = <<pt[1], pt[2], k>>
    BY <1>6
  <2>2. <<cell[1], cell[2]>> \in Point
    BY <1>7, <2>1
  <2> QED BY <2>2, SetupFacts
<1>10. IsFiniteSet(Padded(c))
  <2> DEFINE K == 0..c.k - 1
             D == Point \X K
             f == [z \in D |-> <<z[1][1], z[1][2], z[2]>>]
  <2>1. IsFiniteSet(Point)
    <3>1. 0 \in Int /\ Cols - 1 \in Int /\ Rows - 1 \in Int
      BY <1>1
    <3>2. IsFiniteSet(0..Cols - 1) /\ IsFiniteSet(0..Rows - 1)
      BY <3>1, FS_Interval
    <3> QED BY <3>2, FS_Product DEF Point
  <2>2. IsFiniteSet(K)
    BY <1>1, FS_Interval
  <2> HIDE DEF K
  <2>3. IsFiniteSet(D)
    BY <2>1, <2>2, FS_Product
  <2>4. \A z \in D : z[1] \in Point /\ z[2] \in K
    OBVIOUS
  <2>5. \A pt \in Point, k \in K : <<pt, k>> \in D /\ f[<<pt, k>>] = <<pt[1], pt[2], k>>
    OBVIOUS
  <2>6. Padded(c) = {<<pt[1], pt[2], k>> : pt \in Point, k \in K}
    BY DEF Padded, K
  <2>7. f \in [D -> Padded(c)]
    BY <2>4, <2>6
  <2>8. ASSUME NEW cell \in Padded(c)
        PROVE  \E z \in D : f[z] = cell
    <3>1. PICK pt \in Point, k \in K : cell = <<pt[1], pt[2], k>>
      BY <2>6
    <3>2. <<pt, k>> \in D /\ f[<<pt, k>>] = cell
      BY <2>5, <3>1
    <3> HIDE DEF f, D
    <3> QED BY <3>2
  <2> HIDE DEF f, D
  <2>9. f \in Surjection(D, Padded(c))
    BY <2>7, <2>8 DEF Surjection
  <2> QED BY <2>3, <2>9, FS_Surjection
<1> QED BY <1>4, <1>5, <1>8, <1>9, <1>10

LEMMA OrdersList ==
  ASSUME setup \in Setups, NEW c \in Calls, c.op \in {"read", "write"}, NEW p
  PROVE  /\ Lists(PackOrder(c, p), Own(p, Cells(c)))
         /\ Lists(UnpackOrder(c, p), Own(p, Cells(c)))
         /\ Lists(ShareOrder(c, p), Own(p, Padded(c)))
<1>1. Cells(c) \subseteq Padded(c) /\ Padded(c) \in SUBSET Places /\ IsFiniteSet(Padded(c))
  BY CellsFacts
<1>2. Own(p, Cells(c)) \in SUBSET Padded(c) /\ Own(p, Padded(c)) \in SUBSET Padded(c)
  BY <1>1 DEF Own
<1>3. IsFiniteSet(Own(p, Cells(c))) /\ IsFiniteSet(Own(p, Padded(c)))
  BY <1>1, <1>2, FS_Subset
<1>4. /\ Lists(Ordered(Own(p, Cells(c)), PointMajor), Own(p, Cells(c)))
      /\ Lists(Ordered(Own(p, Cells(c)), LevelMajor), Own(p, Cells(c)))
      /\ Lists(Ordered(Own(p, Padded(c)), PointMajor), Own(p, Padded(c)))
  BY <1>1, <1>2, <1>3, OrderedLists
<1> QED BY <1>4 DEF PackOrder, UnpackOrder, ShareOrder, RegularPack, RegularUnpack

\* What a place holds when a message has been unpacked.
LEMMA UnpackedFacts ==
  ASSUME NEW order, NEW cells, Lists(order, cells), NEW memory, NEW elems,
         NEW cell \in DOMAIN memory
  PROVE  /\ cell \in cells => \E x \in DOMAIN order :
              order[x] = cell /\ Unpacked(memory, order, elems)[cell] = elems[x]
         /\ cell \notin cells => Unpacked(memory, order, elems)[cell] = memory[cell]
<1>1. Unpacked(memory, order, elems)[cell] =
        IF \E x \in DOMAIN order : order[x] = cell
        THEN elems[CHOOSE x \in DOMAIN order : order[x] = cell] ELSE memory[cell]
  BY DEF Unpacked
<1>2. CASE cell \in cells
  <2>1. \E x \in DOMAIN order : order[x] = cell
    BY <1>2 DEF Lists
  <2>2. PICK x : x = CHOOSE y \in DOMAIN order : order[y] = cell
    OBVIOUS
  <2>3. x \in DOMAIN order /\ order[x] = cell
    BY <2>1, <2>2
  <2> QED BY <1>1, <1>2, <2>1, <2>2, <2>3
<1>3. CASE cell \notin cells
  BY <1>1, <1>3 DEF Lists
<1> QED BY <1>2, <1>3

-------------------------------------------------------------------------------
(* What the messages and buffers hold *)

\* The steps of one processor.
WorkerSteps(p) == CallAny(p) \/ SendReturns(p) \/ WorkerStep(p)
MonitorSteps   == CallAny(Monitor) \/ SendReturns(Monitor) \/ MonitorStep

LEMMA StepCases ==
  ASSUME [Next]_vars
  PROVE  UNCHANGED vars \/ MonitorSteps \/ \E p \in Worker : WorkerSteps(p)
BY DEF Next, Finished, MonitorSteps, WorkerSteps, Worker

\* The program only grows, and none of it changes.
LEMMA ProgramKept ==
  ASSUME SInv, [Next]_vars
  PROVE  /\ setup' = setup /\ setup \in Setups /\ Calls' = Calls
         /\ Len(prog) \in Nat /\ Len(prog') \in Nat /\ Len(prog) <= Len(prog')
         /\ \A n \in 1..Len(prog) : prog'[n] = prog[n] /\ prog[n] \in Calls
<1>1. setup \in Setups /\ prog \in Seq(Calls) /\ Len(prog) \in Nat
  BY DEF SInv, TypeOK
<1>2. \A n \in 1..Len(prog) : prog[n] \in Calls
  BY <1>1
<1>3. CASE setup' = setup /\ prog' = prog
  BY <1>1, <1>2, <1>3 DEF Calls
<1>4. CASE \E p \in Proc, c \in Calls : Makes(p, c)
  <2>1. PICK p \in Proc, c \in Calls : Makes(p, c)
    BY <1>4
  <2>2. setup' = setup /\ Len(prog') \in Nat /\ (Len(prog') = Len(prog) \/ Len(prog') = Len(prog) + 1)
        /\ \A n \in 1..Len(prog) : prog'[n] = prog[n]
    BY <2>1, MakesFacts DEF SInv, PlacesInv
  <2> QED BY <1>1, <1>2, <2>2 DEF Calls
<1>5. (setup' = setup /\ prog' = prog) \/ \E p \in Proc, c \in Calls : Makes(p, c)
  BY DEF Next, CallAny, CallRead, CallWrite, WriteHeader, Flush, SendReturns, WorkerStep, RecvResp,
     RecvShare, RecvGo, SendPacked, MonitorStep, OwnShare, SendResp, SendShare, FinishRead, OwnPart,
     SendGo, Collect, FinishWrite, Finished, vars
<1> QED BY <1>3, <1>4, <1>5

\* So what a message about one of its calls holds does not change either.
LEMMA ContentKept ==
  ASSUME SInv, [Next]_vars, NEW n \in 1..Len(prog)
  PROVE  /\ ReadRecord(n)' = ReadRecord(n)
         /\ \A p : Share(p, n)' = Share(p, n) /\ Part(p, n)' = Part(p, n)
<1>1. prog'[n] = prog[n] /\ setup' = setup
  BY ProgramKept
<1> QED BY <1>1 DEF ReadRecord, Share, Part, Padded, PackOrder, ShareOrder, Own, Owner, Regular

\* A step of another processor leaves the monitor's state alone, and that of
\* the rest.
LEMMA WorkerFrame ==
  ASSUME SInv, NEW p \in Worker, WorkerSteps(p)
  PROVE  /\ UNCHANGED <<loopP, gbuf, file, wlist, user>>
         /\ \A q \in Proc : q # p => /\ pc'[q] = pc[q] /\ call'[q] = call[q]
                                     /\ pbuf'[q] = pbuf[q] /\ field'[q] = field[q]
<1>1. /\ p \in Proc /\ p # Monitor
      /\ DOMAIN pc = Proc /\ DOMAIN call = Proc /\ DOMAIN pbuf = Proc /\ DOMAIN field = Proc
      /\ pc[p] \notin {"going", "answering", "shipping"}
  BY Numbers DEF SInv, TypeOK, ShapesInv
<1>2. CASE CallRead(p) \/ CallWrite(p) \/ WriteHeader(p) \/ Flush(p)
  BY <1>1, <1>2 DEF CallRead, CallWrite, WriteHeader, Flush, Goes, Returns
<1>3. CASE SendReturns(p)
  BY <1>1, <1>3 DEF SendReturns, Goes, Returns
<1>4. CASE WorkerStep(p)
  BY <1>1, <1>4 DEF WorkerStep, RecvResp, RecvShare, RecvGo, SendPacked, Goes, Returns
<1> QED BY <1>2, <1>3, <1>4 DEF WorkerSteps, CallAny

LEMMA MonitorFrame ==
  ASSUME SInv, MonitorSteps
  PROVE  \A q \in Worker : /\ pc'[q] = pc[q] /\ call'[q] = call[q]
                           /\ pbuf'[q] = pbuf[q] /\ field'[q] = field[q]
<1>1. /\ Monitor \in Proc /\ \A q \in Worker : q \in Proc /\ q # Monitor
      /\ DOMAIN pc = Proc /\ DOMAIN call = Proc /\ DOMAIN pbuf = Proc /\ DOMAIN field = Proc
  BY Numbers DEF SInv, TypeOK, ShapesInv
<1>2. CASE CallRead(Monitor) \/ CallWrite(Monitor) \/ WriteHeader(Monitor) \/ Flush(Monitor)
  BY <1>1, <1>2 DEF CallRead, CallWrite, WriteHeader, Flush, Goes, Returns
<1>3. CASE SendReturns(Monitor)
  BY <1>1, <1>3 DEF SendReturns, Goes, Returns
<1>4. CASE MonitorStep
  BY <1>1, <1>4 DEF MonitorStep, OwnShare, SendResp, SendShare, FinishRead, OwnPart, SendGo,
     Collect, FinishWrite, Goes, Returns
<1> QED BY <1>2, <1>3, <1>4 DEF MonitorSteps, CallAny

\* A processor packs the elements of the call it makes.
LEMMA CallPacks ==
  ASSUME SInv, NEW p \in Proc, CallWrite(p), [Next]_vars
  PROVE  /\ pc[p] = "model" /\ call' = call /\ call[p] \in 1..Len(prog')
         /\ prog'[call[p]].op = "write" /\ prog'[call[p]] \in Calls
         /\ pbuf'[p] = Part(p, call[p])'
<1>1. PICK c \in Calls :
        /\ c.op = "write" /\ Makes(p, c) /\ call' = call
        /\ field' = [field EXCEPT ![p] =
               [cell \in DOMAIN @ |-> IF cell \in Cells(c) THEN Elem(cell, call[p]) ELSE @[cell]]]
        /\ pbuf' = [pbuf EXCEPT ![p] = Packed(field'[p], PackOrder(c, p))]
  BY DEF CallWrite
<1>2. prog'[call[p]] = c /\ call[p] \in 1..Len(prog') /\ pc[p] = "model" /\ setup' = setup
  BY <1>1, OthersStay, ProgramKept
<1>3. PICK order : order = PackOrder(c, p)
  OBVIOUS
<1>4. Lists(order, Own(p, Cells(c)))
  BY <1>1, <1>3, OrdersList, ProgramKept
<1>5. DOMAIN field = Proc /\ DOMAIN pbuf = Proc /\ DOMAIN field[p] = Own(p, AllCells)
  BY DEF SInv, TypeOK, ShapesInv
<1>6. \A cell \in Own(p, Cells(c)) : cell \in DOMAIN field[p] /\ cell \in Cells(c)
  BY <1>1, <1>5, CellsFacts, ProgramKept DEF Own
<1>7. \A cell \in Own(p, Cells(c)) : field'[p][cell] = Elem(cell, call[p])
  BY <1>1, <1>5, <1>6
<1>8. \A x \in DOMAIN order : field'[p][order[x]] = Elem(order[x], call[p])
  BY <1>4, <1>7 DEF Lists
<1>9. pbuf'[p] = [x \in DOMAIN order |-> Elem(order[x], call[p])]
  BY <1>1, <1>3, <1>5, <1>8 DEF Packed
<1>10. Part(p, call[p])' = [x \in DOMAIN order |-> Elem(order[x], call[p])]
  <2>1. PackOrder(c, p)' = PackOrder(c, p)
    BY <1>2 DEF PackOrder, Own, Owner, Regular
  <2> QED BY <1>1, <1>2, <1>3, <2>1 DEF Part
<1> QED BY <1>1, <1>2, <1>9, <1>10

LEMMA PackedNext ==
  ASSUME SInv, PackedInv, [Next]_vars
  PROVE  PackedInv'
<1> SUFFICES ASSUME NEW q \in Worker, pc'[q] \in {"go", "data"}
             PROVE  pbuf'[q] = Part(q, call[q])'
  BY DEF PackedInv
<1>0. q \in Proc /\ q # Monitor /\ DOMAIN pc = Proc /\ DOMAIN call = Proc
  BY Numbers DEF SInv, TypeOK
<1>1. ASSUME pc[q] \in {"go", "data"}, call'[q] = call[q], pbuf'[q] = pbuf[q]
      PROVE  pbuf'[q] = Part(q, call[q])'
  <2>1. PICK n : n = call[q]
    OBVIOUS
  <2>2. n \in 1..Len(prog) /\ pbuf[q] = Part(q, n)
    BY <1>0, <1>1, <2>1, CallTypes DEF PackedInv
  <2>3. Part(q, n)' = Part(q, n)
    BY <2>2, ContentKept
  <2>4. Part(q, call[q])' = Part(q, n)'
    BY <1>1, <2>1
  <2> QED BY <1>1, <2>2, <2>3, <2>4
<1>2. CASE UNCHANGED vars
  BY <1>1, <1>2 DEF vars
<1>3. CASE MonitorSteps
  BY <1>1, <1>3, MonitorFrame
<1>4. ASSUME NEW p \in Worker, WorkerSteps(p), p # q
      PROVE  pbuf'[q] = Part(q, call[q])'
  <2>1. pc'[q] = pc[q] /\ call'[q] = call[q] /\ pbuf'[q] = pbuf[q]
    BY <1>0, <1>4, WorkerFrame
  <2> QED BY <1>1, <2>1
<1>5. CASE WorkerSteps(q)
  <2>1. CASE CallWrite(q)
    <3>1. PICK n : n = call[q]
      OBVIOUS
    <3>2. pbuf'[q] = Part(q, n)' /\ call'[q] = n
      BY <1>0, <2>1, <3>1, CallPacks
    <3> QED BY <3>2
  <2>2. CASE CallRead(q) \/ WriteHeader(q) \/ Flush(q)
    BY <1>0, <2>2 DEF CallRead, WriteHeader, Flush, Makes, Goes, Returns
  <2>3. CASE SendReturns(q)
    BY <1>0, <2>3 DEF SendReturns, Goes, Returns
  <2>4. CASE RecvGo(q)
    <3>1. pc[q] = "go" /\ call' = call /\ pbuf' = pbuf
      BY <2>4 DEF RecvGo
    <3> QED BY <1>1, <3>1
  <2>5. CASE RecvResp(q) \/ RecvShare(q) \/ SendPacked(q)
    BY <1>0, <2>5 DEF RecvResp, RecvShare, SendPacked, Goes, Returns
  <2> QED BY <1>5, <2>1, <2>2, <2>3, <2>4, <2>5 DEF WorkerSteps, CallAny, WorkerStep
<1> QED BY <1>2, <1>3, <1>4, <1>5, StepCases

\* What the monitor does in the loop over P, as far as its buffers go.
LEMMA ServedNext ==
  ASSUME SInv, ServedInv, [Next]_vars
  PROVE  ServedInv'
<1> SUFFICES ASSUME pc'[Monitor] # "model", Now(Monitor)'.op = "read"
             PROVE  /\ gbuf' = ReadRecord(call[Monitor])'
                    /\ loopP' > Monitor => pbuf'[Monitor] = Share(Monitor, call[Monitor])'
  BY DEF ServedInv
<1>0. PICK n : n = call[Monitor]
  OBVIOUS
<1>1. /\ Monitor \in Proc /\ Monitor = 0 /\ DOMAIN pc = Proc /\ DOMAIN call = Proc
      /\ DOMAIN pbuf = Proc /\ loopP \in Nat
      /\ pc[Monitor] # "model" => n \in 1..Len(prog)
      /\ pc[Monitor] \in {"going", "collect"} => prog[n].op = "write"
  BY <1>0, Numbers, CallTypes DEF SInv, TypeOK, ShapesInv, PlacesInv, Now
<1>2. ASSUME pc[Monitor] # "model", call'[Monitor] = n
      PROVE  /\ Now(Monitor)' = prog[n] /\ prog[n].op = "read" /\ gbuf = ReadRecord(n)
             /\ loopP > Monitor => pbuf[Monitor] = Share(Monitor, n)
             /\ ReadRecord(call[Monitor])' = ReadRecord(n)
             /\ Share(Monitor, call[Monitor])' = Share(Monitor, n)
  <2>1. Now(Monitor)' = prog[n]
    BY <1>1, <1>2, ProgramKept DEF Now
  <2>2. gbuf = ReadRecord(n) /\ (loopP > Monitor => pbuf[Monitor] = Share(Monitor, n))
    BY <1>0, <1>2, <2>1 DEF ServedInv, Now
  <2>3. ReadRecord(n)' = ReadRecord(n) /\ Share(Monitor, n)' = Share(Monitor, n)
    BY <1>1, <1>2, ContentKept
  <2>4. ReadRecord(call[Monitor])' = ReadRecord(n)' /\ Share(Monitor, call[Monitor])' = Share(Monitor, n)'
    BY <1>2
  <2> QED BY <2>1, <2>2, <2>3, <2>4
<1>3. ASSUME pc[Monitor] # "model", call'[Monitor] = n, gbuf' = gbuf,
             pbuf'[Monitor] = pbuf[Monitor], loopP' > Monitor => loopP > Monitor
      PROVE  /\ gbuf' = ReadRecord(call[Monitor])'
             /\ loopP' > Monitor => pbuf'[Monitor] = Share(Monitor, call[Monitor])'
  BY <1>2, <1>3
<1>4. CASE UNCHANGED vars
  BY <1>0, <1>3, <1>4 DEF vars
<1>5. ASSUME NEW p \in Worker, WorkerSteps(p)
      PROVE  /\ gbuf' = ReadRecord(call[Monitor])'
             /\ loopP' > Monitor => pbuf'[Monitor] = Share(Monitor, call[Monitor])'
  <2>1. Monitor # p
    BY Numbers
  <2>2. /\ pc'[Monitor] = pc[Monitor] /\ call'[Monitor] = n
        /\ gbuf' = gbuf /\ loopP' = loopP /\ pbuf'[Monitor] = pbuf[Monitor]
    BY <1>0, <1>1, <1>5, <2>1, WorkerFrame
  <2> QED BY <1>3, <2>2
<1>6. CASE CallRead(Monitor)
  <2>1. PICK c \in Calls :
          /\ Makes(Monitor, c) /\ loopP' = 0 /\ call' = call
          /\ gbuf' = [cell \in Padded(c) |-> IF cell \in Cells(c) THEN Elem(cell, n) ELSE Junk]
    BY <1>0, <1>6 DEF CallRead
  <2>2. prog'[n] = c /\ setup' = setup
    BY <1>0, <1>1, <2>1, OthersStay, ProgramKept
  <2>3. ReadRecord(n)' = gbuf'
    BY <2>1, <2>2 DEF ReadRecord, Padded
  <2>4. ReadRecord(call[Monitor])' = ReadRecord(n)'
    BY <1>0, <2>1
  <2> QED BY <1>1, <2>1, <2>3, <2>4
<1>7. CASE CallWrite(Monitor)
  BY <1>0, <1>1, <1>7, CallPacks DEF Now
<1>8. CASE WriteHeader(Monitor) \/ Flush(Monitor) \/ FinishRead \/ FinishWrite
  BY <1>1, <1>8 DEF WriteHeader, Flush, FinishRead, FinishWrite, Makes, Returns, Goes
<1>9. CASE OwnShare
  <2>1. /\ pc[Monitor] = "loop" /\ call'[Monitor] = n /\ gbuf' = gbuf
        /\ pbuf'[Monitor] = Packed(gbuf, ShareOrder(prog[n], Monitor))
    BY <1>0, <1>1, <1>9 DEF OwnShare, InLoop, Now
  <2>2. gbuf = ReadRecord(n) /\ ReadRecord(call[Monitor])' = ReadRecord(n)
        /\ Share(Monitor, call[Monitor])' = Share(Monitor, n)
    BY <1>2, <2>1
  <2> QED BY <2>1, <2>2 DEF Share
<1>10. CASE OwnPart \/ Collect
  <2>1. pc[Monitor] # "model" /\ call'[Monitor] = n /\ prog[n].op = "write"
    BY <1>0, <1>1, <1>10 DEF OwnPart, InLoop, Collect, Now
  <2>2. prog[n].op = "read"
    BY <1>2, <2>1
  <2> QED BY <2>1, <2>2
<1>11. CASE SendResp \/ SendShare \/ SendGo
  BY <1>0, <1>1, <1>3, <1>11 DEF SendResp, SendShare, SendGo, InLoop
<1>12. CASE SendReturns(Monitor)
  <2>1. pc[Monitor] = "sending" \/ /\ pc[Monitor] # "model" /\ call'[Monitor] = n /\ gbuf' = gbuf
                                   /\ pbuf'[Monitor] = pbuf[Monitor]
                                   /\ loopP' = loopP \/ pc[Monitor] = "shipping"
    BY <1>0, <1>12 DEF SendReturns
  <2>2. pc[Monitor] # "sending" /\ (pc[Monitor] = "shipping" => loopP \in Worker)
    BY DEF SInv, PlacesInv
  <2>3. loopP \in Worker => loopP > Monitor
    BY Numbers
  <2> QED BY <1>3, <2>1, <2>2, <2>3
<1> QED
  BY <1>4, <1>5, <1>6, <1>7, <1>8, <1>9, <1>10, <1>11, <1>12, StepCases
  DEF MonitorSteps, CallAny, MonitorStep

\* A message is one that was under way, or the one that is sent.
LEMMA NetMoves ==
  ASSUME SInv, [Next]_vars, NEW p \in Proc, NEW q \in Proc, NEW x \in DOMAIN net'[p][q]
  PROVE  \/ \E y \in DOMAIN net[p][q] : net'[p][q][x] = net[p][q][y]
         \/ q = Monitor /\ p \in Worker /\ SendPacked(p)
            /\ net'[p][q][x] = Msg("write", "data", call[p], pbuf[p])
         \/ p = Monitor /\ q = loopP /\ SendResp
            /\ net'[p][q][x] = Msg("read", "resp", call[Monitor], <<>>)
         \/ p = Monitor /\ q = loopP /\ SendShare
            /\ net'[p][q][x] = Msg("read", "data", call[Monitor],
                                   Packed(gbuf, ShareOrder(Now(Monitor), loopP)))
         \/ p = Monitor /\ q = loopP /\ SendGo
            /\ net'[p][q][x] = Msg("write", "go", call[Monitor], <<>>)
<1>0. IsSeq(net[p][q]) /\ ShapesInv /\ Monitor \in Proc /\ Worker \subseteq Proc
  BY Numbers DEF SInv, ShapesInv
<1>1. ASSUME NEW r \in Proc, NEW t \in Proc, NEW m, Post(r, t, m)
      PROVE  \/ \E y \in DOMAIN net[p][q] : net'[p][q][x] = net[p][q][y]
             \/ p = r /\ q = t /\ net'[p][q][x] = m
  <2>1. CASE p = r /\ q = t
    <3>1. net'[p][q] = Append(net[p][q], m)
      BY <1>0, <1>1, <2>1, PostFacts
    <3>2. /\ DOMAIN net'[p][q] = 1..(Len(net[p][q]) + 1) /\ Len(net[p][q]) \in Nat
          /\ \A y \in 1..Len(net[p][q]) : net'[p][q][y] = net[p][q][y]
          /\ net'[p][q][Len(net[p][q]) + 1] = m
          /\ DOMAIN net[p][q] = 1..Len(net[p][q])
      BY <1>0, <3>1, AppendFacts, IsSeqFacts
    <3>3. x \in 1..Len(net[p][q]) \/ x = Len(net[p][q]) + 1
      BY <3>2
    <3> QED BY <2>1, <3>2, <3>3
  <2>2. CASE ~ (p = r /\ q = t)
    <3>1. net'[p][q] = net[p][q]
      BY <1>0, <1>1, <2>2, PostFacts
    <3> QED BY <3>1
  <2> QED BY <2>1, <2>2
<1>2. ASSUME NEW r \in Proc, NEW t \in Proc, NEW kind, Take(r, t, kind)
      PROVE  \E y \in DOMAIN net[p][q] : net'[p][q][x] = net[p][q][y]
  <2>1. CASE p = r /\ q = t
    <3>1. PICK z \in DOMAIN net[p][q] : net'[p][q] = RemoveAt(net[p][q], z)
      BY <1>0, <1>2, <2>1, TakeFacts
    <3>2. /\ DOMAIN net'[p][q] = 1..(Len(net[p][q]) - 1) /\ Len(net[p][q]) \in Nat
          /\ \A y \in 1..(Len(net[p][q]) - 1) :
               net'[p][q][y] = IF y < z THEN net[p][q][y] ELSE net[p][q][y + 1]
          /\ DOMAIN net[p][q] = 1..Len(net[p][q])
      BY <1>0, <3>1, RemoveFacts, IsSeqFacts
    <3>3. x \in DOMAIN net[p][q] /\ x + 1 \in DOMAIN net[p][q]
      BY <3>2
    <3> QED BY <3>2, <3>3
  <2>2. CASE ~ (p = r /\ q = t)
    <3>1. net'[p][q] = net[p][q]
      BY <1>0, <1>2, <2>2, TakeFacts
    <3> QED BY <3>1
  <2> QED BY <2>1, <2>2
<1>3. CASE net' = net
  BY <1>3
<1>4. ASSUME NEW r \in Worker, SendPacked(r)
      PROVE  \/ \E y \in DOMAIN net[p][q] : net'[p][q][x] = net[p][q][y]
             \/ q = Monitor /\ p \in Worker /\ SendPacked(p)
                /\ net'[p][q][x] = Msg("write", "data", call[p], pbuf[p])
  <2>1. PICK m : m = Msg("write", "data", call[r], pbuf[r])
    OBVIOUS
  <2>2. Post(r, Monitor, m)
    BY <1>4, <2>1 DEF SendPacked
  <2> QED BY <1>0, <1>1, <1>4, <2>1, <2>2
<1>5. ASSUME SendResp \/ SendShare \/ SendGo
      PROVE  loopP \in Proc
  <2>1. pc[Monitor] = "loop" /\ loopP < NProc => loopP \in Proc
    BY Numbers DEF SInv, TypeOK, Proc
  <2>2. pc[Monitor] = "answered" => loopP \in Proc
    BY Numbers DEF SInv, PlacesInv
  <2> QED BY <1>5, <2>1, <2>2 DEF SendResp, SendShare, SendGo, InLoop
<1>6. CASE SendResp
  <2>1. PICK m : m = Msg("read", "resp", call[Monitor], <<>>)
    OBVIOUS
  <2>2. Post(Monitor, loopP, m)
    BY <1>6, <2>1 DEF SendResp
  <2> QED BY <1>0, <1>1, <1>5, <1>6, <2>1, <2>2
<1>7. CASE SendShare
  <2>1. PICK m : m = Msg("read", "data", call[Monitor], Packed(gbuf, ShareOrder(Now(Monitor), loopP)))
    OBVIOUS
  <2>2. Post(Monitor, loopP, m)
    BY <1>7, <2>1 DEF SendShare
  <2> QED BY <1>0, <1>1, <1>5, <1>7, <2>1, <2>2
<1>8. CASE SendGo
  <2>1. PICK m : m = Msg("write", "go", call[Monitor], <<>>)
    OBVIOUS
  <2>2. Post(Monitor, loopP, m)
    BY <1>8, <2>1 DEF SendGo
  <2> QED BY <1>0, <1>1, <1>5, <1>8, <2>1, <2>2
<1>9. CASE \E r \in Worker : RecvResp(r) \/ RecvShare(r) \/ RecvGo(r)
  BY <1>0, <1>2, <1>9 DEF RecvResp, RecvShare, RecvGo
<1>10. CASE Collect
  <2>1. loopP \in Worker /\ Take(loopP, Monitor, "write")
    BY <1>10 DEF Collect, SInv, PlacesInv
  <2> QED BY <1>0, <1>2, <2>1
<1>11. \/ net' = net \/ SendResp \/ SendShare \/ SendGo \/ Collect
       \/ \E r \in Worker : SendPacked(r) \/ RecvResp(r) \/ RecvShare(r) \/ RecvGo(r)
  BY DEF Next, CallAny, CallRead, CallWrite, WriteHeader, Flush, SendReturns, WorkerStep,
     MonitorStep, OwnShare, FinishRead, OwnPart, FinishWrite, Finished, vars
<1> QED BY <1>3, <1>4, <1>6, <1>7, <1>8, <1>9, <1>10, <1>11

LEMMA BodiesNext ==
  ASSUME SInv, NetInv, BodiesInv, PackedInv, ServedInv, [Next]_vars
  PROVE  BodiesInv'
<1> SUFFICES ASSUME NEW q \in Worker
             PROVE  /\ \A x \in DOMAIN net'[Monitor][q] : ToWorker(q, net[Monitor][q][x])'
                    /\ \A x \in DOMAIN net'[q][Monitor] : ToMonitor(q, net[q][Monitor][x])'
  BY DEF BodiesInv
<1>0. q \in Proc /\ Monitor \in Proc /\ q # Monitor /\ Monitor \notin Worker /\ Len(prog) \in Nat
  BY Numbers, CallTypes
<1>1. \A n \in 1..Len(prog) : Share(q, n)' = Share(q, n) /\ Part(q, n)' = Part(q, n)
  BY ContentKept
<1>2. ASSUME NEW x \in DOMAIN net'[Monitor][q]
      PROVE  ToWorker(q, net[Monitor][q][x])'
  <2>1. PICK m : m = net'[Monitor][q][x]
    OBVIOUS
  <2>2. SUFFICES m.call \in 1..Len(prog) /\ ToWorker(q, m)
    <3>1. ASSUME m.call \in 1..Len(prog), ToWorker(q, m)
          PROVE  ToWorker(q, m)'
      <4>1. PICK n : n = m.call
        OBVIOUS
      <4>2. Share(q, n)' = Share(q, n)
        BY <1>1, <3>1, <4>1
      <4> QED BY <3>1, <4>1, <4>2 DEF ToWorker
    <3> QED BY <2>1, <3>1
  <2>3. CASE \E y \in DOMAIN net[Monitor][q] : m = net[Monitor][q][y]
    <3>1. PICK y \in DOMAIN net[Monitor][q] : m = net[Monitor][q][y]
      BY <2>3
    <3>2. Key(m) \in Due(q)
      BY <3>1 DEF NetInv, NetOf, Keys
    <3>3. Key(m)[1] \in 1..Len(prog)
      BY <3>2, DueFacts
    <3> QED BY <3>1, <3>3 DEF BodiesInv, Key
  <2>4. CASE SendResp /\ m = Msg("read", "resp", call[Monitor], <<>>)
    <3>1. call[Monitor] \in 1..Len(prog)
      BY <1>0, <2>4, CallTypes DEF SendResp, InLoop
    <3> QED BY <2>4, <3>1 DEF Msg, ToWorker
  <2>5. CASE SendGo /\ m = Msg("write", "go", call[Monitor], <<>>)
    <3>1. call[Monitor] \in 1..Len(prog)
      BY <1>0, <2>5, CallTypes DEF SendGo, InLoop
    <3> QED BY <2>5, <3>1 DEF Msg, ToWorker
  <2>6. CASE q = loopP /\ SendShare
             /\ m = Msg("read", "data", call[Monitor], Packed(gbuf, ShareOrder(Now(Monitor), loopP)))
    <3>1. pc[Monitor] = "answered" /\ Now(Monitor).op = "read"
      BY <2>6 DEF SendShare, SInv, PlacesInv
    <3>2. call[Monitor] \in 1..Len(prog) /\ gbuf = ReadRecord(call[Monitor])
      BY <1>0, <3>1, CallTypes DEF ServedInv
    <3>3. Packed(gbuf, ShareOrder(Now(Monitor), loopP)) = Share(q, call[Monitor])
      BY <2>6, <3>2 DEF Share, Now
    <3>4. /\ m.call = call[Monitor] /\ m.what = "data"
          /\ m.body = Packed(gbuf, ShareOrder(Now(Monitor), loopP))
      BY <2>6 DEF Msg
    <3> QED BY <3>2, <3>3, <3>4 DEF ToWorker
  <2> QED BY <1>0, <2>1, <2>3, <2>4, <2>5, <2>6, NetMoves
<1>3. ASSUME NEW x \in DOMAIN net'[q][Monitor]
      PROVE  ToMonitor(q, net[q][Monitor][x])'
  <2>1. PICK m : m = net'[q][Monitor][x]
    OBVIOUS
  <2>2. SUFFICES m.call \in 1..Len(prog) /\ ToMonitor(q, m)
    <3>1. ASSUME m.call \in 1..Len(prog), ToMonitor(q, m)
          PROVE  ToMonitor(q, m)'
      <4>1. PICK n : n = m.call
        OBVIOUS
      <4>2. Part(q, n)' = Part(q, n)
        BY <1>1, <3>1, <4>1
      <4> QED BY <3>1, <4>1, <4>2 DEF ToMonitor
    <3> QED BY <2>1, <3>1
  <2>3. CASE \E y \in DOMAIN net[q][Monitor] : m = net[q][Monitor][y]
    <3>1. PICK y \in DOMAIN net[q][Monitor] : m = net[q][Monitor][y]
      BY <2>3
    <3>2. Key(m) \in Owed(q)
      BY <3>1 DEF NetInv, NetOf, Keys
    <3>3. Key(m)[1] \in 1..Len(prog)
      BY <3>2, DueFacts
    <3> QED BY <3>1, <3>3 DEF BodiesInv, Key
  <2>4. CASE SendPacked(q) /\ m = Msg("write", "data", call[q], pbuf[q])
    <3>1. pc[q] = "data"
      BY <2>4 DEF SendPacked
    <3>2. call[q] \in 1..Len(prog) /\ pbuf[q] = Part(q, call[q])
      BY <1>0, <3>1, CallTypes DEF PackedInv
    <3> QED BY <2>4, <3>2 DEF Msg, ToMonitor
  <2> QED BY <1>0, <2>1, <2>3, <2>4, NetMoves
<1> QED BY <1>2, <1>3

-------------------------------------------------------------------------------
(* A receive gets the message of its own call *)

LEMMA LengthOf ==
  ASSUME NEW order, NEW cells, Lists(order, cells), NEW s, DOMAIN s = DOMAIN order,
         s = [x \in DOMAIN order |-> s[x]]
  PROVE  Len(s) = Cardinality(cells)
<1>1. PICK n \in Nat : n = Cardinality(cells)
  BY DEF Lists
<1>2. DOMAIN order = 1..n
  BY <1>1 DEF Lists
<1>3. s \in [1..n -> Range(s)]
  BY <1>2 DEF Range
<1> QED BY <1>1, <1>3

LEMMA ReceivesItsOwn == SInv /\ NetInv /\ BodiesInv => EachToItsCall
<1> SUFFICES ASSUME SInv, NetInv, BodiesInv, NEW p \in Proc,
                    pc[p] \in {"resp", "share", "go", "collect"},
                    NEW a, a = Awaits(p), Ready(a.from, p, a.kind),
                    NEW m, m = Received(a.from, p, a.kind)
             PROVE  m.call = call[p] /\ m.what = a.what /\ Len(m.body) = a.len
  BY DEF EachToItsCall
<1>1. setup \in Setups /\ Monitor \in Proc /\ (p # Monitor => p \in Worker)
      /\ \A n \in 1..Len(prog) : prog[n] \in Calls
  BY Numbers DEF SInv, TypeOK
<1>2. ASSUME p # Monitor
      PROVE  m.call = call[p] /\ m.what = a.what /\ Len(m.body) = a.len
  <2>1. PICK part, kind :
          /\ \/ pc[p] = "resp" /\ part = "resp"
             \/ pc[p] = "share" /\ part = "data"
             \/ pc[p] = "go" /\ part = "go"
          /\ kind = (IF part = "go" THEN "write" ELSE "read")
    BY <1>1, <1>2 DEF SInv, TypeOK
  <2>2. /\ a.from = Monitor /\ a.kind = kind /\ a.what = part
        /\ part # "data" => a.len = 0
        /\ part = "data" => a.len = Len(ShareOrder(Now(p), p))
    <3>1. CASE pc[p] = "resp"
      BY <2>1, <3>1 DEF Awaits
    <3>2. CASE pc[p] = "share"
      BY <2>1, <3>2 DEF Awaits
    <3>3. CASE pc[p] = "go"
      BY <2>1, <3>3 DEF Awaits
    <3> QED BY <2>1, <3>1, <3>2, <3>3
  <2>3. Ready(Monitor, p, kind) /\ m = Received(Monitor, p, kind)
    BY <2>2
  <2>4. PICK x \in DOMAIN net[Monitor][p] :
          /\ m = net[Monitor][p][x] /\ Key(m) = <<call[p], part>>
          /\ call[p] \in 1..Len(prog) /\ part \in Parts(prog[call[p]])
    <3>1. p \in Worker /\ Ready(Monitor, p, kind)
      BY <1>1, <1>2, <2>3
    <3>2. /\ FirstOf(Monitor, p, kind) \in DOMAIN net[Monitor][p]
          /\ Received(Monitor, p, kind) = net[Monitor][p][FirstOf(Monitor, p, kind)]
          /\ Key(Received(Monitor, p, kind)) = <<call[p], part>>
          /\ call[p] \in 1..Len(prog) /\ part \in Parts(prog[call[p]])
      BY <2>1, <3>1, ReceivesItsPart, ZenonT(60)
    <3> QED BY <2>3, <3>2, ZenonT(60)
  <2>5. m.call = call[p] /\ m.what = part
    <3>1. Key(m) = <<m.call, m.what>>
      BY DEF Key
    <3> QED BY ONLY <2>4, <3>1
  <2>6. m.body = IF part = "data" THEN Share(p, call[p]) ELSE <<>>
    <3>1. ToWorker(p, net[Monitor][p][x])
      BY <1>1, <1>2, <2>4 DEF BodiesInv
    <3> QED BY <2>4, <2>5, <3>1 DEF ToWorker
  <2>7. CASE part = "data"
    <3>1. Now(p).op = "read" /\ Now(p) = prog[call[p]]
      BY <1>1, <1>2, <2>1, <2>7 DEF SInv, PlacesInv, Now
    <3>2. PICK order : order = ShareOrder(Now(p), p)
      OBVIOUS
    <3>3. Lists(order, Own(p, Padded(Now(p))))
      BY <1>1, <2>4, <3>1, <3>2, OrdersList
    <3>4. m.body = [y \in DOMAIN order |-> ReadRecord(call[p])[order[y]]]
      BY <2>6, <2>7, <3>1, <3>2 DEF Share, Packed
    <3>5. Len(m.body) = Cardinality(Own(p, Padded(Now(p))))
      BY <3>3, <3>4, LengthOf
    <3>6. order = [y \in DOMAIN order |-> order[y]]
      BY <3>3 DEF Lists
    <3>7. Len(order) = Cardinality(Own(p, Padded(Now(p))))
      BY <3>3, <3>6, LengthOf
    <3> QED BY <2>2, <2>5, <2>7, <3>2, <3>5, <3>7
  <2>8. CASE part # "data"
    BY <2>2, <2>5, <2>6, <2>8
  <2> QED BY <2>7, <2>8
<1>3. ASSUME p = Monitor
      PROVE  m.call = call[p] /\ m.what = a.what /\ Len(m.body) = a.len
  <2>1. pc[Monitor] = "collect"
    BY <1>3 DEF SInv, PlacesInv
  <2>2. /\ a.from = loopP /\ a.kind = "write" /\ a.what = "data"
        /\ a.len = Len(UnpackOrder(Now(Monitor), loopP))
    BY <1>3, <2>1 DEF Awaits
  <2>3. Ready(loopP, Monitor, "write") /\ m = Received(loopP, Monitor, "write")
    BY <1>3, <2>2
  <2>4. /\ loopP \in Worker
        /\ \E x \in DOMAIN net[loopP][Monitor] : m = net[loopP][Monitor][x]
        /\ Key(m) = <<call[Monitor], "data">>
        /\ call[Monitor] \in 1..Len(prog) /\ prog[call[Monitor]].op = "write"
    BY <2>1, <2>3, CollectsItsPart
  <2>5. m.call = call[Monitor] /\ m.what = "data"
    BY <2>4 DEF Key
  <2>6. ToMonitor(loopP, m)
    BY <2>4 DEF BodiesInv
  <2>7. PICK order, other, c :
          /\ c = prog[call[Monitor]] /\ order = PackOrder(c, loopP) /\ other = UnpackOrder(c, loopP)
    OBVIOUS
  <2>8. /\ Lists(order, Own(loopP, Cells(c))) /\ Lists(other, Own(loopP, Cells(c)))
    BY <1>1, <2>4, <2>7, OrdersList
  <2>9. m.body = [x \in DOMAIN order |-> Elem(order[x], call[Monitor])]
    BY <2>5, <2>6, <2>7 DEF ToMonitor, Part
  <2>10. Len(m.body) = Cardinality(Own(loopP, Cells(c)))
    BY <2>8, <2>9, LengthOf
  <2>11. other = [x \in DOMAIN other |-> other[x]]
    BY <2>8 DEF Lists
  <2>12. Len(other) = Cardinality(Own(loopP, Cells(c)))
    BY <2>8, <2>11, LengthOf
  <2> QED BY <1>3, <2>2, <2>5, <2>7, <2>10, <2>12 DEF Now
<1> QED BY <1>2, <1>3

-------------------------------------------------------------------------------
(* The record that the monitor puts together *)

LEMMA SameOrder ==
  ASSUME LayoutsAgree, setup \in Setups, NEW c \in Calls, c.op = "write", NEW p
  PROVE  PackOrder(c, p) = UnpackOrder(c, p)
<1>1. Regular => c.layout # "JIK"
  BY DEF LayoutsAgree, Regular, Calls
<1> QED BY <1>1 DEF PackOrder, UnpackOrder, RegularPack, RegularUnpack

\* A part that is unpacked fills the places of its processor, and no others.
LEMMA PartUnpacked ==
  ASSUME LayoutsAgree, setup \in Setups, NEW c \in Calls, c.op = "write", NEW p, NEW n,
         NEW memory, memory = [cell \in Cells(c) |-> memory[cell]],
         NEW elems, elems = [x \in DOMAIN PackOrder(c, p) |-> Elem(PackOrder(c, p)[x], n)],
         NEW result, result = Unpacked(memory, UnpackOrder(c, p), elems)
  PROVE  /\ result = [cell \in Cells(c) |-> result[cell]]
         /\ \A cell \in Cells(c) :
              /\ Owner[<<cell[1], cell[2]>>] = p => result[cell] = Elem(cell, n)
              /\ Owner[<<cell[1], cell[2]>>] # p => result[cell] = memory[cell]
<1>1. PICK order, cells : order = UnpackOrder(c, p) /\ cells = Own(p, Cells(c))
  OBVIOUS
<1>2. Lists(order, cells) /\ PackOrder(c, p) = order
  BY <1>1, OrdersList, SameOrder
<1>3. DOMAIN memory = Cells(c)
  OBVIOUS
<1>4. result = [cell \in Cells(c) |-> result[cell]]
  <2>1. result = [cell \in DOMAIN memory |->
                    IF \E x \in DOMAIN order : order[x] = cell
                    THEN elems[CHOOSE x \in DOMAIN order : order[x] = cell] ELSE memory[cell]]
    BY <1>1 DEF Unpacked
  <2> DEFINE At(cell) == IF \E x \in DOMAIN order : order[x] = cell
                         THEN elems[CHOOSE x \in DOMAIN order : order[x] = cell] ELSE memory[cell]
  <2>2. result = [cell \in Cells(c) |-> At(cell)]
    BY <1>3, <2>1
  <2> HIDE DEF At
  <2> QED BY <2>2
<1>5. ASSUME NEW cell \in Cells(c), Owner[<<cell[1], cell[2]>>] = p
      PROVE  result[cell] = Elem(cell, n)
  <2>1. cell \in cells
    BY <1>1, <1>5 DEF Own
  <2>2. PICK x \in DOMAIN order : order[x] = cell /\ Unpacked(memory, order, elems)[cell] = elems[x]
    <3>1. cell \in DOMAIN memory /\ Lists(order, cells)
      BY <1>2, <1>3
    <3>2. cell \in cells => \E x \in DOMAIN order :
            order[x] = cell /\ Unpacked(memory, order, elems)[cell] = elems[x]
      BY ONLY <3>1, UnpackedFacts
    <3> QED BY <2>1, <3>2
  <2>3. elems[x] = Elem(order[x], n)
    BY <1>2
  <2> QED BY <1>1, <2>2, <2>3
<1>6. ASSUME NEW cell \in Cells(c), Owner[<<cell[1], cell[2]>>] # p
      PROVE  result[cell] = memory[cell]
  <2>1. cell \notin cells
    BY <1>1, <1>6 DEF Own
  <2>2. Unpacked(memory, order, elems)[cell] = memory[cell]
    BY <1>2, <1>3, <2>1, UnpackedFacts
  <2> QED BY <1>1, <2>2
<1> QED BY <1>4, <1>5, <1>6

LEMMA GatheredNext ==
  ASSUME LayoutsAgree, SInv, NetInv, BodiesInv, GatheredInv, [Next]_vars
  PROVE  GatheredInv'
<1> DEFINE Goal == /\ loopP' = Monitor => pbuf'[Monitor] = Part(Monitor, call[Monitor])'
                   /\ gbuf' = [cell \in Cells(Now(Monitor))' |-> gbuf'[cell]]
                   /\ \A cell \in Cells(Now(Monitor))' :
                        Owner'[<<cell[1], cell[2]>>] < loopP'
                          => gbuf'[cell] = Elem(cell, call'[Monitor])
<1> SUFFICES ASSUME pc'[Monitor] # "model", Now(Monitor)'.op = "write"
             PROVE  Goal
  BY DEF GatheredInv
<1>0. PICK n, c : n = call[Monitor] /\ c = prog[n]
  OBVIOUS
<1>1. /\ Monitor \in Proc /\ Monitor = 0 /\ DOMAIN pc = Proc /\ DOMAIN call = Proc
      /\ DOMAIN pbuf = Proc /\ loopP \in Nat /\ setup \in Setups
      /\ pc[Monitor] # "model" => n \in 1..Len(prog)
      /\ pc[Monitor] \in {"answering", "answered", "shipping"} => c.op = "read"
      /\ Owner' = Owner
  <2>1. Owner' = Owner
    BY ProgramKept DEF Owner
  <2> QED BY <1>0, <2>1, Numbers, CallTypes DEF SInv, TypeOK, ShapesInv, PlacesInv, Now
<1>2. ASSUME pc[Monitor] # "model", call'[Monitor] = n
      PROVE  /\ Cells(Now(Monitor))' = Cells(c) /\ c.op = "write" /\ c \in Calls
             /\ loopP = Monitor => pbuf[Monitor] = Part(Monitor, n)
             /\ gbuf = [cell \in Cells(c) |-> gbuf[cell]]
             /\ \A cell \in Cells(c) : Owner[<<cell[1], cell[2]>>] < loopP => gbuf[cell] = Elem(cell, n)
             /\ \A cell \in Cells(c) : Owner[<<cell[1], cell[2]>>] \in Nat
             /\ Part(Monitor, call[Monitor])' = Part(Monitor, n)
  <2>1. Now(Monitor)' = c /\ c \in Calls
    BY <1>0, <1>1, <1>2, ProgramKept DEF Now
  <2>2. c.op = "write" /\ Now(Monitor) = c
    BY <1>0, <2>1 DEF Now
  <2>3. Part(Monitor, n)' = Part(Monitor, n)
    BY <1>1, <1>2, ContentKept
  <2>4. Part(Monitor, call[Monitor])' = Part(Monitor, n)'
    BY <1>2
  <2>5. Cells(Now(Monitor))' = Cells(c)
    BY <2>1
  <2>6. \A cell \in Cells(c) : Owner[<<cell[1], cell[2]>>] \in Nat
    <3>1. \A cell \in Cells(c) : Owner[<<cell[1], cell[2]>>] \in Proc
      BY <1>1, <2>1, <2>2, CellsFacts
    <3> QED BY <3>1, Numbers
  <2>7. /\ loopP = Monitor => pbuf[Monitor] = Part(Monitor, call[Monitor])
        /\ gbuf = [cell \in Cells(Now(Monitor)) |-> gbuf[cell]]
        /\ \A cell \in Cells(Now(Monitor)) :
             Owner[<<cell[1], cell[2]>>] < loopP => gbuf[cell] = Elem(cell, call[Monitor])
    BY <1>2, <2>2 DEF GatheredInv
  <2> QED BY <1>0, <2>1, <2>2, <2>3, <2>4, <2>5, <2>6, <2>7
<1>3. ASSUME pc[Monitor] # "model", call'[Monitor] = n, gbuf' = gbuf,
             pbuf'[Monitor] = pbuf[Monitor], loopP' = loopP
      PROVE  Goal
  BY <1>1, <1>2, <1>3
\* The monitor unpacks the part of P.
<1>4. ASSUME pc[Monitor] # "model", call'[Monitor] = n, loopP' = loopP + 1,
             NEW elems, elems = Part(loopP, n),
             gbuf' = Unpacked(gbuf, UnpackOrder(c, loopP), elems)
      PROVE  Goal
  <2>1. PICK p : p = loopP
    OBVIOUS
  <2>2. elems = [x \in DOMAIN PackOrder(c, p) |-> Elem(PackOrder(c, p)[x], n)]
    BY <1>0, <1>4, <2>1 DEF Part
  <2>3. /\ gbuf' = [cell \in Cells(c) |-> gbuf'[cell]]
        /\ \A cell \in Cells(c) :
             /\ Owner[<<cell[1], cell[2]>>] = p => gbuf'[cell] = Elem(cell, n)
             /\ Owner[<<cell[1], cell[2]>>] # p => gbuf'[cell] = gbuf[cell]
    <3>1. PICK memory, result : memory = gbuf /\ result = gbuf'
      OBVIOUS
    <3>2. /\ memory = [cell \in Cells(c) |-> memory[cell]]
          /\ result = Unpacked(memory, UnpackOrder(c, p), elems)
      BY <1>2, <1>4, <2>1, <3>1
    <3>3. c \in Calls /\ c.op = "write" /\ setup \in Setups
      BY <1>1, <1>2, <1>4
    <3>4. /\ result = [cell \in Cells(c) |-> result[cell]]
          /\ \A cell \in Cells(c) :
               /\ Owner[<<cell[1], cell[2]>>] = p => result[cell] = Elem(cell, n)
               /\ Owner[<<cell[1], cell[2]>>] # p => result[cell] = memory[cell]
      BY <2>2, <3>2, <3>3, PartUnpacked
    <3> QED BY <3>1, <3>4
  <2>4. ASSUME NEW cell \in Cells(c), Owner[<<cell[1], cell[2]>>] < loopP'
        PROVE  gbuf'[cell] = Elem(cell, n)
    <3>1. Owner[<<cell[1], cell[2]>>] = p \/ Owner[<<cell[1], cell[2]>>] < p
      BY <1>1, <1>2, <1>4, <2>1, <2>4
    <3> QED BY <1>2, <1>4, <2>1, <2>3, <3>1
  <2> QED BY <1>1, <1>2, <1>4, <2>3, <2>4
<1> HIDE DEF Goal
<1>5. CASE UNCHANGED vars
  BY <1>0, <1>3, <1>5 DEF vars
<1>6. ASSUME NEW p \in Worker, WorkerSteps(p)
      PROVE  Goal
  <2>1. Monitor # p
    BY Numbers
  <2>2. /\ pc'[Monitor] = pc[Monitor] /\ call'[Monitor] = n
        /\ gbuf' = gbuf /\ loopP' = loopP /\ pbuf'[Monitor] = pbuf[Monitor]
    BY <1>0, <1>1, <1>6, <2>1, WorkerFrame
  <2> QED BY <1>3, <2>2
<1>7. CASE CallWrite(Monitor)
  <2>1. PICK d \in Calls :
          /\ Makes(Monitor, d) /\ loopP' = 0 /\ call' = call /\ d.op = "write"
          /\ gbuf' = [cell \in Cells(d) |-> Junk]
    BY <1>7 DEF CallWrite
  <2>2. Now(Monitor)' = d
    BY <1>1, <2>1, OthersStay DEF Now
  <2>3. pbuf'[Monitor] = Part(Monitor, call[Monitor])'
    <3>1. pbuf'[Monitor] = Part(Monitor, n)'
      BY <1>0, <1>1, <1>7, CallPacks
    <3> QED BY <1>0, <2>1, <3>1
  <2>4. Cells(Now(Monitor))' = Cells(d)
    BY <2>2
  <2>5. \A cell \in Cells(d) : ~ (Owner'[<<cell[1], cell[2]>>] < 0)
    <3>1. \A cell \in Cells(d) : Owner[<<cell[1], cell[2]>>] \in Proc
      BY <1>1, <2>1, CellsFacts
    <3>2. \A q \in Proc : ~ (q < 0)
      BY Numbers
    <3> QED BY <1>1, <3>1, <3>2
  <2>6. gbuf' = [cell \in Cells(d) |-> gbuf'[cell]]
    BY <2>1
  <2> QED BY <2>1, <2>3, <2>4, <2>5, <2>6 DEF Goal
<1>8. CASE CallRead(Monitor)
  <2>1. PICK d \in Calls : Makes(Monitor, d) /\ call' = call /\ d.op = "read"
    BY <1>8 DEF CallRead
  <2>2. Now(Monitor)' = d
    BY <1>1, <2>1, OthersStay DEF Now
  <2> QED BY <2>1, <2>2
<1>9. CASE WriteHeader(Monitor) \/ Flush(Monitor) \/ FinishRead \/ FinishWrite
  BY <1>1, <1>9 DEF WriteHeader, Flush, FinishRead, FinishWrite, Makes, Returns, Goes
<1>10. CASE OwnPart
  <2>1. /\ pc[Monitor] = "loop" /\ call'[Monitor] = n /\ loopP = Monitor /\ loopP' = loopP + 1
        /\ gbuf' = Unpacked(gbuf, UnpackOrder(c, loopP), pbuf[Monitor])
    BY <1>0, <1>10 DEF OwnPart, InLoop, NextP, Now
  <2>2. pbuf[Monitor] = Part(loopP, n)
    BY <1>2, <2>1
  <2> QED BY <1>4, <2>1, <2>2
<1>11. CASE Collect
  <2>1. /\ pc[Monitor] = "collect" /\ call'[Monitor] = n /\ loopP' = loopP + 1
        /\ Ready(loopP, Monitor, "write")
    BY <1>0, <1>11 DEF Collect, NextP, Take
  <2>2. PICK m : m = Received(loopP, Monitor, "write")
    OBVIOUS
  <2>3. gbuf' = Unpacked(gbuf, UnpackOrder(c, loopP), m.body)
    BY <1>0, <1>11, <2>2 DEF Collect, Now
  <2>4. /\ loopP \in Worker
        /\ \E x \in DOMAIN net[loopP][Monitor] : m = net[loopP][Monitor][x]
        /\ Key(m) = <<n, "data">>
    BY <1>0, <2>1, <2>2, CollectsItsPart
  <2>5. m.body = Part(loopP, n)
    <3>1. m.call = n
      BY <2>4 DEF Key
    <3>2. ToMonitor(loopP, m)
      BY <2>4 DEF BodiesInv
    <3> QED BY <3>1, <3>2 DEF ToMonitor
  <2>6. pc[Monitor] # "model"
    BY <2>1
  <2> QED BY <1>4, <2>1, <2>3, <2>5, <2>6
<1>12. CASE OwnShare \/ SendReturns(Monitor)
  <2>1. CASE pc[Monitor] = "going"
    <3>1. call'[Monitor] = n /\ gbuf' = gbuf /\ pbuf'[Monitor] = pbuf[Monitor] /\ loopP' = loopP
      BY <1>0, <1>12, <2>1 DEF OwnShare, InLoop, SendReturns
    <3> QED BY <1>3, <2>1, <3>1
  <2>2. CASE pc[Monitor] # "going"
    <3>1. pc[Monitor] # "sending"
      BY DEF SInv, PlacesInv
    <3>2. pc[Monitor] # "model" /\ call'[Monitor] = n /\ c.op = "read"
      BY <1>0, <1>1, <1>12, <2>2, <3>1 DEF OwnShare, InLoop, SendReturns, Now
    <3>3. c.op = "write"
      BY <1>2, <3>2
    <3> QED BY <3>2, <3>3
  <2> QED BY <2>1, <2>2
<1>13. CASE SendResp \/ SendShare \/ SendGo
  BY <1>0, <1>1, <1>3, <1>13 DEF SendResp, SendShare, SendGo, InLoop
<1> QED
  BY <1>5, <1>6, <1>7, <1>8, <1>9, <1>10, <1>11, <1>12, <1>13, StepCases
  DEF MonitorSteps, CallAny, MonitorStep

-------------------------------------------------------------------------------
(* The records *)

LEMMA RangeFacts ==
  ASSUME NEW s, IsSeq(s), NEW r
  PROVE  /\ Range(Append(s, r)) = Range(s) \union {r}
         /\ s = <<>> <=> Range(s) = {}
<1>1. /\ DOMAIN s = 1..Len(s) /\ Len(s) \in Nat
      /\ DOMAIN Append(s, r) = 1..(Len(s) + 1)
      /\ \A x \in 1..Len(s) : Append(s, r)[x] = s[x]
      /\ Append(s, r)[Len(s) + 1] = r
      /\ s # <<>> <=> Len(s) > 0
  BY AppendFacts, IsSeqFacts
<1>2. \A y : y \in Range(Append(s, r)) <=> y \in Range(s) \/ y = r
  <2> TAKE y
  <2>1. y \in Range(Append(s, r)) <=> \E x \in 1..(Len(s) + 1) : y = Append(s, r)[x]
    BY <1>1 DEF Range
  <2>2. y \in Range(s) <=> \E x \in 1..Len(s) : y = s[x]
    BY <1>1 DEF Range
  <2>3. \A x : x \in 1..(Len(s) + 1) <=> x \in 1..Len(s) \/ x = Len(s) + 1
    BY <1>1
  <2> QED BY <1>1, <2>1, <2>2, <2>3
<1>3. s = <<>> <=> Range(s) = {}
  <2>1. Range(s) = {} <=> DOMAIN s = {}
    BY DEF Range
  <2>2. Len(s) > 0 => 1 \in DOMAIN s
    BY <1>1
  <2>3. ~ (Len(s) > 0) => DOMAIN s = {}
    BY <1>1
  <2> QED BY <1>1, <2>1, <2>2, <2>3
<1> QED BY <1>2, <1>3

LEMMA JoinFacts ==
  ASSUME NEW a, NEW b, IsSeq(a), IsSeq(b)
  PROVE  /\ IsSeq(a \o b) /\ Range(a \o b) = Range(a) \union Range(b)
         /\ a \o <<>> = a
         /\ \A r : a \o Append(b, r) = Append(a \o b, r)
<1> DEFINE S == Range(a) \union Range(b)
<1>1. a \in Seq(S) /\ b \in Seq(S)
  BY SeqMonotonic DEF IsSeq
<1> HIDE DEF S
<1>2. a \o b \in Seq(S) /\ IsSeq(a \o b)
  <2>1. a \o b \in Seq(S)
    BY <1>1
  <2> QED BY <2>1, SeqIsSeq
<1>3. /\ Len(a) \in Nat /\ Len(b) \in Nat /\ DOMAIN a = 1..Len(a) /\ DOMAIN b = 1..Len(b)
      /\ Len(a \o b) = Len(a) + Len(b) /\ DOMAIN (a \o b) = 1..(Len(a) + Len(b))
      /\ \A x \in 1..Len(a) : (a \o b)[x] = a[x]
      /\ \A x \in 1..Len(b) : (a \o b)[Len(a) + x] = b[x]
  BY <1>1
<1>4. ASSUME NEW y
      PROVE  y \in Range(a \o b) <=> y \in Range(a) \/ y \in Range(b)
  <2>1. ASSUME y \in Range(a \o b)
        PROVE  y \in Range(a) \/ y \in Range(b)
    <3>1. PICK x \in 1..(Len(a) + Len(b)) : y = (a \o b)[x]
      BY <1>3, <2>1 DEF Range
    <3>2. CASE x \in 1..Len(a)
      BY <1>3, <3>1, <3>2 DEF Range
    <3>3. CASE x \notin 1..Len(a)
      <4>1. x - Len(a) \in 1..Len(b) /\ Len(a) + (x - Len(a)) = x
        BY <1>3, <3>3
      <4>2. y = b[x - Len(a)]
        BY <1>3, <3>1, <4>1
      <4> QED BY <1>3, <4>1, <4>2 DEF Range
    <3> QED BY <3>2, <3>3
  <2>2. ASSUME y \in Range(a)
        PROVE  y \in Range(a \o b)
    <3>1. PICK x \in 1..Len(a) : y = a[x]
      BY <1>3, <2>2 DEF Range
    <3>2. x \in 1..(Len(a) + Len(b)) /\ y = (a \o b)[x]
      BY <1>3, <3>1
    <3> QED BY <1>3, <3>2 DEF Range
  <2>3. ASSUME y \in Range(b)
        PROVE  y \in Range(a \o b)
    <3>1. PICK x \in 1..Len(b) : y = b[x]
      BY <1>3, <2>3 DEF Range
    <3>2. Len(a) + x \in 1..(Len(a) + Len(b)) /\ y = (a \o b)[Len(a) + x]
      BY <1>3, <3>1
    <3> QED BY <1>3, <3>2 DEF Range
  <2> QED BY <2>1, <2>2, <2>3
<1>5. a \o <<>> = a
  BY <1>1
<1>6. ASSUME NEW r
      PROVE  a \o Append(b, r) = Append(a \o b, r)
  <2> DEFINE T == S \union {r}
  <2>1. a \in Seq(T) /\ b \in Seq(T) /\ r \in T
    BY <1>1, SeqMonotonic
  <2> HIDE DEF T
  <2>2. Append(b, r) = b \o <<r>> /\ Append(a \o b, r) = (a \o b) \o <<r>> /\ <<r>> \in Seq(T)
    BY <2>1
  <2>3. a \o (b \o <<r>>) = (a \o b) \o <<r>>
    BY <2>1, <2>2, ConcatAssociative
  <2> QED BY <2>2, <2>3
<1> QED BY <1>2, <1>4, <1>5, <1>6

\* When the monitor returns from a call, and what record it puts out.
LEMMA RecordMoves ==
  ASSUME SInv, [Next]_vars, NEW n, n = call[Monitor]
  PROVE  \/ UNCHANGED <<file, wlist, user>> /\ call'[Monitor] = n
         \/ /\ call'[Monitor] = n + 1 /\ n \in 1..Len(prog') /\ n \in Nat
            /\ \/ /\ UNCHANGED <<file, wlist>> /\ ~ Recorded(n)' /\ prog'[n].op # "flush"
                  /\ \/ user' = user
                     \/ FinishWrite /\ user' = [call |-> n, data |-> gbuf]
               \/ /\ Recorded(n)' /\ prog'[n].op # "flush" /\ user' = user
                  /\ \E data : /\ Output([call |-> n, data |-> data])
                               /\ prog'[n].op = "write" => FinishWrite /\ data = gbuf
               \/ /\ ~ Recorded(n)' /\ user' = user /\ wlist' = <<>>
                  /\ file' = IF BufferOutput THEN file \o wlist ELSE file
<1>1. /\ Monitor \in Proc /\ DOMAIN call = Proc /\ n \in Nat
      /\ pc[Monitor] # "model" => n \in 1..Len(prog)
  BY Numbers, CallTypes DEF SInv, TypeOK
<1>2. CASE UNCHANGED vars
  BY <1>2 DEF vars
<1>3. ASSUME NEW p \in Worker, WorkerSteps(p)
      PROVE  UNCHANGED <<file, wlist, user>> /\ call'[Monitor] = n
  <2>1. Monitor # p
    BY Numbers
  <2> QED BY <1>1, <1>3, <2>1, WorkerFrame
<1>4. CASE CallRead(Monitor) \/ CallWrite(Monitor)
  BY <1>4 DEF CallRead, CallWrite
<1>5. CASE WriteHeader(Monitor)
  <2>1. PICK c \in Calls :
          /\ c.op = "header" /\ Makes(Monitor, c) /\ Output([call |-> n, data |-> <<>>])
          /\ Returns(Monitor) /\ user' = user
    BY <1>5 DEF WriteHeader
  <2>2. prog'[n] = c /\ n \in 1..Len(prog')
    BY <1>1, <2>1, OthersStay
  <2>3. call'[Monitor] = n + 1
    BY <1>1, <2>1 DEF Returns
  <2>4. Recorded(n)' /\ prog'[n].op # "flush" /\ prog'[n].op # "write"
    BY <2>1, <2>2 DEF Recorded
  <2> QED BY <1>1, <2>1, <2>2, <2>3, <2>4
<1>6. CASE Flush(Monitor)
  <2>1. PICK c \in Calls :
          /\ c.op = "flush" /\ Makes(Monitor, c) /\ wlist' = <<>>
          /\ file' = IF BufferOutput THEN file \o wlist ELSE file
          /\ Returns(Monitor) /\ user' = user
    BY <1>6 DEF Flush
  <2>2. prog'[n] = c /\ n \in 1..Len(prog')
    BY <1>1, <2>1, OthersStay
  <2>3. call'[Monitor] = n + 1
    BY <1>1, <2>1 DEF Returns
  <2>4. ~ Recorded(n)'
    BY <2>1, <2>2 DEF Recorded
  <2> QED BY <1>1, <2>1, <2>2, <2>3, <2>4
<1>7. CASE FinishRead
  <2>1. /\ pc[Monitor] = "loop" /\ call'[Monitor] = n + 1 /\ prog'[n].op = "read"
        /\ prog' = prog /\ UNCHANGED <<file, wlist, user>>
    BY <1>1, <1>7 DEF FinishRead, Returns, Now
  <2>2. ~ Recorded(n)' /\ prog'[n].op # "flush"
    BY <2>1 DEF Recorded
  <2> QED BY <1>1, <2>1, <2>2
<1>8. CASE FinishWrite
  <2>1. /\ pc[Monitor] = "loop" /\ call'[Monitor] = n + 1 /\ prog'[n].op = "write"
        /\ prog' = prog /\ prog'[n] = Now(Monitor)
    BY <1>1, <1>8 DEF FinishWrite, Returns, Now
  <2>2. Recorded(n)' <=> ~ Now(Monitor).internal
    BY <2>1 DEF Recorded
  <2>3. CASE Now(Monitor).internal
    <3>1. user' = [call |-> n, data |-> gbuf] /\ UNCHANGED <<file, wlist>>
      BY <1>8, <2>3 DEF FinishWrite
    <3> QED BY <1>1, <1>8, <2>1, <2>2, <2>3, <3>1
  <2>4. CASE ~ Now(Monitor).internal
    <3>1. Output([call |-> n, data |-> gbuf]) /\ user' = user
      BY <1>8, <2>4 DEF FinishWrite
    <3> QED BY <1>1, <1>8, <2>1, <2>2, <2>4, <3>1
  <2> QED BY <2>3, <2>4
<1>9. CASE OwnShare \/ SendResp \/ SendShare \/ OwnPart \/ SendGo \/ Collect
  BY <1>9 DEF OwnShare, SendResp, SendShare, OwnPart, SendGo, Collect
<1>10. CASE SendReturns(Monitor)
  <2>1. pc[Monitor] # "sending"
    BY DEF SInv, PlacesInv
  <2> QED BY <1>10, <2>1 DEF SendReturns
<1> QED
  BY <1>2, <1>3, <1>4, <1>5, <1>6, <1>7, <1>8, <1>9, <1>10, StepCases
  DEF MonitorSteps, CallAny, MonitorStep

LEMMA RecordsInit == Init => RecordsInv
<1> SUFFICES ASSUME Init
             PROVE  RecordsInv
  OBVIOUS
<1>1. file = <<>> /\ wlist = <<>> /\ user = <<>> /\ call[Monitor] = 1
  BY Numbers DEF Init
<1>2. IsSeq(<<>>)
  BY SeqIsSeq, EmptySeq
<1>3. Range(<<>>) = {} /\ <<>> \o <<>> = <<>>
  BY <1>2, RangeFacts, JoinFacts
<1>4. {k \in 1..(call[Monitor] - 1) : Recorded(k)} = {}
  BY <1>1
<1>5. RecordsInOrder
  BY <1>1, <1>3, <1>4 DEF RecordsInOrder
<1> QED BY <1>1, <1>2, <1>3, <1>5 DEF RecordsInv

LEMMA RecordsNext ==
  ASSUME SInv, RecordsInv, [Next]_vars
  PROVE  RecordsInv'
<1>0. PICK n, rs : n = call[Monitor] /\ rs = file \o wlist
  OBVIOUS
<1>1. /\ n \in Nat /\ n \in 1..(Len(prog) + 1) /\ Len(prog) \in Nat
      /\ IsSeq(file) /\ IsSeq(wlist)
      /\ \A r \in Range(file) \union Range(wlist) : r.call \in 1..(n - 1)
      /\ user # <<>> => user.call \in 1..(n - 1)
      /\ {r.call : r \in Range(rs)} = {k \in 1..(n - 1) : Recorded(k)}
      /\ \A x, y \in DOMAIN rs : x < y => rs[x].call < rs[y].call
      /\ \A r \in Range(wlist) :
           /\ BufferOutput
           /\ \A k \in r.call..(n - 1) : prog[k].op # "flush"
  BY <1>0, Numbers, CallTypes DEF RecordsInv, RecordsInOrder
<1>2. /\ IsSeq(rs) /\ Range(rs) = Range(file) \union Range(wlist)
      /\ file \o <<>> = file /\ \A r : file \o Append(wlist, r) = Append(rs, r)
      /\ wlist = <<>> <=> Range(wlist) = {}
  <2>1. /\ IsSeq(file \o wlist) /\ Range(file \o wlist) = Range(file) \union Range(wlist)
        /\ file \o <<>> = file
        /\ \A r : file \o Append(wlist, r) = Append(file \o wlist, r)
    BY <1>1, JoinFacts
  <2>2. wlist = <<>> <=> Range(wlist) = {}
    BY <1>1, RangeFacts
  <2> QED BY <1>0, <2>1, <2>2
<1>3. /\ \A k \in 1..(n - 1) : prog'[k] = prog[k] /\ (Recorded(k)' <=> Recorded(k))
      /\ BufferOutput' = BufferOutput
  <2>1. \A k \in 1..(n - 1) : k \in 1..Len(prog)
    BY <1>1
  <2>2. \A k \in 1..(n - 1) : prog'[k] = prog[k]
    BY <2>1, ProgramKept
  <2> QED BY <2>2, ProgramKept DEF Recorded, BufferOutput
<1>4. \A r \in Range(wlist) : \A k \in r.call..(n - 1) : prog'[k].op # "flush"
  <2> SUFFICES ASSUME NEW r \in Range(wlist), NEW k \in r.call..(n - 1)
               PROVE  prog'[k].op # "flush"
    OBVIOUS
  <2>1. r.call \in 1..(n - 1)
    BY <1>1
  <2>2. k \in 1..(n - 1)
    BY <1>1, <2>1
  <2> QED BY <1>1, <1>3, <2>2
<1>5. IsSeq(<<>>) /\ Range(<<>>) = {}
  <2>1. IsSeq(<<>>)
    BY SeqIsSeq, EmptySeq
  <2> QED BY <2>1, RangeFacts
<1>6. CASE UNCHANGED <<file, wlist, user>> /\ call'[Monitor] = n
  <2>1. RecordsInOrder'
    BY <1>0, <1>1, <1>3, <1>4, <1>6 DEF RecordsInOrder
  <2> QED BY <1>1, <1>6, <2>1 DEF RecordsInv
<1>7. ASSUME call'[Monitor] = n + 1, n \in 1..Len(prog')
      PROVE  /\ \A r \in Range(file) \union Range(wlist) : r.call \in 1..(call'[Monitor] - 1)
             /\ n \in 1..(call'[Monitor] - 1) /\ call'[Monitor] - 1 = n
             /\ user # <<>> => user.call \in 1..(call'[Monitor] - 1)
             /\ \A k : k \in 1..n <=> k \in 1..(n - 1) \/ k = n
             /\ ~ Recorded(n)' => {k \in 1..n : Recorded(k)'} = {k \in 1..(n - 1) : Recorded(k)}
             /\ Recorded(n)' => {k \in 1..n : Recorded(k)'} = {k \in 1..(n - 1) : Recorded(k)} \union {n}
  <2>1. \A k : k \in 1..n <=> k \in 1..(n - 1) \/ k = n
    BY <1>1, <1>7
  <2>2. ~ Recorded(n)' => {k \in 1..n : Recorded(k)'} = {k \in 1..(n - 1) : Recorded(k)}
    BY <1>3, <2>1
  <2>3. Recorded(n)' => {k \in 1..n : Recorded(k)'} = {k \in 1..(n - 1) : Recorded(k)} \union {n}
    BY <1>3, <2>1
  <2>4. call'[Monitor] - 1 = n
    BY <1>1, <1>7
  <2> QED BY <1>1, <2>1, <2>2, <2>3, <2>4
\* Nothing is put out.
<1>8. CASE /\ call'[Monitor] = n + 1 /\ n \in 1..Len(prog')
           /\ UNCHANGED <<file, wlist>> /\ ~ Recorded(n)' /\ prog'[n].op # "flush"
           /\ user' = user \/ user' = [call |-> n, data |-> gbuf]
  <2>1. \A r \in Range(wlist) : \A k \in r.call..n : prog'[k].op # "flush"
    BY <1>1, <1>4, <1>8
  <2>2. RecordsInOrder'
    BY <1>0, <1>1, <1>3, <1>7, <1>8, <2>1 DEF RecordsInOrder
  <2>3. user' # <<>> => user'.call \in 1..(call'[Monitor] - 1)
    BY <1>7, <1>8
  <2> QED BY <1>1, <1>7, <1>8, <2>2, <2>3 DEF RecordsInv
\* A record is put out, or kept back.
<1>9. ASSUME NEW data, Output([call |-> n, data |-> data]), Recorded(n)', user' = user,
             call'[Monitor] = n + 1, n \in 1..Len(prog'), prog'[n].op # "flush"
      PROVE  RecordsInv'
  <2>1. PICK r : r = [call |-> n, data |-> data] /\ r.call = n
    <3>1. [call |-> n, data |-> data].call = n
      OBVIOUS
    <3> QED BY <3>1
  <2>2. /\ (file \o wlist)' = Append(rs, r) /\ IsSeq(file') /\ IsSeq(wlist')
        /\ Range(file') \union Range(wlist') = Range(file) \union Range(wlist) \union {r}
        /\ Range(wlist') \subseteq Range(wlist) \union {r} /\ Range(wlist) \subseteq Range(wlist')
        /\ Range(wlist') # {} => BufferOutput
    <3>1. CASE BufferOutput
      <4>1. wlist' = Append(wlist, r) /\ file' = file
        BY <1>9, <2>1, <3>1 DEF Output
      <4>2. IsSeq(Append(wlist, r)) /\ Range(Append(wlist, r)) = Range(wlist) \union {r}
        BY <1>1, AppendFacts, RangeFacts
      <4> QED BY <1>1, <1>2, <3>1, <4>1, <4>2
    <3>2. CASE ~ BufferOutput
      <4>1. file' = Append(file, r) /\ wlist' = wlist /\ wlist = <<>>
        BY <1>1, <1>2, <1>9, <2>1, <3>2 DEF Output
      <4>2. IsSeq(Append(file, r)) /\ Range(Append(file, r)) = Range(file) \union {r}
        BY <1>1, AppendFacts, RangeFacts
      <4>3. rs = file /\ (file \o wlist)' = Append(file, r)
        <5>1. Append(file, r) \o <<>> = Append(file, r)
          BY <1>5, <4>2, JoinFacts
        <5> QED BY <1>0, <1>2, <4>1, <5>1
      <4> QED BY <1>1, <1>5, <4>1, <4>2, <4>3
    <3> QED BY <3>1, <3>2
  <2>3. /\ DOMAIN Append(rs, r) = 1..(Len(rs) + 1) /\ DOMAIN rs = 1..Len(rs) /\ Len(rs) \in Nat
        /\ \A x \in 1..Len(rs) : Append(rs, r)[x] = rs[x]
        /\ Append(rs, r)[Len(rs) + 1] = r
        /\ Range(Append(rs, r)) = Range(rs) \union {r}
    BY <1>2, AppendFacts, IsSeqFacts, RangeFacts
  <2>4. {t.call : t \in Range(Append(rs, r))} = {k \in 1..(call'[Monitor] - 1) : Recorded(k)'}
    <3>1. {t.call : t \in Range(Append(rs, r))} = {t.call : t \in Range(rs)} \union {n}
      BY <2>1, <2>3
    <3> QED BY <1>1, <1>7, <1>9, <3>1
  <2>5. \A x, y \in DOMAIN Append(rs, r) :
          x < y => Append(rs, r)[x].call < Append(rs, r)[y].call
    <3> SUFFICES ASSUME NEW x \in DOMAIN Append(rs, r), NEW y \in DOMAIN Append(rs, r), x < y
                 PROVE  Append(rs, r)[x].call < Append(rs, r)[y].call
      OBVIOUS
    <3>1. x \in DOMAIN rs /\ Append(rs, r)[x] = rs[x]
      BY <2>3
    <3>2. CASE y \in DOMAIN rs
      BY <1>1, <2>3, <3>1, <3>2
    <3>3. CASE y \notin DOMAIN rs
      <4>1. Append(rs, r)[y] = r
        BY <2>3, <3>3
      <4>2. rs[x] \in Range(rs)
        BY <3>1 DEF Range
      <4>3. rs[x].call \in 1..(n - 1)
        BY <1>1, <1>2, <4>2
      <4> QED BY <1>1, <2>1, <3>1, <4>1, <4>3
    <3> QED BY <3>2, <3>3
  <2>6. \A t \in Range(wlist') : \A k \in t.call..(call'[Monitor] - 1) : prog'[k].op # "flush"
    <3> SUFFICES ASSUME NEW t \in Range(wlist'), NEW k \in t.call..(call'[Monitor] - 1)
                 PROVE  prog'[k].op # "flush"
      OBVIOUS
    <3>1. CASE t \in Range(wlist)
      <4>1. t.call \in 1..(n - 1)
        BY <1>1, <3>1
      <4>2. k = n \/ k \in t.call..(n - 1)
        BY <1>1, <1>7, <1>9, <4>1
      <4> QED BY <1>4, <1>9, <3>1, <4>2
    <3>2. CASE t = r
      <4>1. k = n
        BY <1>1, <1>7, <1>9, <2>1, <3>2
      <4> QED BY <1>9, <4>1
    <3> QED BY <2>2, <3>1, <3>2
  <2>7. \A t \in Range(file') \union Range(wlist') : t.call \in 1..(call'[Monitor] - 1)
    BY <1>7, <1>9, <2>1, <2>2
  <2>8. RecordsInOrder'
    BY <1>3, <2>2, <2>4, <2>5, <2>6 DEF RecordsInOrder
  <2>9. user' # <<>> => user'.call \in 1..(call'[Monitor] - 1)
    BY <1>7, <1>9
  <2> QED BY <2>2, <2>7, <2>8, <2>9 DEF RecordsInv
\* The list is flushed.
<1>10. CASE /\ call'[Monitor] = n + 1 /\ n \in 1..Len(prog')
            /\ ~ Recorded(n)' /\ user' = user /\ wlist' = <<>>
            /\ file' = IF BufferOutput THEN file \o wlist ELSE file
  <2>1. file' = rs
    <3>1. ~ BufferOutput => wlist = <<>>
      BY <1>1, <1>2
    <3> QED BY <1>0, <1>2, <1>10, <3>1
  <2>2. (file \o wlist)' = rs
    <3>1. rs \o <<>> = rs
      BY <1>2, <1>5, JoinFacts
    <3> QED BY <1>10, <2>1, <3>1
  <2>3. RecordsInOrder'
    BY <1>1, <1>5, <1>7, <1>10, <2>2 DEF RecordsInOrder
  <2>4. \A t \in Range(file') \union Range(wlist') : t.call \in 1..(call'[Monitor] - 1)
    BY <1>2, <1>5, <1>7, <1>10, <2>1
  <2>5. user' # <<>> => user'.call \in 1..(call'[Monitor] - 1)
    BY <1>7, <1>10
  <2> QED BY <1>2, <1>5, <1>10, <2>1, <2>3, <2>4, <2>5 DEF RecordsInv
<1> QED BY <1>0, <1>6, <1>8, <1>9, <1>10, RecordMoves

-------------------------------------------------------------------------------
(* A record is whole when it leaves the monitor *)

LEMMA WholeAtLast ==
  ASSUME SInv, GatheredInv, FinishWrite, NEW n, n = call[Monitor]
  PROVE  gbuf = Whole(prog[n], n)
<1>1. /\ pc[Monitor] = "loop" /\ loopP = NProc /\ Now(Monitor).op = "write" /\ Now(Monitor) = prog[n]
      /\ prog[n] \in Calls /\ setup \in Setups
  <2>1. Monitor \in Proc
    BY Numbers
  <2>2. pc[Monitor] = "loop" /\ loopP = NProc /\ Now(Monitor).op = "write" /\ Now(Monitor) = prog[n]
    BY DEF FinishWrite, Now
  <2>3. n \in 1..Len(prog)
    BY <2>1, <2>2, CallTypes
  <2> QED BY <2>2, <2>3 DEF SInv, TypeOK
<1>2. PICK c : c = prog[n]
  OBVIOUS
<1>3. /\ gbuf = [cell \in Cells(c) |-> gbuf[cell]]
      /\ \A cell \in Cells(c) : Owner[<<cell[1], cell[2]>>] < NProc => gbuf[cell] = Elem(cell, n)
  BY <1>1, <1>2 DEF GatheredInv
<1>4. \A cell \in Cells(c) : Owner[<<cell[1], cell[2]>>] < NProc
  <2>1. \A cell \in Cells(c) : Owner[<<cell[1], cell[2]>>] \in Proc
    BY <1>1, <1>2, CellsFacts
  <2>2. \A p \in Proc : p < NProc
    BY Numbers DEF Proc
  <2> QED BY <2>1, <2>2
<1> QED BY <1>2, <1>3, <1>4 DEF Whole

LEMMA WholeNext ==
  ASSUME SInv, RecordsInv, GatheredInv, RecordsWhole, [Next]_vars
  PROVE  RecordsWhole'
<1> DEFINE Fine(r) == prog'[r.call].op = "write" => r.data = Whole(prog'[r.call], r.call)
<1>0. PICK n : n = call[Monitor]
  OBVIOUS
<1>1. /\ n \in Nat /\ n \in 1..(Len(prog) + 1) /\ Len(prog) \in Nat
      /\ IsSeq(file) /\ IsSeq(wlist) /\ IsSeq(<<>>)
      /\ \A r \in Range(file) \union Range(wlist) : r.call \in 1..(n - 1)
      /\ user # <<>> => user.call \in 1..(n - 1)
  <2>1. IsSeq(<<>>)
    BY SeqIsSeq, EmptySeq
  <2> QED BY <1>0, <2>1, Numbers, CallTypes DEF RecordsInv
\* The records that were there before.
<1>2. ASSUME NEW r, r.call \in 1..(n - 1),
             prog[r.call].op = "write" => r.data = Whole(prog[r.call], r.call)
      PROVE  Fine(r)
  <2>1. r.call \in 1..Len(prog)
    BY <1>1, <1>2
  <2>2. prog'[r.call] = prog[r.call]
    BY <2>1, ProgramKept
  <2> QED BY <1>2, <2>2
<1>3. /\ \A r \in Range(file) \union Range(wlist) : Fine(r)
      /\ user # <<>> => Fine(user)
  <2> HIDE DEF Fine
  <2>1. ASSUME NEW r \in Range(file) \union Range(wlist)
        PROVE  Fine(r)
    BY <1>1, <1>2 DEF RecordsWhole
  <2>2. ASSUME user # <<>>
        PROVE  Fine(user)
    BY <1>1, <1>2, <2>2 DEF RecordsWhole
  <2> QED BY <2>1, <2>2
\* The one that leaves the monitor.
<1>4. ASSUME FinishWrite
      PROVE  Fine([call |-> n, data |-> gbuf])
  <2>1. gbuf = Whole(prog[n], n)
    BY <1>0, <1>4, WholeAtLast
  <2>2. prog' = prog
    BY <1>4 DEF FinishWrite
  <2> QED BY <2>1, <2>2
<1>5. SUFFICES /\ \A r \in Range(file)' \union Range(wlist)' : Fine(r)
               /\ user' # <<>> => Fine(user')
  BY DEF RecordsWhole
<1>6. CASE UNCHANGED <<file, wlist, user>>
  BY <1>3, <1>6
<1>7. CASE UNCHANGED <<file, wlist>> /\ FinishWrite /\ user' = [call |-> n, data |-> gbuf]
  BY <1>3, <1>4, <1>7
<1>8. ASSUME NEW data, Output([call |-> n, data |-> data]), user' = user,
             prog'[n].op = "write" => FinishWrite /\ data = gbuf
      PROVE  /\ \A r \in Range(file)' \union Range(wlist)' : Fine(r)
             /\ user' # <<>> => Fine(user')
  <2>1. PICK r : r = [call |-> n, data |-> data]
    OBVIOUS
  <2>2. Fine(r)
    <3>1. CASE prog'[n].op = "write"
      BY <1>4, <1>8, <2>1, <3>1
    <3>2. CASE prog'[n].op # "write"
      <4>1. r.call = n
        BY <2>1
      <4> QED BY <3>2, <4>1
    <3> QED BY <3>1, <3>2
  <2>3. /\ Range(Append(file, r)) = Range(file) \union {r}
        /\ Range(Append(wlist, r)) = Range(wlist) \union {r}
    BY <1>1, RangeFacts
  <2>4. \/ wlist' = Append(wlist, r) /\ file' = file
        \/ file' = Append(file, r) /\ wlist' = wlist
    BY <1>8, <2>1 DEF Output
  <2>5. Range(file') \union Range(wlist') = Range(file) \union Range(wlist) \union {r}
    BY <2>3, <2>4
  <2> HIDE DEF Fine
  <2> QED BY <1>3, <1>8, <2>2, <2>5
<1>9. CASE user' = user /\ wlist' = <<>> /\ file' \in {file, file \o wlist}
  <2>1. Range(file \o wlist) = Range(file) \union Range(wlist)
    BY <1>1, JoinFacts
  <2>2. Range(<<>>) = {}
    BY <1>1, RangeFacts
  <2>3. Range(file') \union Range(wlist') \subseteq Range(file) \union Range(wlist)
    BY <1>9, <2>1, <2>2
  <2> HIDE DEF Fine
  <2> QED BY <1>3, <1>9, <2>3
<1> HIDE DEF Fine
<1> QED BY <1>0, <1>6, <1>7, <1>8, <1>9, RecordMoves

-------------------------------------------------------------------------------
(* What a processor has when its RSL_READ returns *)

LEMMA ShareUnpacked ==
  ASSUME SInv, NEW p \in Proc, NEW n \in 1..Len(prog), NEW c, c = prog[n], c.op = "read",
         NEW memory, DOMAIN memory = Own(p, AllCells), NEW cell \in Own(p, Cells(c))
  PROVE  Unpacked(memory, ShareOrder(c, p), Share(p, n))[cell] = Elem(cell, n)
<1>1. c \in Calls /\ setup \in Setups
  BY DEF SInv, TypeOK
<1>2. PICK order, elems : order = ShareOrder(c, p) /\ elems = Share(p, n)
  OBVIOUS
<1>3. cell \in Own(p, Padded(c)) /\ cell \in DOMAIN memory /\ cell \in Cells(c) /\ cell \in Padded(c)
  BY <1>1, CellsFacts DEF Own
<1>4. Lists(order, Own(p, Padded(c)))
  BY <1>1, <1>2, OrdersList
<1>5. PICK x \in DOMAIN order : order[x] = cell /\ Unpacked(memory, order, elems)[cell] = elems[x]
  <2>1. PICK cells : cells = Own(p, Padded(c))
    OBVIOUS
  <2>2. Lists(order, cells) /\ cell \in cells /\ cell \in DOMAIN memory
    BY <1>3, <1>4, <2>1
  <2> QED BY <2>2, UnpackedFacts
<1>6. elems = [y \in DOMAIN order |-> ReadRecord(n)[order[y]]]
  BY <1>2 DEF Share, Packed
<1>7. elems[x] = ReadRecord(n)[cell]
  BY <1>5, <1>6
<1>8. ReadRecord(n)[cell] = Elem(cell, n)
  BY <1>3 DEF ReadRecord
<1> QED BY <1>2, <1>5, <1>7, <1>8

LEMMA DistributedNext ==
  ASSUME SInv, NetInv, BodiesInv, ServedInv, ReadsDistributed, [Next]_vars
  PROVE  ReadsDistributed'
<1> SUFFICES ASSUME NEW q \in Proc, pc'[q] = "model", call'[q] > 1,
                    NEW c, c = prog'[call'[q] - 1], c.op = "read",
                    NEW cell \in Own(q, Cells(c))'
             PROVE  field'[q][cell] = Elem(cell, call'[q] - 1)
  BY DEF ReadsDistributed
<1>0. PICK n : n = call[q]
  OBVIOUS
<1>1. /\ n \in Nat /\ n \in 1..(Len(prog) + 1) /\ Len(prog) \in Nat
      /\ pc[q] # "model" => n \in 1..Len(prog)
      /\ DOMAIN pc = Proc /\ DOMAIN call = Proc /\ DOMAIN field = Proc
      /\ DOMAIN field[q] = Own(q, AllCells) /\ cell \in Own(q, Cells(c))
  <2>1. cell \in Own(q, Cells(c))
    BY ProgramKept DEF Own, Owner
  <2> QED BY <1>0, <2>1, CallTypes DEF SInv, TypeOK, ShapesInv
<1>2. ASSUME pc'[q] = pc[q], call'[q] = call[q], field'[q] = field[q]
      PROVE  field'[q][cell] = Elem(cell, call'[q] - 1)
  <2>1. n - 1 \in 1..Len(prog) /\ call'[q] - 1 = n - 1
    BY <1>0, <1>1, <1>2
  <2>2. c = prog[n - 1]
    BY <2>1, ProgramKept
  <2> QED BY <1>0, <1>1, <1>2, <2>1, <2>2 DEF ReadsDistributed
\* A call returns: it is a read.
<1>3. ASSUME call'[q] = n + 1
      PROVE  call'[q] - 1 = n /\ c = prog'[n]
  BY <1>1, <1>3
<1>4. ASSUME call' = [call EXCEPT ![q] = @ + 1], n \in 1..Len(prog), prog' = prog,
             field'[q] = Unpacked(field[q], ShareOrder(prog[n], q), Share(q, n))
      PROVE  field'[q][cell] = Elem(cell, call'[q] - 1)
  <2>1. call'[q] - 1 = n /\ c = prog[n]
    BY <1>0, <1>1, <1>3, <1>4
  <2>2. PICK memory : memory = field[q]
    OBVIOUS
  <2>3. Unpacked(memory, ShareOrder(c, q), Share(q, n))[cell] = Elem(cell, n)
    BY <1>1, <1>4, <2>1, <2>2, ShareUnpacked
  <2> QED BY <1>4, <2>1, <2>2, <2>3
<1>5. CASE UNCHANGED vars
  BY <1>2, <1>5 DEF vars
<1>6. CASE \E p \in Proc : p # q /\ (p = Monitor => MonitorSteps) /\ (p # Monitor => WorkerSteps(p))
  <2>1. PICK p \in Proc : p # q /\ (p = Monitor => MonitorSteps) /\ (p # Monitor => WorkerSteps(p))
    BY <1>6
  <2>2. /\ p # Monitor => p \in Worker
        /\ q # Monitor => q \in Worker
    BY Numbers
  <2>3. pc'[q] = pc[q] /\ call'[q] = call[q] /\ field'[q] = field[q]
    BY <2>1, <2>2, WorkerFrame, MonitorFrame
  <2> QED BY <1>2, <2>3
<1>7. CASE CallRead(q) \/ CallWrite(q)
  <2>1. pc'[q] # "model"
    <3>1. CASE CallRead(q)
      BY <1>1, <3>1 DEF CallRead, Goes
    <3>2. CASE CallWrite(q)
      BY <1>1, <3>2 DEF CallWrite, Goes
    <3> QED BY <1>7, <3>1, <3>2
  <2> QED BY <2>1
<1>8. CASE WriteHeader(q) \/ Flush(q)
  <2>1. PICK d \in Calls : d.op \in {"header", "flush"} /\ Makes(q, d) /\ Returns(q)
    BY <1>8 DEF WriteHeader, Flush
  <2>2. prog'[n] = d /\ call'[q] = n + 1
    BY <1>0, <1>1, <2>1, OthersStay DEF Returns
  <2> QED BY <1>3, <2>1, <2>2
<1>9. CASE SendReturns(q)
  <2>1. CASE pc[q] = "sending"
    <3>1. q \in Worker
      BY <2>1, Numbers DEF SInv, PlacesInv
    <3>2. prog[n].op = "write" /\ prog' = prog /\ call'[q] = n + 1
      BY <1>0, <1>1, <1>9, <2>1, <3>1 DEF SendReturns, Returns, SInv, PlacesInv, Now
    <3> QED BY <1>3, <3>2
  <2>2. CASE pc[q] # "sending"
    BY <1>1, <1>9, <2>2 DEF SendReturns, Goes
  <2> QED BY <2>1, <2>2
<1>10. CASE q # Monitor /\ WorkerStep(q)
  <2>0. q \in Worker
    BY <1>10, Numbers
  <2>1. CASE RecvShare(q)
    <3>1. PICK m : m = Received(Monitor, q, "read")
      OBVIOUS
    <3>2. /\ pc[q] = "share" /\ Ready(Monitor, q, "read") /\ prog' = prog
          /\ call' = [call EXCEPT ![q] = @ + 1]
          /\ field'[q] = Unpacked(field[q], ShareOrder(prog[n], q), m.body)
      BY <1>0, <1>1, <2>1, <3>1 DEF RecvShare, Take, Returns, Now
    <3>3. \E x \in DOMAIN net[Monitor][q] : m = net[Monitor][q][x] /\ Key(m) = <<n, "data">>
      <4>1. PICK part, kind : part = "data" /\ kind = "read"
        OBVIOUS
      <4>2. /\ FirstOf(Monitor, q, kind) \in DOMAIN net[Monitor][q]
            /\ Received(Monitor, q, kind) = net[Monitor][q][FirstOf(Monitor, q, kind)]
            /\ Key(Received(Monitor, q, kind)) = <<call[q], part>>
        <5>1. kind = IF part = "go" THEN "write" ELSE "read"
          BY <4>1
        <5>2. Ready(Monitor, q, kind)
          BY <3>2, <4>1
        <5> QED BY <2>0, <3>2, <4>1, <5>1, <5>2, ReceivesItsPart
      <4> QED BY <1>0, <3>1, <4>1, <4>2
    <3>4. m.body = Share(q, n)
      <4>1. ToWorker(q, m) /\ m.call = n /\ m.what = "data"
        BY <2>0, <3>3 DEF BodiesInv, Key
      <4> QED BY <4>1 DEF ToWorker
    <3>5. n \in 1..Len(prog)
      BY <1>1, <3>2
    <3> QED BY <1>4, <3>2, <3>4, <3>5
  <2>2. CASE RecvResp(q) \/ RecvGo(q) \/ SendPacked(q)
    BY <1>1, <2>2 DEF RecvResp, RecvGo, SendPacked, Goes
  <2> QED BY <1>10, <2>1, <2>2 DEF WorkerStep
<1>11. CASE q = Monitor /\ MonitorStep
  <2>1. CASE FinishRead
    <3>1. /\ pc[q] = "loop" /\ loopP = NProc /\ Now(Monitor).op = "read" /\ prog' = prog
          /\ call' = [call EXCEPT ![q] = @ + 1]
          /\ field'[q] = Unpacked(field[q], ShareOrder(prog[n], q), pbuf[Monitor])
      BY <1>0, <1>1, <1>11, <2>1 DEF FinishRead, Returns, Now
    <3>2. pbuf[Monitor] = Share(Monitor, call[Monitor])
      BY <1>11, <3>1, Numbers DEF ServedInv
    <3>3. n \in 1..Len(prog)
      BY <1>1, <3>1
    <3> QED BY <1>0, <1>4, <1>11, <3>1, <3>2, <3>3
  <2>2. CASE FinishWrite
    <3>1. prog[n].op = "write" /\ prog' = prog /\ call'[q] = n + 1
      BY <1>0, <1>1, <1>11, <2>2 DEF FinishWrite, Returns, Now
    <3> QED BY <1>3, <3>1
  <2>3. CASE OwnShare \/ SendResp \/ SendShare \/ OwnPart \/ SendGo \/ Collect
    BY <1>1, <1>11, <2>3 DEF OwnShare, SendResp, SendShare, OwnPart, SendGo, Collect, InLoop, Goes
  <2> QED BY <1>11, <2>1, <2>2, <2>3 DEF MonitorStep
<1>12. CASE q = Monitor /\ WorkerStep(q)
  BY <1>12 DEF WorkerStep, RecvResp, RecvShare, RecvGo, SendPacked
<1>13. ASSUME \/ CallAny(q) \/ SendReturns(q) \/ WorkerStep(q)
              \/ q = Monitor /\ MonitorStep
       PROVE  field'[q][cell] = Elem(cell, call'[q] - 1)
  BY <1>7, <1>8, <1>9, <1>10, <1>11, <1>12, <1>13 DEF CallAny
<1>14. CASE MonitorSteps
  <2>1. CASE q = Monitor
    BY <1>13, <1>14, <2>1 DEF MonitorSteps
  <2>2. CASE q # Monitor
    BY <1>6, <1>14, <2>2, Numbers
  <2> QED BY <2>1, <2>2
<1>15. ASSUME NEW p \in Worker, WorkerSteps(p)
       PROVE  field'[q][cell] = Elem(cell, call'[q] - 1)
  <2>1. p \in Proc /\ p # Monitor
    BY Numbers
  <2>2. CASE p = q
    BY <1>13, <1>15, <2>1, <2>2 DEF WorkerSteps
  <2>3. CASE p # q
    BY <1>6, <1>15, <2>1, <2>3
  <2> QED BY <2>2, <2>3
<1> QED BY <1>5, <1>14, <1>15, StepCases

-------------------------------------------------------------------------------

LEMMA ContentsInit ==
  Init => BodiesInv /\ PackedInv /\ ServedInv /\ GatheredInv /\ RecordsWhole /\ ReadsDistributed
<1> SUFFICES ASSUME Init
             PROVE  BodiesInv /\ PackedInv /\ ServedInv /\ GatheredInv /\ RecordsWhole /\ ReadsDistributed
  OBVIOUS
<1>1. /\ \A p \in Proc : pc[p] = "model" /\ call[p] = 1
      /\ \A p, q \in Proc : net[p][q] = <<>>
      /\ file = <<>> /\ wlist = <<>> /\ user = <<>> /\ Monitor \in Proc
      /\ \A p \in Worker : p \in Proc
  BY Numbers DEF Init
<1>2. Range(<<>>) = {}
  <2>1. IsSeq(<<>>)
    BY SeqIsSeq, EmptySeq
  <2> QED BY <2>1, RangeFacts
<1>3. BodiesInv
  BY <1>1 DEF BodiesInv
<1>4. PackedInv /\ ServedInv /\ GatheredInv
  BY <1>1 DEF PackedInv, ServedInv, GatheredInv
<1>5. RecordsWhole
  BY <1>1, <1>2 DEF RecordsWhole
<1>6. ReadsDistributed
  BY <1>1 DEF ReadsDistributed
<1> QED BY <1>3, <1>4, <1>5, <1>6

\* All that does not depend on how RSL_WRITE packs.
AllInv ==
  SInv /\ NetInv /\ BodiesInv /\ PackedInv /\ ServedInv /\ RecordsInv /\ ReadsDistributed

LEMMA Invariant == Spec => []AllInv
<1>1. Init => AllInv
  BY StructureInit, NetInit, RecordsInit, ContentsInit DEF AllInv
<1>2. AllInv /\ [Next]_vars => AllInv'
  <2> SUFFICES ASSUME AllInv, [Next]_vars
               PROVE  AllInv'
    OBVIOUS
  <2> USE DEF AllInv
  <2>1. SInv'
    BY StructureNext
  <2>2. NetInv'
    BY NetNext
  <2>3. BodiesInv' /\ PackedInv' /\ ServedInv'
    BY BodiesNext, PackedNext, ServedNext
  <2>4. RecordsInv' /\ ReadsDistributed'
    BY RecordsNext, DistributedNext
  <2> QED BY <2>1, <2>2, <2>3, <2>4
<1> QED BY <1>1, <1>2, PTL DEF Spec

\* Throughout any number of reads, writes, headers and flushes, by any number
\* of processors, the variables keep their types.
THEOREM TypeCorrect == Spec => []TypeOK
<1>1. AllInv => TypeOK
  BY DEF AllInv, SInv
<1> QED BY <1>1, Invariant, PTL

\* A receive in RSL_READ or RSL_WRITE, which names a sender and a kind, gets the
\* message of its own call, the part of it that it waits for and as many elements
\* as it has room for, however far the processors have run ahead of each other.
THEOREM MessagesFindTheirCalls == Spec => []EachToItsCall
<1>1. AllInv => EachToItsCall
  BY ReceivesItsOwn DEF AllInv
<1> QED BY <1>1, Invariant, PTL

\* The unit has the record of every call that returned on the monitor, once and
\* in order, and the list of records kept back has those since the last flush.
THEOREM NoRecordLost == Spec => []RecordsInOrder
<1>1. AllInv => RecordsInOrder
  BY DEF AllInv, RecordsInv
<1> QED BY <1>1, Invariant, PTL

\* When RSL_READ returns on a processor, each of its points which the record has
\* holds the record's element.
THEOREM ReadersGetTheirPoints == Spec => []ReadsDistributed
<1>1. AllInv => ReadsDistributed
  BY DEF AllInv
<1> QED BY <1>1, Invariant, PTL

\* A record of RSL_WRITE has each element at the place of the point it is of,
\* unless the program writes a field of layout JIK with a regular decomposition,
\* which is packed in one order and unpacked in another.
THEOREM RecordsPutTogether == ASSUME LayoutsAgree PROVE Spec => []RecordsWhole
<1>1. Init => AllInv /\ GatheredInv /\ RecordsWhole
  BY StructureInit, NetInit, RecordsInit, ContentsInit DEF AllInv
<1>2. AllInv /\ GatheredInv /\ RecordsWhole /\ [Next]_vars => GatheredInv' /\ RecordsWhole'
  BY GatheredNext, WholeNext DEF AllInv
<1> QED BY <1>1, <1>2, Invariant, PTL DEF Spec
===============================================================================
