---------------------------- MODULE RslNestProofs ----------------------------
(***************************************************************************)
(* Proofs about RslNest, for any domains, decompositions, operations and   *)
(* number of them: type correctness, that the lists of senders and         *)
(* receivers kept from call to call are never stale, and that every        *)
(* transfer yields exactly what was packed for its receiver.               *)
(*                                                                         *)
(* The last needs the past: a processor may be several operations ahead of *)
(* another, whose domain_info is then that of other decompositions.  The   *)
(* plan is the same for all, so the processor of every point at every      *)
(* operation is determined by the cuts before it, and with it what each    *)
(* pair of processors says to each other in each transfer.  The invariant  *)
(* says that what is in flight is what was sent and not matched of that,   *)
(* and what a processor has staged, posted and taken is its part of it.    *)
(***************************************************************************)
EXTENDS RslNest, FiniteSetTheorems, TLAPS

-------------------------------------------------------------------------------
(* Operations and helpers *)

LEMMA TransferParts ==
  ASSUME NEW o \in Operation, o.kind # "cut"
  PROVE  o.kind \in Kind /\ o.nest \in Nest /\ <<o.kind, o.nest>> \in Lists
<1>1. o \in Transfer
  BY NestAssumption DEF Cut
<1> QED
  BY <1>1 DEF Transfer, Kind, Lists

LEMMA CutParts ==
  ASSUME NEW o \in Operation, o.kind = "cut"
  PROVE  o.dom \in Dom /\ o.P \in [Points(o.dom) -> Proc]
<1>1. o \in Cut
  BY NestAssumption DEF Transfer
<1> QED
  BY <1>1 DEF Cut

LEMMA CountsOfPoints ==
  ASSUME NEW S \in SUBSET Point
  PROVE  Cardinality(S) \in 0..Cardinality(Point)
BY NestAssumption, FS_Subset, FS_CardinalityType

LEMMA ListTypes ==
  ASSUME NEW g, NEW p \in Proc, NEW l \in Lists
  PROVE  RecvList(g, p, l) \in Counts /\ SendList(g, p, l) \in Counts
<1>1. \A q \in Proc :
        /\ {x \in Points(l[2]) : Target(g, l[1], x) = p /\ Source(g, l[1], x) = q}
             \in SUBSET Point
        /\ {x \in Points(l[2]) : Source(g, l[1], x) = p /\ Target(g, l[1], x) = q}
             \in SUBSET Point
  BY DEF Points
<1> QED
  BY <1>1, CountsOfPoints DEF RecvList, SendList, Counts

LEMMA SpawnedType == Spawned \in Info
<1>1. 0 \in 0..Cardinality(Point)
  BY NestAssumption, FS_CardinalityType
<1> QED
  BY <1>1, NestAssumption DEF Spawned, Info, Counts

-------------------------------------------------------------------------------
(* domain_info *)

LEMMA DecomposeType ==
  ASSUME NEW g \in Info, NEW d \in Dom, NEW cut \in [Points(d) -> Proc]
  PROVE  Decompose(g, d, cut) \in Info
BY NestAssumption DEF Decompose, Info, Points, NestPoint

LEMMA CompileType ==
  ASSUME NEW g \in Info, NEW p \in Proc, NEW l \in Lists
  PROVE  Compile(g, p, l) \in Info
BY ListTypes DEF Compile, Info

LEMMA LocalPointsType ==
  ASSUME NEW g, NEW p, NEW l \in Lists
  PROVE  LocalPoints(g, p, l) \in SUBSET NestPoint
BY DEF LocalPoints, Lists, Points, NestPoint

LEMMA ReadyType ==
  ASSUME NEW g \in Info, NEW p \in Proc, NEW l \in Lists
  PROVE  Ready(g, p, l) \in Info
<1> DEFINE c == IF l \in g.child_compiled \intersect g.parent_compiled
                THEN g ELSE Compile(g, p, l)
<1>1. c \in Info
  BY CompileType
<1>2. [c EXCEPT !.Xlist[l] = LocalPoints(c, p, l)] \in Info
  BY <1>1, LocalPointsType DEF Info
<1> QED
  BY <1>1, <1>2 DEF Ready

-------------------------------------------------------------------------------
(* Lists that are taken for current are *)

LEMMA SpawnedCurrent ==
  ASSUME NEW p \in Proc
  PROVE  ListsCurrent(Spawned, p)
BY NestAssumption DEF ListsCurrent, Spawned

\* A new decomposition leaves alone what the lists that keep their flags count.
LEMMA DecomposeCurrent ==
  ASSUME NEW g \in Info, NEW p \in Proc, NEW d \in Dom, NEW cut \in [Points(d) -> Proc],
         ListsCurrent(g, p)
  PROVE  ListsCurrent(Decompose(g, d, cut), p)
<1> DEFINE h == Decompose(g, d, cut)
<1>1. /\ h.child_compiled  = {l \in g.child_compiled : Parent[l[2]] # d}
      /\ h.parent_compiled = {l \in g.parent_compiled : l[2] # d}
      /\ h.send = g.send /\ h.recv = g.recv /\ h.Xlist = g.Xlist
  BY DEF Decompose, Info
<1>2. \A x \in Point : h.P[x] = IF Domain[x] = d THEN cut[x] ELSE g.P[x]
  BY DEF Decompose, Info
<1>3. \A x \in NestPoint :
        h.mother_P[x] = IF Domain[Mother[x]] = d THEN cut[Mother[x]]
                        ELSE IF Domain[x] = d THEN g.P[Mother[x]] ELSE g.mother_P[x]
  BY DEF Decompose, Info
<1>4. \A x \in NestPoint : x \in Point /\ Mother[x] \in Point
  BY NestAssumption DEF NestPoint
<1>5. \A x \in NestPoint : h.mother_P[x] = h.P[Mother[x]]
  BY <1>2, <1>3, <1>4 DEF ListsCurrent
<1> HIDE DEF h
<1>6. ASSUME NEW l \in h.child_compiled \intersect h.parent_compiled
      PROVE  /\ h.send[l] = SendList(h, p, l)
             /\ h.recv[l] = RecvList(h, p, l)
             /\ h.Xlist[l] \in {{}, LocalPoints(h, p, l)}
  <2>1. /\ l \in g.child_compiled \intersect g.parent_compiled /\ l \in Lists
        /\ Parent[l[2]] # d /\ l[2] # d
    BY <1>1, <1>6 DEF Info
  <2>2. \A x \in Points(l[2]) : x \in NestPoint /\ Domain[x] # d /\ Domain[Mother[x]] # d
    BY <2>1, NestAssumption DEF Points, NestPoint, Lists
  <2>3. \A x \in Points(l[2]) : /\ h.P[x] = g.P[x] /\ h.mother_P[x] = g.mother_P[x]
                                /\ h.P[Mother[x]] = g.P[Mother[x]]
    BY <2>2, <1>2, <1>3, <1>4
  <2>4. \A x \in Points(l[2]) : /\ Source(h, l[1], x) = Source(g, l[1], x)
                                /\ Target(h, l[1], x) = Target(g, l[1], x)
    BY <2>3 DEF Source, Target
  <2>5. SendList(h, p, l) = SendList(g, p, l) /\ RecvList(h, p, l) = RecvList(g, p, l)
    BY <2>4 DEF SendList, RecvList
  <2>6. LocalPoints(h, p, l) = LocalPoints(g, p, l)
    BY <2>3 DEF LocalPoints
  <2> QED
    BY <1>1, <2>1, <2>5, <2>6 DEF ListsCurrent
<1> QED
  BY <1>5, <1>6 DEF ListsCurrent, h

\* Counts and packing lists depend on the decomposition only.
LEMMA SameDecomposition ==
  ASSUME NEW g, NEW h, NEW p, NEW l, h.P = g.P, h.mother_P = g.mother_P
  PROVE  /\ SendList(h, p, l) = SendList(g, p, l)
         /\ RecvList(h, p, l) = RecvList(g, p, l)
         /\ LocalPoints(h, p, l) = LocalPoints(g, p, l)
<1>1. \A x : Source(h, l[1], x) = Source(g, l[1], x) /\ Target(h, l[1], x) = Target(g, l[1], x)
  BY DEF Source, Target
<1> QED
  BY <1>1 DEF SendList, RecvList, LocalPoints

LEMMA CompileCurrent ==
  ASSUME NEW g \in Info, NEW p \in Proc, NEW l \in Lists, ListsCurrent(g, p)
  PROVE  ListsCurrent(Compile(g, p, l), p)
<1> DEFINE h == Compile(g, p, l)
<1>1. /\ h.P = g.P /\ h.mother_P = g.mother_P
      /\ h.child_compiled = g.child_compiled \union {l}
      /\ h.parent_compiled = g.parent_compiled \union {l}
  BY DEF Compile, Info
<1>2. /\ h.send[l] = SendList(g, p, l) /\ h.recv[l] = RecvList(g, p, l) /\ h.Xlist[l] = {}
      /\ \A k \in Lists \ {l} : /\ h.send[k] = g.send[k] /\ h.recv[k] = g.recv[k]
                                /\ h.Xlist[k] = g.Xlist[k]
  BY DEF Compile, Info
<1>3. g.child_compiled \subseteq Lists
  BY DEF Info
<1> HIDE DEF h
<1>4. \A k : /\ SendList(h, p, k) = SendList(g, p, k)
             /\ RecvList(h, p, k) = RecvList(g, p, k)
             /\ LocalPoints(h, p, k) = LocalPoints(g, p, k)
  BY <1>1, SameDecomposition
<1>5. ASSUME NEW k \in h.child_compiled \intersect h.parent_compiled
      PROVE  /\ h.send[k] = SendList(h, p, k)
             /\ h.recv[k] = RecvList(h, p, k)
             /\ h.Xlist[k] \in {{}, LocalPoints(h, p, k)}
  <2>1. CASE k = l
    BY <1>2, <1>4, <2>1
  <2>2. CASE k # l
    <3>1. k \in g.child_compiled \intersect g.parent_compiled /\ k \in Lists
      BY <1>1, <1>3, <1>5, <2>2
    <3> QED
      BY <1>2, <1>4, <2>2, <3>1 DEF ListsCurrent
  <2> QED
    BY <2>1, <2>2
<1> QED
  BY <1>1, <1>5 DEF ListsCurrent, h

LEMMA ReadyCurrent ==
  ASSUME NEW g \in Info, NEW p \in Proc, NEW l \in Lists, ListsCurrent(g, p)
  PROVE  ListsCurrent(Ready(g, p, l), p)
<1> DEFINE c == IF l \in g.child_compiled \intersect g.parent_compiled
                THEN g ELSE Compile(g, p, l)
           h == [c EXCEPT !.Xlist[l] = LocalPoints(c, p, l)]
<1>1. c \in Info /\ ListsCurrent(c, p)
  BY CompileType, CompileCurrent
<1> HIDE DEF c
<1>2. /\ h.P = c.P /\ h.mother_P = c.mother_P
      /\ h.child_compiled = c.child_compiled /\ h.parent_compiled = c.parent_compiled
      /\ h.send = c.send /\ h.recv = c.recv
      /\ h.Xlist[l] = LocalPoints(c, p, l)
      /\ \A k \in Lists \ {l} : h.Xlist[k] = c.Xlist[k]
  BY <1>1 DEF Info
<1>3. c.child_compiled \subseteq Lists
  BY <1>1 DEF Info
<1> HIDE DEF h
<1>4. \A k : /\ SendList(h, p, k) = SendList(c, p, k)
             /\ RecvList(h, p, k) = RecvList(c, p, k)
             /\ LocalPoints(h, p, k) = LocalPoints(c, p, k)
  BY <1>2, SameDecomposition
<1>5. ASSUME NEW k \in h.child_compiled \intersect h.parent_compiled
      PROVE  /\ h.send[k] = SendList(h, p, k)
             /\ h.recv[k] = RecvList(h, p, k)
             /\ h.Xlist[k] \in {{}, LocalPoints(h, p, k)}
  <2>1. k \in c.child_compiled \intersect c.parent_compiled /\ k \in Lists
    BY <1>2, <1>3, <1>5
  <2>2. h.send[k] = SendList(h, p, k) /\ h.recv[k] = RecvList(h, p, k)
    BY <1>1, <1>2, <1>4, <2>1 DEF ListsCurrent
  <2>3. h.Xlist[k] \in {{}, LocalPoints(h, p, k)}
    BY <1>1, <1>2, <1>4, <2>1 DEF ListsCurrent
  <2> QED
    BY <2>2, <2>3
<1>6. ListsCurrent(h, p)
  BY <1>1, <1>2, <1>5 DEF ListsCurrent
<1> QED
  BY <1>1, <1>6 DEF Ready, c, h

-------------------------------------------------------------------------------
(* The invariant *)

LEMMA InitInv == Init => IInv
<1> SUFFICES ASSUME Init PROVE IInv
  OBVIOUS
<1>1. TypeOK
  <2>1. info \in [Proc -> Info]
    BY SpawnedType DEF Init
  <2>2. NoMsg \in Message
    BY NestAssumption DEF NoMsg, Message
  <2> QED
    BY <2>1, <2>2, NestAssumption DEF Init, TypeOK
<1>2. CompiledIsCurrent
  BY SpawnedCurrent DEF Init, CompiledIsCurrent
<1>3. InTransfer
  BY DEF Init, InTransfer
<1> QED
  BY <1>1, <1>2, <1>3 DEF IInv

\* Where every step but the first ones of an operation finds its process.
LEMMA InOperation ==
  ASSUME IInv, NEW p \in Proc, pc[p] # "idle"
  PROVE  /\ call[p] \in 1..MaxCall /\ Op(p) \in Operation
         /\ Op(p).kind \in Kind /\ List(p) \in Lists
<1>1. call[p] \in 1..Len(plan) /\ Len(plan) <= MaxCall /\ plan \in Seq(Operation)
      /\ Op(p).kind # "cut"
  BY NestAssumption DEF IInv, TypeOK, InTransfer
<1>2. Op(p) \in Operation
  BY <1>1 DEF Op
<1>3. call[p] \in 1..MaxCall
  BY <1>1, NestAssumption
<1> QED
  BY <1>1, <1>2, <1>3, TransferParts DEF List

\* A process's operation stays the one it is when the plan grows.
LEMMA NextOpFacts ==
  ASSUME IInv, NEW p \in Proc, NEW o \in Operation, NextOp(p, o)
  PROVE  /\ plan' \in Seq(Operation) /\ Len(plan') <= MaxCall
         /\ call' \in [Proc -> 0..Len(plan')]
         /\ call'[p] = call[p] + 1 /\ call'[p] \in 1..MaxCall /\ plan'[call'[p]] = o
         /\ \A q \in Proc \ {p} : /\ call'[q] = call[q]
                                  /\ call[q] > 0 => plan'[call[q]] = plan[call[q]]
<1>1. /\ plan \in Seq(Operation) /\ Len(plan) <= MaxCall /\ Len(plan) \in Nat
      /\ call \in [Proc -> 0..Len(plan)] /\ MaxCall \in Nat
  BY NestAssumption DEF IInv, TypeOK
<1>2. /\ call[p] < MaxCall /\ call' = [call EXCEPT ![p] = @ + 1]
      /\ call'[p] = call[p] + 1 /\ \A q \in Proc \ {p} : call'[q] = call[q]
  BY <1>1 DEF NextOp
<1>3. CASE call[p] < Len(plan)
  <2>1. plan' = plan /\ o = plan[call[p] + 1]
    BY <1>3 DEF NextOp
  <2> QED
    BY <1>1, <1>2, <1>3, <2>1
<1>4. CASE ~ (call[p] < Len(plan))
  <2>1. plan' = Append(plan, o) /\ call[p] = Len(plan)
    BY <1>1, <1>4 DEF NextOp
  <2>2. /\ plan' \in Seq(Operation) /\ Len(plan') = Len(plan) + 1
        /\ plan'[Len(plan) + 1] = o /\ \A i \in 1..Len(plan) : plan'[i] = plan[i]
    BY <1>1, <2>1
  <2> QED
    BY <1>1, <1>2, <2>1, <2>2
<1> QED
  BY <1>3, <1>4

\* A call of one processor leaves the operation of every other one alone.
LEMMA OthersKeep ==
  ASSUME IInv, NEW p \in Proc, NEW o \in Operation, NextOp(p, o),
         NEW q \in Proc, q # p, call[q] > 0
  PROVE  call'[q] = call[q] /\ plan'[call[q]] = plan[call[q]]
<1>1. \A r \in Proc \ {p} : /\ call'[r] = call[r]
                            /\ call[r] > 0 => plan'[call[r]] = plan[call[r]]
  BY NextOpFacts
<1>2. q \in Proc \ {p}
  OBVIOUS
<1> QED
  BY <1>1, <1>2

LEMMA RedecomposeInv ==
  ASSUME IInv, NEW p \in Proc, NEW o \in Operation, Redecompose(p, o)
  PROVE  IInv'
<1>1. NextOp(p, o) /\ o.kind = "cut"
  BY DEF Redecompose
<1>2. o.dom \in Dom /\ o.P \in [Points(o.dom) -> Proc]
  BY <1>1, CutParts
<1>3. info \in [Proc -> Info] /\ \A q \in Proc : ListsCurrent(info[q], q)
  BY DEF IInv, TypeOK, CompiledIsCurrent
<1>4. info' = [info EXCEPT ![p] = Decompose(info[p], o.dom, o.P)]
  BY DEF Redecompose
<1>5. /\ Decompose(info[p], o.dom, o.P) \in Info
      /\ ListsCurrent(Decompose(info[p], o.dom, o.P), p)
  BY <1>2, <1>3, DecomposeType, DecomposeCurrent
<1>6. info' \in [Proc -> Info] /\ \A q \in Proc : ListsCurrent(info'[q], q)
  BY <1>3, <1>4, <1>5
<1>7. TypeOK'
  BY <1>1, <1>6, NextOpFacts DEF IInv, TypeOK, Redecompose, mpi
<1>8. InTransfer'
  <2>1. pc' = pc /\ pc[p] = "idle"
    BY <1>1 DEF Redecompose, NextOp
  <2>2. ASSUME NEW q \in Proc, pc'[q] # "idle"
        PROVE  call'[q] > 0 /\ plan'[call'[q]].kind # "cut"
    <3>1. q # p /\ call[q] > 0 /\ plan[call[q]].kind # "cut"
      BY <2>1, <2>2 DEF IInv, InTransfer, Op
    <3>2. call'[q] = call[q] /\ plan'[call[q]] = plan[call[q]]
      BY <1>1, <3>1, OthersKeep
    <3>3. call'[q] > 0
      BY <3>1, <3>2
    <3>4. plan'[call'[q]] = plan[call[q]]
      BY <3>2, Zenon
    <3> QED
      BY <3>1, <3>3, <3>4, Zenon
  <2> QED
    BY <2>2 DEF InTransfer, Op
<1> QED
  BY <1>6, <1>7, <1>8 DEF IInv, CompiledIsCurrent

LEMMA EnterInv ==
  ASSUME IInv, NEW p \in Proc, NEW o \in Operation, Enter(p, o)
  PROVE  IInv'
<1> DEFINE l == <<o.kind, o.nest>>
           g == Ready(info[p], p, l)
<1>1. NextOp(p, o) /\ o.kind # "cut"
  BY DEF Enter
<1>2. l \in Lists /\ o.kind \in Kind
  BY <1>1, TransferParts
<1>3. info \in [Proc -> Info] /\ \A q \in Proc : ListsCurrent(info[q], q)
  BY DEF IInv, TypeOK, CompiledIsCurrent
<1>4. info' = [info EXCEPT ![p] = g]
  BY DEF Enter
<1>5. g \in Info /\ ListsCurrent(g, p)
  BY <1>2, <1>3, ReadyType, ReadyCurrent
<1>6. info' \in [Proc -> Info] /\ \A q \in Proc : ListsCurrent(info'[q], q)
  BY <1>3, <1>4, <1>5
<1> HIDE DEF g, l
<1>7. Entries(g.recv[l]) \in SUBSET Proc
  BY DEF Entries
<1>8. {Request(p, q, o, call[p] + 1, g.recv[l][q]) : q \in Entries(g.recv[l]) \ {p}}
        \in SUBSET Requests
  <2>1. g.recv[l] \in Counts
    BY <1>2, <1>5 DEF Info
  <2>3. call[p] + 1 \in 1..MaxCall
    BY <1>1, NextOpFacts
  <2>2. \A q \in Entries(g.recv[l]) : g.recv[l][q] \in 1..Cardinality(Point)
    BY <2>1, NestAssumption, FS_CardinalityType DEF Counts, Entries
  <2> QED
    BY <1>2, <1>7, <2>2, <2>3 DEF Request, Requests
<1>9. TypeOK'
  <2>1. /\ Ptags' = [Ptags EXCEPT ![p] = Entries(g.recv[l])]
        /\ posted' = [posted EXCEPT ![p] = @ \union
             {Request(p, q, o, call[p] + 1, g.recv[l][q]) : q \in Entries(g.recv[l]) \ {p}}]
    BY DEF Enter, g, l
  <2>2. Ptags' \in [Proc -> SUBSET Proc] /\ posted' \in [Proc -> SUBSET Requests]
    BY <1>7, <1>8, <2>1 DEF IInv, TypeOK
  <2>3. /\ Plist' \in [Proc -> [Proc -> SUBSET NestPoint]]
        /\ taken' \in [Proc -> SUBSET [point : NestPoint, call : 0..MaxCall]]
        /\ pc' \in [Proc -> {"idle", "packing", "sending", "blocked", "waiting", "aborted"}]
    BY DEF Enter, IInv, TypeOK
  <2>4. UNCHANGED <<toSend, peer, sbuf, rbuf, done, net>>
    BY DEF Enter
  <2> QED
    BY <1>1, <1>6, <2>2, <2>3, <2>4, NextOpFacts DEF IInv, TypeOK
<1>10. InTransfer'
  <2>1. \A q \in Proc \ {p} : pc'[q] = pc[q]
    BY DEF Enter, IInv, TypeOK
  <2>2. call'[p] > 0 /\ plan'[call'[p]].kind # "cut"
    BY <1>1, NextOpFacts
  <2>3. ASSUME NEW q \in Proc \ {p}, pc'[q] # "idle"
        PROVE  call'[q] > 0 /\ plan'[call'[q]].kind # "cut"
    <3>1. call[q] > 0 /\ plan[call[q]].kind # "cut"
      BY <2>1, <2>3 DEF IInv, InTransfer, Op
    <3>2. call'[q] = call[q] /\ plan'[call[q]] = plan[call[q]]
      BY <1>1, <3>1, OthersKeep
    <3>3. call'[q] > 0
      BY <3>1, <3>2
    <3>4. plan'[call'[q]] = plan[call[q]]
      BY <3>2, Zenon
    <3> QED
      BY <3>1, <3>3, <3>4, Zenon
  <2> QED
    BY <2>2, <2>3 DEF InTransfer, Op
<1> QED
  BY <1>6, <1>9, <1>10 DEF IInv, CompiledIsCurrent

\* The other steps leave plan, calls and domain_info alone.
LEMMA LaterStepInv ==
  ASSUME IInv, UNCHANGED <<plan, call, info>>, TypeOK',
         \A q \in Proc : pc'[q] # "idle" => pc[q] # "idle"
  PROVE  IInv'
BY DEF IInv, CompiledIsCurrent, InTransfer, Op

LEMMA PackInv ==
  ASSUME IInv, NEW p \in Proc, Pack(p)
  PROVE  IInv'
<1>1. Plist' \in [Proc -> [Proc -> SUBSET NestPoint]]
  <2>1. info[p].Xlist[List(p)] \in SUBSET NestPoint
    <3>1. pc[p] # "idle"
      BY DEF Pack
    <3>2. List(p) \in Lists
      BY <3>1, InOperation
    <3>3. info[p].Xlist \in [Lists -> SUBSET NestPoint]
      BY DEF IInv, TypeOK, Info
    <3> QED
      BY <3>2, <3>3
  <2> QED
    BY <2>1 DEF Pack, IInv, TypeOK
<1>2. TypeOK'
  BY <1>1 DEF Pack, IInv, TypeOK, Entries, mpi
<1> QED
  BY <1>2, LaterStepInv DEF Pack, IInv, TypeOK

LEMMA SendInv ==
  ASSUME IInv, NEW p \in Proc, Send(p)
  PROVE  IInv'
<1>1. PICK q \in First(toSend[p]) :
        LET m == [pts |-> Plist[p][q], call |-> call[p]]
        IN /\ toSend' = [toSend EXCEPT ![p] = @ \ {q}]
           /\ IF Cardinality(m.pts) > info[p].send[List(p)][q]
              THEN pc' = [pc EXCEPT ![p] = "aborted"] /\ UNCHANGED <<peer, sbuf, net>>
              ELSE IF q = p
              THEN sbuf' = [sbuf EXCEPT ![p] = m] /\ UNCHANGED <<pc, peer, net>>
              ELSE /\ net' = net \union
                        {[src |-> p, dst |-> q, kind |-> Op(p).kind, msg |-> m]}
                   /\ peer' = [peer EXCEPT ![p] = q]
                   /\ pc' \in {pc, [pc EXCEPT ![p] = "blocked"]}
                   /\ UNCHANGED sbuf
  BY DEF Send
<1> DEFINE m == [pts |-> Plist[p][q], call |-> call[p]]
<1>2. q \in Proc /\ m \in Message /\ Op(p).kind \in Kind
  <2>1. toSend[p] \in SUBSET Proc /\ Plist[p] \in [Proc -> SUBSET NestPoint]
    BY DEF IInv, TypeOK
  <2>2. q \in Proc
    BY <2>1 DEF First
  <2>3. pc[p] # "idle"
    BY DEF Send
  <2>4. call[p] \in 0..MaxCall /\ Op(p).kind \in Kind
    BY <2>3, InOperation, NestAssumption
  <2> QED
    BY <2>1, <2>2, <2>4 DEF Message
<1> HIDE DEF m
<1>3. /\ toSend' \in [Proc -> SUBSET Proc] /\ sbuf' \in [Proc -> Message]
      /\ net' \subseteq [src : Proc, dst : Proc, kind : Kind, msg : Message]
      /\ peer' \in [Proc -> Proc]
      /\ pc' \in [Proc -> {"idle", "packing", "sending", "blocked", "waiting", "aborted"}]
  <2>1. /\ toSend' = [toSend EXCEPT ![p] = @ \ {q}]
        /\ sbuf' \in {sbuf, [sbuf EXCEPT ![p] = m]}
        /\ net' \in {net, net \union
                           {[src |-> p, dst |-> q, kind |-> Op(p).kind, msg |-> m]}}
        /\ peer' \in {peer, [peer EXCEPT ![p] = q]}
        /\ pc' \in {pc, [pc EXCEPT ![p] = "blocked"], [pc EXCEPT ![p] = "aborted"]}
    BY <1>1 DEF m
  <2>2. toSend' \in [Proc -> SUBSET Proc]
    <3>1. toSend \in [Proc -> SUBSET Proc]
      BY DEF IInv, TypeOK
    <3> QED
      BY <2>1, <3>1
  <2>6. peer' \in [Proc -> Proc]
    <3>1. peer \in [Proc -> Proc]
      BY DEF IInv, TypeOK
    <3> QED
      BY <1>2, <2>1, <3>1
  <2>3. sbuf' \in [Proc -> Message]
    BY <1>2, <2>1 DEF IInv, TypeOK
  <2>4. net' \subseteq [src : Proc, dst : Proc, kind : Kind, msg : Message]
    BY <1>2, <2>1 DEF IInv, TypeOK
  <2>5. pc' \in [Proc -> {"idle", "packing", "sending", "blocked", "waiting", "aborted"}]
    BY <2>1 DEF IInv, TypeOK
  <2> QED
    BY <2>2, <2>3, <2>4, <2>5, <2>6
<1>4. TypeOK'
  BY <1>3 DEF Send, IInv, TypeOK
<1>5. \A r \in Proc : pc'[r] # "idle" => pc[r] # "idle"
  BY <1>1 DEF Send, IInv, TypeOK
<1> QED
  BY <1>4, <1>5, LaterStepInv DEF Send

LEMMA SendReturnsInv ==
  ASSUME IInv, NEW p \in Proc, SendReturns(p)
  PROVE  IInv'
<1>1. TypeOK'
  BY DEF SendReturns, IInv, TypeOK, mpi
<1> QED
  BY <1>1, LaterStepInv DEF SendReturns, IInv, TypeOK

LEMMA UnpackedType ==
  ASSUME NEW m \in Message
  PROVE  Unpacked(m) \subseteq [point : NestPoint, call : 0..MaxCall]
BY DEF Message, Unpacked

LEMMA NextMessageInv ==
  ASSUME IInv, NEW p \in Proc, NextMessage(p)
  PROVE  IInv'
<1>1. sbuf[p] \in Message
  BY DEF IInv, TypeOK
<1>2. Unpacked(sbuf[p]) \subseteq [point : NestPoint, call : 0..MaxCall]
  BY <1>1, UnpackedType
<1>3. PICK q \in First(Ptags[p]) :
        /\ peer' = [peer EXCEPT ![p] = q]
        /\ IF q = p
           THEN /\ Ptags' = [Ptags EXCEPT ![p] = @ \ {p}]
                /\ taken' = [taken EXCEPT ![p] = @ \union Unpacked(sbuf[p])]
                /\ UNCHANGED pc
           ELSE /\ pc' = [pc EXCEPT ![p] = "waiting"]
                /\ UNCHANGED <<Ptags, taken>>
  BY DEF NextMessage
<1>4. q \in Proc
  <2>1. Ptags[p] \in SUBSET Proc
    BY DEF IInv, TypeOK
  <2> QED
    BY <2>1 DEF First
<1>5. /\ Ptags' \in {Ptags, [Ptags EXCEPT ![p] = @ \ {p}]}
      /\ taken' \in {taken, [taken EXCEPT ![p] = @ \union Unpacked(sbuf[p])]}
      /\ pc' \in {pc, [pc EXCEPT ![p] = "waiting"]}
  BY <1>3
<1>6. peer' \in [Proc -> Proc]
  <2>1. peer \in [Proc -> Proc] /\ peer' = [peer EXCEPT ![p] = q]
    BY <1>3 DEF IInv, TypeOK
  <2> QED
    BY <1>4, <2>1
<1>7. Ptags' \in [Proc -> SUBSET Proc]
  <2>1. Ptags \in [Proc -> SUBSET Proc]
    BY DEF IInv, TypeOK
  <2> QED
    BY <1>5, <2>1
<1>8. taken' \in [Proc -> SUBSET [point : NestPoint, call : 0..MaxCall]]
  <2>1. taken \in [Proc -> SUBSET [point : NestPoint, call : 0..MaxCall]]
    BY DEF IInv, TypeOK
  <2> QED
    BY <1>2, <1>5, <2>1
<1>9. pc' \in [Proc -> {"idle", "packing", "sending", "blocked", "waiting", "aborted"}]
  BY <1>5 DEF IInv, TypeOK
<1>10. TypeOK'
  BY <1>6, <1>7, <1>8, <1>9 DEF NextMessage, IInv, TypeOK, mpi
<1>11. \A r \in Proc : pc'[r] # "idle" => pc[r] # "idle"
  BY <1>5 DEF NextMessage, IInv, TypeOK
<1> QED
  BY <1>10, <1>11, LaterStepInv DEF NextMessage

LEMMA WaitUnpackInv ==
  ASSUME IInv, NEW p \in Proc, WaitUnpack(p)
  PROVE  IInv'
<1>1. rbuf[p][peer[p]] \in Message
  BY DEF IInv, TypeOK
<1>2. Unpacked(rbuf[p][peer[p]]) \subseteq [point : NestPoint, call : 0..MaxCall]
  BY <1>1, UnpackedType
<1>3. TypeOK'
  BY <1>2 DEF WaitUnpack, IInv, TypeOK
<1> QED
  BY <1>3, LaterStepInv DEF WaitUnpack, IInv, TypeOK

LEMMA ReturnInv ==
  ASSUME IInv, NEW p \in Proc, Return(p)
  PROVE  IInv'
<1>1. TypeOK'
  BY DEF Return, IInv, TypeOK, mpi
<1> QED
  BY <1>1, LaterStepInv DEF Return, IInv, TypeOK

LEMMA DeliverInv ==
  ASSUME IInv, NEW p \in Proc, Deliver(p)
  PROVE  IInv'
<1>1. TypeOK'
  BY DEF Deliver, IInv, TypeOK
<1> QED
  BY <1>1, LaterStepInv DEF Deliver

LEMMA NextInv == IInv /\ [Next]_vars => IInv'
<1> SUFFICES ASSUME IInv, [Next]_vars PROVE IInv'
  OBVIOUS
<1>1. CASE UNCHANGED vars
  BY <1>1, LaterStepInv DEF vars, mpi, IInv, TypeOK
<1>2. ASSUME NEW p \in Proc, Step(p) PROVE IInv'
  BY <1>2, RedecomposeInv, EnterInv, PackInv, SendInv, SendReturnsInv,
     NextMessageInv, WaitUnpackInv, ReturnInv DEF Step
<1>3. ASSUME NEW p \in Proc, Deliver(p) PROVE IInv'
  BY <1>3, DeliverInv
<1> QED
  BY <1>1, <1>2, <1>3 DEF Next, Finished

THEOREM Invariance == Spec => []IInv
<1> QED
  BY InitInv, NextInv, PTL DEF Spec

\* Type correctness, for any domains, nests, decompositions and operations.
THEOREM TypeCorrect == Spec => []TypeOK
<1>1. IInv => TypeOK
  BY DEF IInv
<1> QED
  BY <1>1, Invariance, PTL

\* The flags in the two domain_info records are enough: whichever domain is
\* decomposed anew, lists whose two flags are set count its points of now, and
\* a nest point knows the processor of its mother (rsl_bcast.c:989-1000,
\* decomp.c:511-517).
THEOREM ListsAlwaysCurrent == Spec => []CompiledIsCurrent
<1>1. IInv => CompiledIsCurrent
  BY DEF IInv
<1> QED
  BY <1>1, Invariance, PTL

-------------------------------------------------------------------------------
(* What moved when: the decompositions and messages of every operation so far *)

\* The cuts of domain d among the first k operations.
CutsOf(d, k) == {i \in 1..k : plan[i].kind = "cut" /\ plan[i].dom = d}

\* The processor of point x after the first k operations: that of the last cut.
Homes(k, x) ==
  LET cuts == CutsOf(Domain[x], k)
  IN {h \in Proc : \/ cuts = {} /\ h = DefaultCut[x]
                   \/ \E i \in cuts : (\A j \in cuts : j <= i) /\ h = plan[i].P[x]}
Home(k, x) == CHOOSE h \in Homes(k, x) : TRUE

\* Where operation k takes the data of nest point x from, and where to.
From(k, x) == IF plan[k].kind = "force" THEN Home(k, Mother[x]) ELSE Home(k, x)
To(k, x)   == IF plan[k].kind = "force" THEN Home(k, x) ELSE Home(k, Mother[x])

\* The points both lists count, and those of them that the model packs.
Counted(k, a, b) == {x \in Points(plan[k].nest) : From(k, x) = a /\ To(k, x) = b}
Share(k, a, b)   == {x \in plan[k].packs : From(k, x) = a /\ To(k, x) = b}

\* In operation k a message goes from a to b.
Talks(k, a, b) == plan[k].kind # "cut" /\ Counted(k, a, b) # {}

\* The message of operation k has been sent; it has been matched.
SentFor(k, a, b) ==
  /\ Talks(k, a, b)
  /\ k < call[a] \/ (k = call[a] /\ pc[a] # "packing" /\ b \notin toSend[a])
Matched(k, a, b) == k < call[b] \/ (k = call[b] /\ ~ \E h \in posted[b] : h.src = a)

Packed(k, a, b)   == [pts |-> Share(k, a, b), call |-> k]
InFlight(k, a, b) == [src |-> a, dst |-> b, kind |-> plan[k].kind, msg |-> Packed(k, a, b)]

\* What is in flight was sent and is not matched, and has the points of its
\* operation's decompositions; what was sent and is not matched is in flight;
\* nothing is matched before it is sent.
NetSound == \A m \in net :
  LET k == m.msg.call
  IN /\ k \in 1..Len(plan) /\ m = InFlight(k, m.src, m.dst) /\ m.src # m.dst
     /\ SentFor(k, m.src, m.dst) /\ ~ Matched(k, m.src, m.dst)
NetComplete == \A k \in 1..Len(plan) : \A a, b \in Proc :
  a # b /\ SentFor(k, a, b) /\ ~ Matched(k, a, b) => InFlight(k, a, b) \in net
NetCausal == \A k \in 1..Len(plan) : \A a, b \in Proc :
  a # b /\ Talks(k, a, b) /\ Matched(k, a, b) => SentFor(k, a, b)

\* Its lists are those of its transfer.
ListsOfNow(p) == LET g == info[p]  l == List(p) IN
  /\ g.send[l] = SendList(g, p, l)
  /\ g.recv[l] = RecvList(g, p, l)
  /\ g.Xlist[l] = LocalPoints(g, p, l)

Asked(p, q) == Request(p, q, Op(p), call[p], info[p].recv[List(p)][q])

\* Its requests are those of the entries it still waits for, each posted or
\* done; what it has taken is what those it is through with had for it.
Receives(p) ==
  /\ \A q \in Ptags[p] : Counted(call[p], q, p) # {}
  /\ posted[p] \union done[p] = {Asked(p, q) : q \in Ptags[p] \ {p}}
  /\ posted[p] \intersect done[p] = {}
  /\ \A h \in done[p] : rbuf[p][h.src] = Packed(call[p], h.src, p)
  /\ pc[p] = "waiting" => peer[p] \in Ptags[p] \ {p} /\ toSend[p] = {}

TakenSoFar(p) ==
  taken[p] = {[point |-> x, call |-> call[p]] :
                x \in {y \in Op(p).packs : To(call[p], y) = p /\ From(call[p], y) \notin Ptags[p]}}

\* Its staged points are its shares, counted on both sides.
Sends(p) ==
  /\ \A q \in toSend[p] : Counted(call[p], p, q) # {}
  /\ pc[p] = "packing" => toSend[p] = {}
  /\ pc[p] # "packing" =>
       /\ \A q \in Proc : Plist[p][q] = Share(call[p], p, q)
       /\ Counted(call[p], p, p) # {} /\ p \notin toSend[p] => sbuf[p] = Packed(call[p], p, p)

Busy(p) == ListsOfNow(p) /\ Receives(p) /\ TakenSoFar(p) /\ Sends(p) /\ pc[p] # "aborted"
Idle(p) == posted[p] = {} /\ done[p] = {} /\ toSend[p] = {}

\* What it has taken when it is done.
Exact(p) ==
  pc[p] = "idle" /\ call[p] > 0 /\ Op(p).kind # "cut" =>
    taken[p] = {[point |-> x, call |-> call[p]] :
                  x \in {y \in Op(p).packs : Target(info[p], Op(p).kind, y) = p}}

\* A processor has the decompositions of its own operation.
AtHome(p) == \A x \in Point : info[p].P[x] = Home(call[p], x)

Local(p) == /\ AtHome(p) /\ Exact(p)
            /\ IF pc[p] = "idle" THEN Idle(p) ELSE Busy(p)

NetInv   == NetSound /\ NetComplete /\ NetCausal
ExactInv == IInv /\ NetInv /\ \A p \in Proc : Local(p)

-------------------------------------------------------------------------------
(* The past does not change *)

PlanGrows == /\ plan' \in Seq(Operation) /\ Len(plan) <= Len(plan')
             /\ \A i \in 1..Len(plan) : plan'[i] = plan[i]

\* Operations to come change nothing of where points were.
LEMMA HomeStable ==
  ASSUME plan \in Seq(Operation), PlanGrows, NEW k \in 0..Len(plan), NEW x
  PROVE  Home(k, x)' = Home(k, x)
<1>1. \A i \in 1..k : plan'[i] = plan[i]
  BY DEF PlanGrows
<1>2. CutsOf(Domain[x], k)' = CutsOf(Domain[x], k)
  BY <1>1 DEF CutsOf
<1>3. CutsOf(Domain[x], k) \subseteq 1..k
  BY DEF CutsOf
<1>4. Homes(k, x)' = Homes(k, x)
  BY <1>1, <1>2, <1>3 DEF Homes
<1> QED
  BY <1>4 DEF Home

\* Nor of what they moved.
LEMMA PastStable ==
  ASSUME plan \in Seq(Operation), PlanGrows, NEW k \in 1..Len(plan), NEW a, NEW b
  PROVE  /\ plan'[k] = plan[k]
         /\ \A x : From(k, x)' = From(k, x) /\ To(k, x)' = To(k, x)
         /\ Counted(k, a, b)' = Counted(k, a, b)
         /\ Talks(k, a, b)' = Talks(k, a, b)
         /\ Packed(k, a, b)' = Packed(k, a, b)
         /\ InFlight(k, a, b)' = InFlight(k, a, b)
<1>1. plan'[k] = plan[k]
  BY DEF PlanGrows
<1>2. \A x : Home(k, x)' = Home(k, x)
  BY HomeStable
<1>3. \A x : From(k, x)' = From(k, x) /\ To(k, x)' = To(k, x)
  BY <1>1, <1>2 DEF From, To
<1>4. Counted(k, a, b)' = Counted(k, a, b) /\ Share(k, a, b)' = Share(k, a, b)
  BY <1>1, <1>3 DEF Counted, Share
<1>5. Talks(k, a, b)' = Talks(k, a, b) /\ Packed(k, a, b)' = Packed(k, a, b)
  BY <1>1, <1>4 DEF Talks, Packed
<1>6. InFlight(k, a, b)' = InFlight(k, a, b)
  BY <1>1, <1>5 DEF InFlight
<1> QED
  BY <1>1, <1>3, <1>4, <1>5, <1>6

\* Where points are at first, after a cut, and after any other operation.
LEMMA HomeFirst ==
  ASSUME NEW x \in Point
  PROVE  Home(0, x) = DefaultCut[x]
<1>1. CutsOf(Domain[x], 0) = {}
  BY DEF CutsOf
<1>2. Homes(0, x) = {DefaultCut[x]}
  BY <1>1, NestAssumption DEF Homes
<1> QED
  BY <1>2 DEF Home

LEMMA HomeAfterCut ==
  ASSUME NEW k \in Nat, NEW x \in Point, plan[k + 1].kind = "cut",
         plan[k + 1].dom = Domain[x], plan[k + 1].P[x] \in Proc
  PROVE  Home(k + 1, x) = plan[k + 1].P[x]
<1>1. k + 1 \in CutsOf(Domain[x], k + 1) /\ \A j \in CutsOf(Domain[x], k + 1) : j \in Nat /\ j <= k + 1
  BY DEF CutsOf
<1>2. Homes(k + 1, x) = {plan[k + 1].P[x]}
  BY <1>1 DEF Homes
<1> QED
  BY <1>2 DEF Home

LEMMA HomeAfterOther ==
  ASSUME NEW k \in Nat, NEW x \in Point,
         ~ (plan[k + 1].kind = "cut" /\ plan[k + 1].dom = Domain[x])
  PROVE  Home(k + 1, x) = Home(k, x)
<1>1. CutsOf(Domain[x], k + 1) = CutsOf(Domain[x], k)
  BY DEF CutsOf
<1>2. Homes(k + 1, x) = Homes(k, x)
  BY <1>1 DEF Homes
<1> QED
  BY <1>2 DEF Home

\* All that p has of its own is as it was.
Kept(p) ==
  /\ pc'[p] = pc[p] /\ call'[p] = call[p] /\ info'[p] = info[p] /\ Plist'[p] = Plist[p]
  /\ toSend'[p] = toSend[p] /\ Ptags'[p] = Ptags[p] /\ peer'[p] = peer[p]
  /\ taken'[p] = taken[p] /\ sbuf'[p] = sbuf[p] /\ rbuf'[p] = rbuf[p]
  /\ posted'[p] = posted[p] /\ done'[p] = done[p]

\* The transfer a processor is in stays the one it is.
LEMMA SameTransfer ==
  ASSUME IInv, PlanGrows, NEW p \in Proc, AtHome(p),
         call'[p] = call[p], info'[p] = info[p]
  PROVE  /\ AtHome(p)'
         /\ call[p] # 0 =>
              /\ Op(p)' = Op(p) /\ List(p)' = List(p)
              /\ \A a, b : /\ Counted(call[p], a, b)' = Counted(call[p], a, b)
                          /\ Share(call[p], a, b)' = Share(call[p], a, b)
                          /\ Packed(call[p], a, b)' = Packed(call[p], a, b)
              /\ \A x : From(call[p], x)' = From(call[p], x) /\ To(call[p], x)' = To(call[p], x)
              /\ \A q : Asked(p, q)' = Asked(p, q)
              /\ ListsOfNow(p) => ListsOfNow(p)'
<1>1. plan \in Seq(Operation) /\ call[p] \in 0..Len(plan)
  BY DEF IInv, TypeOK
<1>2. \A x : Home(call[p], x)' = Home(call[p], x)
  BY <1>1, HomeStable
<1>3. AtHome(p)'
  BY <1>2 DEF AtHome
<1>4. ASSUME call[p] # 0
      PROVE  /\ Op(p)' = Op(p) /\ List(p)' = List(p)
             /\ \A a, b : /\ Counted(call[p], a, b)' = Counted(call[p], a, b)
                         /\ Share(call[p], a, b)' = Share(call[p], a, b)
                         /\ Packed(call[p], a, b)' = Packed(call[p], a, b)
             /\ \A x : From(call[p], x)' = From(call[p], x) /\ To(call[p], x)' = To(call[p], x)
             /\ \A q : Asked(p, q)' = Asked(p, q)
             /\ ListsOfNow(p) => ListsOfNow(p)'
  <2>1. call[p] \in 1..Len(plan)
    BY <1>1, <1>4
  <2>2. Op(p)' = Op(p) /\ List(p)' = List(p)
    <3>1. plan'[call[p]] = plan[call[p]]
      BY <2>1 DEF PlanGrows
    <3>2. plan'[call'[p]] = plan[call[p]]
      BY <3>1, Zenon
    <3> QED
      BY <3>2 DEF Op, List
  <2>3. \A a, b : /\ Counted(call[p], a, b)' = Counted(call[p], a, b)
                  /\ Packed(call[p], a, b)' = Packed(call[p], a, b)
    BY <1>1, <2>1, PastStable
  <2>4. \A a, b : Share(call[p], a, b)' = Share(call[p], a, b)
    BY <2>3 DEF Packed
  <2>5. \A x : From(call[p], x)' = From(call[p], x) /\ To(call[p], x)' = To(call[p], x)
    BY <1>1, <2>1, PastStable
  <2>6. \A q : Asked(p, q)' = Asked(p, q)
    BY <2>2 DEF Asked, Request
  <2>7. ListsOfNow(p) => ListsOfNow(p)'
    <3>1. SendList(info[p], p, List(p))' = SendList(info[p], p, List(p))
      BY <2>2 DEF SendList, Source, Target
    <3>2. RecvList(info[p], p, List(p))' = RecvList(info[p], p, List(p))
      BY <2>2 DEF RecvList, Source, Target
    <3>3. LocalPoints(info[p], p, List(p))' = LocalPoints(info[p], p, List(p))
      BY <2>2 DEF LocalPoints
    <3> QED
      BY <2>2, <3>1, <3>2, <3>3 DEF ListsOfNow
  <2> QED
    BY <2>2, <2>3, <2>4, <2>5, <2>6, <2>7
<1> QED
  BY <1>3, <1>4

\* What a processor knows of its transfer stays true when others move on.
LEMMA LocalStable ==
  ASSUME IInv, PlanGrows, NEW p \in Proc, Kept(p), Local(p)
  PROVE  Local(p)'
<1>1. call'[p] = call[p] /\ info'[p] = info[p] /\ AtHome(p)
  BY DEF Kept, Local
<1>2. AtHome(p)'
  BY <1>1, SameTransfer
<1>3. CASE call[p] = 0
  <2>1. pc[p] = "idle" /\ pc'[p] = "idle"
    BY <1>3 DEF IInv, InTransfer, Kept
  <2>2. Idle(p)'
    BY <2>1 DEF Local, Idle, Kept
  <2>3. Exact(p)'
    BY <1>1, <1>3 DEF Exact
  <2> QED
    BY <1>2, <2>1, <2>2, <2>3 DEF Local
<1>4. CASE call[p] # 0
  <2>1. /\ Op(p)' = Op(p) /\ List(p)' = List(p)
        /\ \A a, b : /\ Counted(call[p], a, b)' = Counted(call[p], a, b)
                    /\ Share(call[p], a, b)' = Share(call[p], a, b)
                    /\ Packed(call[p], a, b)' = Packed(call[p], a, b)
        /\ \A x : From(call[p], x)' = From(call[p], x) /\ To(call[p], x)' = To(call[p], x)
        /\ \A q : Asked(p, q)' = Asked(p, q)
        /\ ListsOfNow(p) => ListsOfNow(p)'
    BY <1>1, <1>4, SameTransfer
  <2>2. Exact(p)'
    BY <1>1, <2>1 DEF Local, Exact, Kept, Target
  <2>3. Idle(p) => Idle(p)'
    BY DEF Idle, Kept
  <2>4. Busy(p) => Busy(p)'
    <3> SUFFICES ASSUME Busy(p) PROVE Busy(p)'
      OBVIOUS
    <3>1. Receives(p)'
      BY <2>1 DEF Busy, Receives, Kept
    <3>2. TakenSoFar(p)'
      BY <1>1, <2>1 DEF Busy, TakenSoFar, Kept
    <3>3. Sends(p)'
      BY <2>1 DEF Busy, Sends, Kept
    <3> QED
      BY <2>1, <3>1, <3>2, <3>3 DEF Busy, Kept
  <2> QED
    BY <1>2, <2>2, <2>3, <2>4 DEF Local, Kept
<1> QED
  BY <1>3, <1>4

\* A step of p that sends nothing and matches nothing: what others sent and
\* matched is as it was, what p did is not undone, and a new operation has no
\* messages yet.
LEMMA NetStable ==
  ASSUME IInv, NetInv, PlanGrows, NEW p \in Proc, net' = net,
         \A q \in Proc \ {p} : Kept(q),
         \A k \in 1..Len(plan), q \in Proc \ {p} :
           /\ Talks(k, p, q) => (SentFor(k, p, q)' <=> SentFor(k, p, q))
           /\ Talks(k, q, p) => (Matched(k, q, p)' <=> Matched(k, q, p)),
         \A k \in 1..Len(plan'), q \in Proc \ {p} : k > Len(plan) =>
           ~ SentFor(k, p, q)' /\ (Talks(k, q, p)' => ~ Matched(k, q, p)')
  PROVE  NetInv'
<1>1. /\ plan \in Seq(Operation) /\ Len(plan) \in Nat /\ Len(plan') \in Nat
      /\ Len(plan) <= Len(plan')
      /\ \A q \in Proc : call[q] \in 0..Len(plan)
  BY DEF IInv, TypeOK, PlanGrows
<1>2. \A k \in 1..Len(plan) : \A a, b :
        /\ Talks(k, a, b)' = Talks(k, a, b) /\ InFlight(k, a, b)' = InFlight(k, a, b)
  BY <1>1, PastStable
<1>3. ASSUME NEW k \in 1..Len(plan), NEW a \in Proc, NEW b \in Proc, a # b, Talks(k, a, b)
      PROVE  SentFor(k, a, b)' <=> SentFor(k, a, b)
  <2>1. CASE a = p
    BY <1>3, <2>1
  <2>2. CASE a # p
    BY <1>2, <1>3, <2>2 DEF SentFor, Kept
  <2> QED
    BY <2>1, <2>2
<1>4. ASSUME NEW k \in 1..Len(plan), NEW a \in Proc, NEW b \in Proc, a # b, Talks(k, a, b)
      PROVE  Matched(k, a, b)' <=> Matched(k, a, b)
  <2>1. CASE b = p
    BY <1>4, <2>1
  <2>2. CASE b # p
    BY <2>2 DEF Matched, Kept
  <2> QED
    BY <2>1, <2>2
<1>5. \A k \in 1..Len(plan) : \A a, b \in Proc :
        a # b /\ ~ Talks(k, a, b) => ~ SentFor(k, a, b) /\ ~ SentFor(k, a, b)'
  BY <1>2 DEF SentFor
<1>6. ASSUME NEW k \in 1..Len(plan'), k > Len(plan), NEW a \in Proc, NEW b \in Proc, a # b
      PROVE  ~ SentFor(k, a, b)' /\ (Talks(k, a, b)' => ~ Matched(k, a, b)')
  <2>1. CASE a = p
    <3>1. ~ SentFor(k, a, b)'
      BY <1>6, <2>1
    <3>2. call'[b] = call[b]
      BY <1>6, <2>1 DEF Kept
    <3>3. call'[b] < k
      BY <1>1, <1>6, <3>2
    <3>4. ~ Matched(k, a, b)'
      BY <1>1, <3>2, <3>3 DEF Matched
    <3> QED
      BY <3>1, <3>4
  <2>2. CASE a # p
    <3>1. call'[a] = call[a]
      BY <2>2 DEF Kept
    <3>2. call'[a] < k
      BY <1>1, <1>6, <3>1
    <3>3. ~ SentFor(k, a, b)'
      BY <1>1, <3>1, <3>2 DEF SentFor
    <3>4. CASE b = p
      BY <1>6, <2>2, <3>3, <3>4
    <3>5. CASE b # p
      <4>1. call'[b] = call[b]
        BY <3>5 DEF Kept
      <4>2. call'[b] < k
        BY <1>1, <1>6, <4>1
      <4>3. ~ Matched(k, a, b)'
        BY <1>1, <4>1, <4>2 DEF Matched
      <4> QED
        BY <3>3, <4>3
    <3> QED
      BY <3>4, <3>5
  <2> QED
    BY <2>1, <2>2
<1>7. NetSound'
  <2> SUFFICES ASSUME NEW m \in net
               PROVE  LET k == m.msg.call
                      IN /\ k \in 1..Len(plan') /\ m = InFlight(k, m.src, m.dst)'
                         /\ m.src # m.dst
                         /\ SentFor(k, m.src, m.dst)' /\ ~ Matched(k, m.src, m.dst)'
    BY DEF NetSound
  <2> DEFINE k == m.msg.call
  <2>1. /\ k \in 1..Len(plan) /\ m = InFlight(k, m.src, m.dst) /\ m.src # m.dst
        /\ SentFor(k, m.src, m.dst) /\ ~ Matched(k, m.src, m.dst)
    BY DEF NetInv, NetSound
  <2>2. m.src \in Proc /\ m.dst \in Proc
    BY DEF IInv, TypeOK
  <2>3. Talks(k, m.src, m.dst)
    BY <2>1 DEF SentFor
  <2> HIDE DEF k
  <2>4. SentFor(k, m.src, m.dst)' /\ ~ Matched(k, m.src, m.dst)'
    BY <1>3, <1>4, <2>1, <2>2, <2>3
  <2>5. k \in 1..Len(plan') /\ m = InFlight(k, m.src, m.dst)'
    BY <1>1, <1>2, <2>1
  <2> QED
    BY <2>1, <2>4, <2>5 DEF k
<1>8. NetComplete'
  <2> SUFFICES ASSUME NEW k \in 1..Len(plan'), NEW a \in Proc, NEW b \in Proc, a # b,
                      SentFor(k, a, b)', ~ Matched(k, a, b)'
               PROVE  InFlight(k, a, b)' \in net
    BY DEF NetComplete
  <2>1. k \in 1..Len(plan)
    BY <1>1, <1>6
  <2>2. Talks(k, a, b)
    BY <1>5, <2>1
  <2>3. InFlight(k, a, b) \in net
    BY <1>3, <1>4, <2>1, <2>2 DEF NetInv, NetComplete
  <2> QED
    BY <1>2, <2>1, <2>3
<1>9. NetCausal'
  <2> SUFFICES ASSUME NEW k \in 1..Len(plan'), NEW a \in Proc, NEW b \in Proc, a # b,
                      Talks(k, a, b)', Matched(k, a, b)'
               PROVE  SentFor(k, a, b)'
    BY DEF NetCausal
  <2>1. k \in 1..Len(plan)
    BY <1>1, <1>6
  <2>2. Talks(k, a, b)
    BY <1>2, <2>1
  <2> QED
    BY <1>3, <1>4, <2>1, <2>2 DEF NetInv, NetCausal
<1> QED
  BY <1>7, <1>8, <1>9 DEF NetInv

-------------------------------------------------------------------------------
(* What a processor in a transfer counts, in terms of the past *)

InTransferNow(p) == IInv /\ AtHome(p) /\ call[p] > 0 /\ Op(p).kind # "cut"

LEMMA TransferOf ==
  ASSUME NEW p \in Proc, InTransferNow(p)
  PROVE  /\ call[p] \in 1..Len(plan) /\ Op(p) = plan[call[p]] /\ info[p] \in Info
         /\ Op(p).kind \in Kind /\ Op(p).nest \in Nest /\ List(p) \in Lists
         /\ Op(p).packs \subseteq Points(Op(p).nest)
         /\ Points(Op(p).nest) \subseteq NestPoint
<1>1. /\ call[p] \in 1..Len(plan) /\ Op(p) = plan[call[p]] /\ info[p] \in Info
      /\ plan \in Seq(Operation)
  BY DEF InTransferNow, IInv, TypeOK, Op
<1>2. Op(p) \in Operation /\ Op(p).kind # "cut"
  BY <1>1 DEF InTransferNow
<1>3. Op(p).nest \in Nest /\ Op(p).kind \in Kind /\ List(p) \in Lists
  BY <1>2, TransferParts DEF List
<1>4. Points(Op(p).nest) \subseteq NestPoint
  BY <1>3 DEF Points, NestPoint
<1> QED
  BY <1>1, <1>2, <1>3, <1>4, NestAssumption

LEMMA SourcesNow ==
  ASSUME NEW p \in Proc, InTransferNow(p), NEW x \in NestPoint
  PROVE  /\ Source(info[p], Op(p).kind, x) = From(call[p], x)
         /\ Target(info[p], Op(p).kind, x) = To(call[p], x)
         /\ From(call[p], x) \in Proc /\ To(call[p], x) \in Proc
<1>1. x \in Point /\ Mother[x] \in Point
  BY NestAssumption DEF NestPoint
<1>2. info[p].P[x] = Home(call[p], x) /\ info[p].P[Mother[x]] = Home(call[p], Mother[x])
  BY <1>1 DEF InTransferNow, AtHome
<1>3. info[p].mother_P[x] = info[p].P[Mother[x]]
  BY DEF InTransferNow, IInv, CompiledIsCurrent, ListsCurrent
<1>4. info[p].P[x] \in Proc /\ info[p].P[Mother[x]] \in Proc
  BY <1>1, TransferOf DEF Info
<1> QED
  BY <1>2, <1>3, <1>4 DEF Source, Target, From, To, Op

LEMMA CountedNow ==
  ASSUME NEW p \in Proc, InTransferNow(p), NEW q \in Proc
  PROVE  /\ SendList(info[p], p, List(p))[q] = Cardinality(Counted(call[p], p, q))
         /\ RecvList(info[p], p, List(p))[q] = Cardinality(Counted(call[p], q, p))
<1>1. \A x \in Points(Op(p).nest) :
        /\ Source(info[p], Op(p).kind, x) = From(call[p], x)
        /\ Target(info[p], Op(p).kind, x) = To(call[p], x)
  BY SourcesNow, TransferOf
<1>2. List(p)[1] = Op(p).kind /\ List(p)[2] = Op(p).nest /\ plan[call[p]].nest = Op(p).nest
  BY DEF List, Op
<1>3. /\ {x \in Points(List(p)[2]) : /\ Source(info[p], List(p)[1], x) = p
                                     /\ Target(info[p], List(p)[1], x) = q}
           = Counted(call[p], p, q)
      /\ {x \in Points(List(p)[2]) : /\ Target(info[p], List(p)[1], x) = p
                                     /\ Source(info[p], List(p)[1], x) = q}
           = Counted(call[p], q, p)
  BY <1>1, <1>2 DEF Counted
<1> QED
  BY <1>3 DEF SendList, RecvList

LEMMA CountedFinite ==
  ASSUME NEW k, NEW a, NEW b
  PROVE  /\ IsFiniteSet(Counted(k, a, b)) /\ Cardinality(Counted(k, a, b)) \in Nat
         /\ Cardinality(Counted(k, a, b)) > 0 <=> Counted(k, a, b) # {}
<1>1. Counted(k, a, b) \subseteq Point
  BY DEF Counted, Points
<1>2. IsFiniteSet(Counted(k, a, b))
  BY <1>1, NestAssumption, FS_Subset
<1> QED
  BY <1>2, FS_CardinalityType, FS_EmptySet

\* The entries of the lists are the processors with points to move.
LEMMA EntriesNow ==
  ASSUME NEW p \in Proc, InTransferNow(p)
  PROVE  /\ Entries(SendList(info[p], p, List(p))) = {q \in Proc : Counted(call[p], p, q) # {}}
         /\ Entries(RecvList(info[p], p, List(p))) = {q \in Proc : Counted(call[p], q, p) # {}}
BY CountedNow, CountedFinite DEF Entries

\* What the packing loop goes through is what comes from here.
LEMMA LocalPointsNow ==
  ASSUME NEW p \in Proc, InTransferNow(p)
  PROVE  LocalPoints(info[p], p, List(p)) = {x \in Points(Op(p).nest) : From(call[p], x) = p}
<1>1. \A x \in Points(Op(p).nest) :
        /\ x \in NestPoint /\ Source(info[p], Op(p).kind, x) = From(call[p], x)
  BY SourcesNow, TransferOf
<1>2. \A x \in NestPoint : info[p].mother_P[x] = info[p].P[Mother[x]]
  BY DEF InTransferNow, IInv, CompiledIsCurrent, ListsCurrent
<1>3. List(p)[1] = Op(p).kind /\ List(p)[2] = Op(p).nest
  BY DEF List
<1> QED
  BY <1>1, <1>2, <1>3 DEF LocalPoints, Source

\* No more is packed than was counted.
LEMMA SharesFit ==
  ASSUME NEW p \in Proc, InTransferNow(p), NEW a, NEW b
  PROVE  /\ Share(call[p], a, b) \subseteq Counted(call[p], a, b)
         /\ Cardinality(Share(call[p], a, b)) <= Cardinality(Counted(call[p], a, b))
<1>1. Share(call[p], a, b) \subseteq Counted(call[p], a, b)
  BY TransferOf DEF Share, Counted
<1> QED
  BY <1>1, CountedFinite, FS_Subset

\* The lists are ready when the ready routine is done.
LEMMA ReadyLists ==
  ASSUME NEW g \in Info, NEW p \in Proc, NEW l \in Lists, ListsCurrent(g, p)
  PROVE  /\ Ready(g, p, l).send[l] = SendList(Ready(g, p, l), p, l)
         /\ Ready(g, p, l).recv[l] = RecvList(Ready(g, p, l), p, l)
         /\ Ready(g, p, l).Xlist[l] = LocalPoints(Ready(g, p, l), p, l)
         /\ Ready(g, p, l).P = g.P
<1> DEFINE c == IF l \in g.child_compiled \intersect g.parent_compiled
                THEN g ELSE Compile(g, p, l)
           h == [c EXCEPT !.Xlist[l] = LocalPoints(c, p, l)]
<1>1. c \in Info /\ ListsCurrent(c, p)
  BY CompileType, CompileCurrent
<1>2. l \in c.child_compiled \intersect c.parent_compiled /\ c.P = g.P
  BY DEF Compile, Info
<1> HIDE DEF c
<1>3. /\ c.send[l] = SendList(c, p, l) /\ c.recv[l] = RecvList(c, p, l)
      /\ c.Xlist[l] \in {{}, LocalPoints(c, p, l)}
  BY <1>1, <1>2 DEF ListsCurrent
<1>4. CASE c.Xlist[l] # {}
  <2>1. Ready(g, p, l) = c
    BY <1>4 DEF Ready, c
  <2> QED
    BY <1>2, <1>3, <1>4, <2>1
<1>5. CASE c.Xlist[l] = {}
  <2>1. Ready(g, p, l) = h
    BY <1>5 DEF Ready, c
  <2>2. /\ h.P = c.P /\ h.mother_P = c.mother_P /\ h.send = c.send /\ h.recv = c.recv
        /\ h.Xlist[l] = LocalPoints(c, p, l)
    BY <1>1 DEF Info
  <2> HIDE DEF h
  <2>3. /\ SendList(h, p, l) = SendList(c, p, l) /\ RecvList(h, p, l) = RecvList(c, p, l)
        /\ LocalPoints(h, p, l) = LocalPoints(c, p, l)
    BY <2>2, SameDecomposition
  <2> QED
    BY <1>2, <1>3, <2>1, <2>2, <2>3
<1> QED
  BY <1>4, <1>5

-------------------------------------------------------------------------------
(* A new operation *)

LEMMA NextOpGrows ==
  ASSUME IInv, NEW p \in Proc, NEW o \in Operation, NextOp(p, o)
  PROVE  /\ PlanGrows /\ call[p] \in 0..Len(plan) /\ call'[p] = call[p] + 1
         /\ call'[p] \in 1..Len(plan') /\ plan'[call'[p]] = o
         /\ Len(plan') > Len(plan) => call[p] = Len(plan) /\ Len(plan') = call[p] + 1
<1>1. /\ plan \in Seq(Operation) /\ Len(plan) \in Nat /\ call[p] \in 0..Len(plan)
  BY DEF IInv, TypeOK
<1>2. call'[p] = call[p] + 1 /\ plan'[call'[p]] = o /\ plan' \in Seq(Operation)
  BY NextOpFacts
<1>3. CASE call[p] < Len(plan)
  <2>1. plan' = plan
    BY <1>3 DEF NextOp
  <2> QED
    BY <1>1, <1>2, <1>3, <2>1 DEF PlanGrows
<1>4. CASE ~ (call[p] < Len(plan))
  <2>1. plan' = Append(plan, o)
    BY <1>4 DEF NextOp
  <2>2. Len(plan') = Len(plan) + 1 /\ \A i \in 1..Len(plan) : plan'[i] = plan[i]
    BY <1>1, <2>1
  <2> QED
    BY <1>1, <1>2, <1>4, <2>2 DEF PlanGrows
<1> QED
  BY <1>3, <1>4

HomesFollow ==
  \A k \in Nat, x \in Point :
    /\ plan[k + 1].kind = "cut" /\ plan[k + 1].dom = Domain[x] /\ plan[k + 1].P[x] \in Proc
         => Home(k + 1, x) = plan[k + 1].P[x]
    /\ ~ (plan[k + 1].kind = "cut" /\ plan[k + 1].dom = Domain[x])
         => Home(k + 1, x) = Home(k, x)

LEMMA HomeAfter == HomesFollow
BY HomeAfterCut, HomeAfterOther DEF HomesFollow

LEMMA HomeAfterStep == HomesFollow'
BY HomeAfter, PTL

\* Where points are after the new operation.
LEMMA HomeNext ==
  ASSUME IInv, NEW p \in Proc, NEW o \in Operation, NextOp(p, o),
         NEW k \in Nat, k = call[p], NEW x \in Point
  PROVE  /\ o.kind = "cut" /\ o.dom = Domain[x] => Home(k + 1, x)' = o.P[x]
         /\ ~ (o.kind = "cut" /\ o.dom = Domain[x]) => Home(k + 1, x)' = Home(k, x)
<1>1. plan'[k + 1] = o /\ k \in 0..Len(plan) /\ PlanGrows
  BY NextOpGrows
<1>2. HomesFollow'
  BY HomeAfterStep
<1>3. Home(k, x)' = Home(k, x)
  BY <1>1, HomeStable DEF IInv, TypeOK
<1>4. o.kind = "cut" /\ o.dom = Domain[x] => o.P[x] \in Proc
  BY CutParts DEF Points
<1> QED
  BY <1>1, <1>2, <1>3, <1>4 DEF HomesFollow

\* What a processor in a transfer counts, in a form that holds of the next state.
CountsNow ==
  \A p \in Proc : InTransferNow(p) =>
    /\ Entries(RecvList(info[p], p, List(p))) = {q \in Proc : Counted(call[p], q, p) # {}}
    /\ \A x \in Op(p).packs : /\ From(call[p], x) \in Proc
                              /\ x \in Counted(call[p], From(call[p], x), To(call[p], x))

LEMMA CountsHold == CountsNow
<1> SUFFICES ASSUME NEW p \in Proc, InTransferNow(p)
             PROVE  \A x \in Op(p).packs :
                      /\ From(call[p], x) \in Proc
                      /\ x \in Counted(call[p], From(call[p], x), To(call[p], x))
  BY EntriesNow DEF CountsNow
<1> QED
  BY TransferOf, SourcesNow DEF Counted

LEMMA CountsHoldNext == CountsNow'
BY CountsHold, PTL

LEMMA OthersStable ==
  ASSUME ExactInv, IInv', PlanGrows, NEW p \in Proc, \A q \in Proc \ {p} : Kept(q),
         NetInv', Local(p)'
  PROVE  ExactInv'
<1>1. ASSUME NEW q \in Proc PROVE Local(q)'
  <2>1. CASE q = p
    BY <2>1
  <2>2. CASE q # p
    BY <2>2, LocalStable DEF ExactInv
  <2> QED
    BY <2>1, <2>2
<1> QED
  BY <1>1 DEF ExactInv

LEMMA RedecomposeExact ==
  ASSUME ExactInv, NEW p \in Proc, NEW o \in Operation, Redecompose(p, o)
  PROVE  ExactInv'
<1>1. IInv /\ NetInv /\ Local(p) /\ IInv'
  BY RedecomposeInv DEF ExactInv
<1>2. NextOp(p, o) /\ o.kind = "cut" /\ pc[p] = "idle" /\ pc' = pc
  BY DEF Redecompose, NextOp
<1>3. /\ PlanGrows /\ call[p] \in 0..Len(plan) /\ call'[p] = call[p] + 1
      /\ call'[p] \in 1..Len(plan') /\ plan'[call'[p]] = o
      /\ Len(plan') > Len(plan) => call[p] = Len(plan) /\ Len(plan') = call[p] + 1
  BY <1>1, <1>2, NextOpGrows
<1>4. PICK k \in Nat : k = call[p]
  BY <1>3 DEF IInv, TypeOK
<1>5. Idle(p)
  BY <1>1, <1>2 DEF Local
<1>6. ASSUME NEW q \in Proc \ {p} PROVE Kept(q)
  <2>1. call' = [call EXCEPT ![p] = @ + 1] /\ info' = [info EXCEPT ![p] = Decompose(@, o.dom, o.P)]
        /\ taken' = [taken EXCEPT ![p] = {}]
    BY <1>2 DEF Redecompose, NextOp
  <2>2. call'[q] = call[q] /\ info'[q] = info[q] /\ taken'[q] = taken[q]
    BY <1>1, <2>1 DEF IInv, TypeOK
  <2> QED
    BY <2>2 DEF Redecompose, Kept, mpi
<1>7. AtHome(p)'
  <2>1. info'[p] = Decompose(info[p], o.dom, o.P) /\ info[p] \in Info
    BY <1>1 DEF Redecompose, IInv, TypeOK
  <2>2. \A x \in Point : info'[p].P[x] = IF Domain[x] = o.dom THEN o.P[x] ELSE info[p].P[x]
    BY <2>1 DEF Decompose, Info
  <2>3. \A x \in Point : info[p].P[x] = Home(k, x)
    BY <1>1, <1>4 DEF Local, AtHome
  <2>4. \A x \in Point : Home(k + 1, x)' = IF Domain[x] = o.dom THEN o.P[x] ELSE Home(k, x)
    BY <1>1, <1>2, <1>4, HomeNext
  <2>5. call'[p] = k + 1
    BY <1>3, <1>4
  <2> QED
    BY <2>2, <2>3, <2>4, <2>5 DEF AtHome
<1>8. Local(p)'
  <2>1. Idle(p)' /\ pc'[p] = "idle"
    BY <1>2, <1>5 DEF Idle, Redecompose, mpi
  <2>2. Exact(p)'
    BY <1>2, <1>3 DEF Exact, Op
  <2> QED
    BY <1>7, <2>1, <2>2 DEF Local
<1>9. NetInv'
  <2>1. net' = net
    BY DEF Redecompose, mpi
  <2>2. posted[p] = {} /\ toSend[p] = {} /\ posted'[p] = {} /\ toSend'[p] = {}
    BY <1>5 DEF Idle, Redecompose, mpi
  <2>3. \A q : ~ Talks(k + 1, p, q)' /\ ~ Talks(k + 1, q, p)'
    BY <1>2, <1>3, <1>4 DEF Talks
  <2>4. \A i \in 1..Len(plan) : \A q : /\ Talks(i, p, q)' = Talks(i, p, q)
                                        /\ Talks(i, q, p)' = Talks(i, q, p)
    BY <1>1, <1>3, PastStable DEF IInv, TypeOK
  <2>5. call'[p] = k + 1 /\ call[p] = k /\ k \in 0..Len(plan) /\ Len(plan) \in Nat
    BY <1>1, <1>3, <1>4 DEF IInv, TypeOK
  <2>6. ASSUME NEW i \in 1..Len(plan), NEW q \in Proc \ {p}, Talks(i, p, q)
        PROVE  SentFor(i, p, q)' <=> SentFor(i, p, q)
    <3>1. i # k + 1 /\ Talks(i, p, q)'
      BY <2>3, <2>4, <2>6
    <3>2. i < k + 1 <=> i < k \/ i = k
      BY <2>5
    <3> QED
      BY <1>2, <2>2, <2>5, <2>6, <3>1, <3>2 DEF SentFor
  <2>7. ASSUME NEW i \in 1..Len(plan), NEW q \in Proc \ {p}, Talks(i, q, p)
        PROVE  Matched(i, q, p)' <=> Matched(i, q, p)
    <3>1. i # k + 1
      BY <2>3, <2>4, <2>7
    <3>2. i < k + 1 <=> i < k \/ i = k
      BY <2>5
    <3> QED
      BY <2>2, <2>5, <3>1, <3>2 DEF Matched
  <2>8. ASSUME NEW i \in 1..Len(plan'), NEW q \in Proc \ {p}, i > Len(plan)
        PROVE  ~ SentFor(i, p, q)' /\ (Talks(i, q, p)' => ~ Matched(i, q, p)')
    <3>1. i = k + 1
      BY <1>3, <1>4, <2>5, <2>8
    <3> QED
      BY <2>3, <3>1 DEF SentFor
  <2> QED
    BY <1>1, <1>3, <1>6, <2>1, <2>6, <2>7, <2>8, NetStable
<1> QED
  BY <1>1, <1>3, <1>6, <1>8, <1>9, OthersStable

\* What is left of the invariant when a new transfer begins.
LEMMA EnterLocal ==
  ASSUME ExactInv, IInv', NEW p \in Proc, NEW o \in Operation, Enter(p, o)
  PROVE  /\ Local(p)'
         /\ \A q \in Proc \ {p} : Counted(call[p], q, p)' # {} => \E h \in posted'[p] : h.src = q
<1> DEFINE l == <<o.kind, o.nest>>
           g == Ready(info[p], p, l)
<1>1. IInv /\ Local(p)
  BY DEF ExactInv
<1>2. NextOp(p, o) /\ o.kind # "cut" /\ pc[p] = "idle"
  BY DEF Enter, NextOp
<1>3. /\ PlanGrows /\ call[p] \in 0..Len(plan) /\ call'[p] = call[p] + 1
      /\ call'[p] \in 1..Len(plan') /\ plan'[call'[p]] = o
  BY <1>1, <1>2, NextOpGrows
<1>4. PICK k \in Nat : k = call[p]
  BY <1>3 DEF IInv, TypeOK
<1>5. call'[p] = k + 1 /\ Op(p)' = o /\ List(p)' = l
  BY <1>3, <1>4 DEF Op, List
<1>6. posted[p] = {} /\ done[p] = {} /\ toSend[p] = {}
  BY <1>1, <1>2 DEF Local, Idle
<1>7. info[p] \in Info /\ l \in Lists /\ ListsCurrent(info[p], p)
  BY <1>1, <1>2, TransferParts DEF IInv, TypeOK, CompiledIsCurrent
<1>8. /\ g.send[l] = SendList(g, p, l) /\ g.recv[l] = RecvList(g, p, l)
      /\ g.Xlist[l] = LocalPoints(g, p, l) /\ g.P = info[p].P
  BY <1>7, ReadyLists
<1>9. /\ info'[p] = g
      /\ Ptags'[p] = Entries(g.recv[l])
      /\ posted'[p] = {Request(p, q, o, call[p] + 1, g.recv[l][q]) : q \in Entries(g.recv[l]) \ {p}}
      /\ Plist'[p] = [q \in Proc |-> {}] /\ taken'[p] = {} /\ pc'[p] = "packing"
      /\ toSend'[p] = {} /\ done'[p] = {}
  BY <1>1, <1>6 DEF Enter, IInv, TypeOK
<1> HIDE DEF g, l
<1>10. AtHome(p)'
  <2>1. \A x \in Point : info[p].P[x] = Home(k, x)
    BY <1>1, <1>4 DEF Local, AtHome
  <2>2. \A x \in Point : Home(k + 1, x)' = Home(k, x)
    BY <1>1, <1>2, <1>4, HomeNext
  <2> QED
    BY <1>5, <1>8, <1>9, <2>1, <2>2 DEF AtHome
<1>11. InTransferNow(p)'
  BY <1>2, <1>3, <1>5, <1>10 DEF InTransferNow
<1>12. ListsOfNow(p)'
  <2>1. /\ SendList(info[p], p, List(p))' = SendList(g, p, l)
        /\ RecvList(info[p], p, List(p))' = RecvList(g, p, l)
    BY <1>5, <1>9 DEF SendList, RecvList, Source, Target
  <2>2. LocalPoints(info[p], p, List(p))' = LocalPoints(g, p, l)
    BY <1>5, <1>9 DEF LocalPoints
  <2> QED
    BY <1>5, <1>8, <1>9, <2>1, <2>2 DEF ListsOfNow
<1>13. Entries(g.recv[l]) = {q \in Proc : Counted(call[p], q, p)' # {}}
  <2>1. Entries(RecvList(info[p], p, List(p)))' = {q \in Proc : Counted(call[p], q, p)' # {}}
    BY <1>11, CountsHoldNext DEF CountsNow
  <2>2. Entries(RecvList(info[p], p, List(p)))' = Entries(g.recv[l])
    BY <1>5, <1>9, <1>12 DEF ListsOfNow, Entries
  <2> QED
    BY <2>1, <2>2
<1>14. Receives(p)'
  <2>1. \A q : Asked(p, q)' = Request(p, q, o, call[p] + 1, g.recv[l][q])
    BY <1>3, <1>5, <1>9 DEF Asked, Request
  <2> QED
    BY <1>9, <1>13, <2>1 DEF Receives
<1>15. TakenSoFar(p)'
  <2>1. \A x \in o.packs : /\ From(call[p], x)' \in Proc
                           /\ x \in Counted(call[p], From(call[p], x), To(call[p], x))'
    BY <1>5, <1>11, CountsHoldNext DEF CountsNow
  <2>2. \A x \in o.packs : To(call[p], x)' = p => From(call[p], x)' \in Ptags'[p]
    BY <1>9, <1>13, <2>1
  <2> QED
    BY <1>5, <1>9, <2>2 DEF TakenSoFar
<1>16. Sends(p)'
  BY <1>9 DEF Sends
<1>17. Local(p)'
  BY <1>9, <1>10, <1>12, <1>14, <1>15, <1>16 DEF Local, Busy, Exact
<1>18. ASSUME NEW q \in Proc \ {p}, Counted(call[p], q, p)' # {}
       PROVE  \E h \in posted'[p] : h.src = q
  <2>1. q \in Entries(g.recv[l]) \ {p}
    BY <1>13, <1>18
  <2>2. Request(p, q, o, call[p] + 1, g.recv[l][q]) \in posted'[p]
    BY <1>9, <2>1
  <2>3. Request(p, q, o, call[p] + 1, g.recv[l][q]).src = q
    BY DEF Request
  <2> QED
    BY <2>2, <2>3, Zenon
<1> QED
  BY <1>17, <1>18

LEMMA EnterExact ==
  ASSUME ExactInv, NEW p \in Proc, NEW o \in Operation, Enter(p, o)
  PROVE  ExactInv'
<1>1. IInv /\ NetInv /\ Local(p) /\ IInv'
  BY EnterInv DEF ExactInv
<1>2. NextOp(p, o) /\ o.kind # "cut" /\ pc[p] = "idle"
  BY DEF Enter, NextOp
<1>3. /\ PlanGrows /\ call[p] \in 0..Len(plan) /\ call'[p] = call[p] + 1
      /\ call'[p] \in 1..Len(plan') /\ plan'[call'[p]] = o
      /\ Len(plan') > Len(plan) => call[p] = Len(plan) /\ Len(plan') = call[p] + 1
  BY <1>1, <1>2, NextOpGrows
<1>4. PICK k \in Nat : k = call[p]
  BY <1>3 DEF IInv, TypeOK
<1>5. posted[p] = {} /\ toSend[p] = {} /\ toSend' = toSend
  BY <1>1, <1>2 DEF Local, Idle, Enter
<1>6. /\ Local(p)'
      /\ \A q \in Proc \ {p} : Counted(k + 1, q, p)' # {} => \E h \in posted'[p] : h.src = q
  BY <1>1, <1>3, <1>4, EnterLocal
<1>7. ASSUME NEW q \in Proc \ {p} PROVE Kept(q)
  <2> DEFINE l == <<o.kind, o.nest>>
             g == Ready(info[p], p, l)
             asked == {Request(p, r, o, call[p] + 1, g.recv[l][r]) : r \in Entries(g.recv[l]) \ {p}}
  <2>1. /\ call' = [call EXCEPT ![p] = @ + 1] /\ info' = [info EXCEPT ![p] = g]
        /\ taken' = [taken EXCEPT ![p] = {}] /\ pc' = [pc EXCEPT ![p] = "packing"]
        /\ Ptags' = [Ptags EXCEPT ![p] = Entries(g.recv[l])]
        /\ posted' = [posted EXCEPT ![p] = @ \union asked]
        /\ Plist' = [Plist EXCEPT ![p] = [r \in Proc |-> {}]]
    BY <1>2 DEF Enter, NextOp
  <2> HIDE DEF g, l, asked
  <2>2. /\ call'[q] = call[q] /\ info'[q] = info[q] /\ taken'[q] = taken[q] /\ pc'[q] = pc[q]
        /\ Ptags'[q] = Ptags[q] /\ posted'[q] = posted[q] /\ Plist'[q] = Plist[q]
    BY <1>1, <2>1 DEF IInv, TypeOK
  <2> QED
    BY <2>2 DEF Enter, Kept
<1>8. NetInv'
  <2>1. net' = net /\ pc'[p] = "packing" /\ call'[p] = k + 1 /\ call[p] = k
    BY <1>1, <1>3, <1>4 DEF Enter, IInv, TypeOK
  <2>2. k \in 0..Len(plan) /\ Len(plan) \in Nat
    BY <1>1, <1>3, <1>4 DEF IInv, TypeOK
  <2>3. \A q \in Proc \ {p} : Talks(k + 1, q, p)' => ~ Matched(k + 1, q, p)'
    BY <1>6, <2>1 DEF Talks, Matched
  <2>4. \A i \in 1..Len(plan) : \A q : /\ Talks(i, p, q)' = Talks(i, p, q)
                                        /\ Talks(i, q, p)' = Talks(i, q, p)
    BY <1>1, <1>3, PastStable DEF IInv, TypeOK
  <2>5. ASSUME NEW i \in 1..Len(plan), NEW q \in Proc \ {p}, Talks(i, p, q)
        PROVE  SentFor(i, p, q)' <=> SentFor(i, p, q)
    <3>1. i < k + 1 <=> i < k \/ i = k
      BY <2>2
    <3>2. Talks(i, p, q)'
      BY <2>4, <2>5
    <3> QED
      BY <1>2, <1>5, <2>1, <2>5, <3>1, <3>2 DEF SentFor
  <2>6. ASSUME NEW i \in 1..Len(plan), NEW q \in Proc \ {p}, Talks(i, q, p)
        PROVE  Matched(i, q, p)' <=> Matched(i, q, p)
    <3>1. i < k + 1 <=> i < k \/ i = k
      BY <2>2
    <3>2. CASE i = k + 1
      BY <1>5, <2>1, <2>2, <2>3, <2>4, <2>6, <3>2 DEF Matched
    <3>3. CASE i # k + 1
      BY <1>5, <2>1, <2>2, <3>1, <3>3 DEF Matched
    <3> QED
      BY <3>2, <3>3
  <2>7. ASSUME NEW i \in 1..Len(plan'), NEW q \in Proc \ {p}, i > Len(plan)
        PROVE  ~ SentFor(i, p, q)' /\ (Talks(i, q, p)' => ~ Matched(i, q, p)')
    <3>1. i = k + 1
      BY <1>3, <1>4, <2>2, <2>7
    <3>2. ~ SentFor(i, p, q)'
      BY <2>1, <3>1 DEF SentFor
    <3> QED
      BY <2>3, <3>1, <3>2
  <2> QED
    BY <1>1, <1>3, <1>7, <2>1, <2>5, <2>6, <2>7, NetStable
<1> QED
  BY <1>1, <1>3, <1>6, <1>7, <1>8, OthersStable

-------------------------------------------------------------------------------
(* The steps of a transfer *)

\* A step that neither begins an operation nor sends or matches a message.
LEMMA QuietStep ==
  ASSUME ExactInv, IInv', NEW p \in Proc, UNCHANGED <<plan, call, posted, net>>,
         \A q \in Proc \ {p} : Kept(q), Local(p)',
         \A q \in Proc \ {p} : Talks(call[p], p, q) =>
           (pc'[p] # "packing" /\ q \notin toSend'[p] <=> pc[p] # "packing" /\ q \notin toSend[p])
  PROVE  ExactInv'
<1>1. IInv /\ NetInv /\ plan \in Seq(Operation)
  BY DEF ExactInv, IInv, TypeOK
<1>2. PlanGrows
  BY <1>1 DEF PlanGrows
<1>3. \A k \in 1..Len(plan) : \A q : Talks(k, p, q)' = Talks(k, p, q)
  BY <1>1, <1>2, PastStable
<1>4. \A k \in 1..Len(plan), q \in Proc \ {p} :
        /\ Talks(k, p, q) => (SentFor(k, p, q)' <=> SentFor(k, p, q))
        /\ Talks(k, q, p) => (Matched(k, q, p)' <=> Matched(k, q, p))
  BY <1>3 DEF SentFor, Matched
<1>5. NetInv'
  BY <1>1, <1>2, <1>4, NetStable
<1> QED
  BY <1>1, <1>2, <1>5, OthersStable

LEMMA PackExact ==
  ASSUME ExactInv, NEW p \in Proc, Pack(p)
  PROVE  ExactInv'
<1>1. IInv /\ Local(p) /\ IInv' /\ pc[p] = "packing"
  BY PackInv DEF ExactInv, Pack
<1>2. Busy(p) /\ AtHome(p) /\ InTransferNow(p)
  BY <1>1 DEF Local, InTransferNow, IInv, InTransfer
<1>3. /\ call[p] \in 1..Len(plan) /\ plan \in Seq(Operation) /\ Op(p) = plan[call[p]]
      /\ Op(p).packs \subseteq Points(Op(p).nest) /\ Points(Op(p).nest) \subseteq NestPoint
  BY <1>1, <1>2, TransferOf DEF IInv, TypeOK
<1>4. PlanGrows
  BY <1>3 DEF Pack, PlanGrows
<1> DEFINE want == info[p].Xlist[List(p)] \intersect Op(p).packs
           staged == [q \in Proc |-> {x \in want : Target(info[p], Op(p).kind, x) = q}]
<1>5. /\ Plist' = [Plist EXCEPT ![p] = staged]
      /\ toSend' = [toSend EXCEPT ![p] = Entries(info[p].send[List(p)])]
      /\ pc' = [pc EXCEPT ![p] = "sending"]
  BY DEF Pack
<1>6. \A q \in Proc : staged[q] = Share(call[p], p, q)
  <2>1. want = {x \in Op(p).packs : From(call[p], x) = p}
    BY <1>2, <1>3, LocalPointsNow DEF Busy, ListsOfNow
  <2>2. \A x \in Op(p).packs : Target(info[p], Op(p).kind, x) = To(call[p], x)
    BY <1>2, <1>3, SourcesNow
  <2> QED
    BY <1>3, <2>1, <2>2 DEF Share
<1> HIDE DEF staged
<1>7. /\ Plist'[p] = staged /\ toSend'[p] = {q \in Proc : Counted(call[p], p, q) # {}}
      /\ pc'[p] = "sending"
  BY <1>1, <1>2, <1>5, EntriesNow DEF Busy, ListsOfNow, IInv, TypeOK
<1>8. ASSUME NEW q \in Proc \ {p} PROVE Kept(q)
  <2>1. Plist'[q] = Plist[q] /\ toSend'[q] = toSend[q] /\ pc'[q] = pc[q]
    BY <1>1, <1>5 DEF IInv, TypeOK
  <2> QED
    BY <2>1 DEF Pack, Kept, mpi
<1>9. Local(p)'
  <2>1. /\ call'[p] = call[p] /\ info'[p] = info[p] /\ call[p] # 0
        /\ posted' = posted /\ done' = done /\ rbuf' = rbuf /\ Ptags' = Ptags
        /\ taken' = taken /\ sbuf' = sbuf
    BY <1>3 DEF Pack, mpi
  <2>2. /\ Op(p)' = Op(p) /\ List(p)' = List(p)
        /\ \A a, b : /\ Counted(call[p], a, b)' = Counted(call[p], a, b)
                    /\ Share(call[p], a, b)' = Share(call[p], a, b)
                    /\ Packed(call[p], a, b)' = Packed(call[p], a, b)
        /\ \A x : From(call[p], x)' = From(call[p], x) /\ To(call[p], x)' = To(call[p], x)
        /\ \A q : Asked(p, q)' = Asked(p, q)
        /\ AtHome(p)' /\ ListsOfNow(p)'
    BY <1>1, <1>2, <1>4, <2>1, SameTransfer DEF Busy
  <2>3. Receives(p)'
    BY <1>2, <1>7, <2>1, <2>2 DEF Busy, Receives
  <2>4. TakenSoFar(p)'
    BY <1>2, <2>1, <2>2 DEF Busy, TakenSoFar
  <2>5. Sends(p)'
    BY <1>6, <1>7, <2>1, <2>2 DEF Sends
  <2>6. Exact(p)'
    BY <1>7 DEF Exact
  <2> QED
    BY <1>7, <2>2, <2>3, <2>4, <2>5, <2>6 DEF Local, Busy
<1>10. \A q \in Proc \ {p} : Talks(call[p], p, q) => q \in toSend'[p]
  BY <1>7 DEF Talks
<1> QED
  BY <1>1, <1>8, <1>9, <1>10, QuietStep DEF Pack, mpi

\* A processor in a transfer, with what a step of its own leaves alone.
LEMMA OwnStep ==
  ASSUME ExactInv, NEW p \in Proc, pc[p] # "idle", plan' = plan,
         call'[p] = call[p], info'[p] = info[p]
  PROVE  /\ IInv /\ Busy(p) /\ AtHome(p) /\ InTransferNow(p) /\ call[p] # 0 /\ PlanGrows
         /\ Op(p)' = Op(p) /\ List(p)' = List(p)
         /\ \A a, b : /\ Counted(call[p], a, b)' = Counted(call[p], a, b)
                     /\ Share(call[p], a, b)' = Share(call[p], a, b)
                     /\ Packed(call[p], a, b)' = Packed(call[p], a, b)
         /\ \A x : From(call[p], x)' = From(call[p], x) /\ To(call[p], x)' = To(call[p], x)
         /\ \A q : Asked(p, q)' = Asked(p, q)
         /\ AtHome(p)' /\ ListsOfNow(p)'
<1>1. IInv /\ Busy(p) /\ AtHome(p) /\ InTransferNow(p)
  BY DEF ExactInv, Local, InTransferNow, IInv, InTransfer
<1>2. call[p] # 0 /\ PlanGrows
  BY <1>1, TransferOf DEF PlanGrows, IInv, TypeOK
<1> QED
  BY <1>1, <1>2, SameTransfer DEF Busy

LEMMA SendReturnsExact ==
  ASSUME ExactInv, NEW p \in Proc, SendReturns(p)
  PROVE  ExactInv'
<1>1. /\ IInv /\ IInv' /\ pc[p] = "blocked" /\ pc' = [pc EXCEPT ![p] = "sending"]
      /\ UNCHANGED <<plan, call, info, Plist, toSend, Ptags, peer, taken, sbuf, mpi>>
  BY SendReturnsInv DEF ExactInv, SendReturns
<1>2. pc'[p] = "sending" /\ \A q \in Proc \ {p} : pc'[q] = pc[q]
  BY <1>1 DEF IInv, TypeOK
<1>3. \A q \in Proc \ {p} : Kept(q)
  BY <1>1, <1>2 DEF Kept, mpi
<1>4. Local(p)'
  <2>1. /\ Busy(p) /\ Op(p)' = Op(p) /\ AtHome(p)' /\ ListsOfNow(p)'
        /\ \A a, b : /\ Counted(call[p], a, b)' = Counted(call[p], a, b)
                    /\ Share(call[p], a, b)' = Share(call[p], a, b)
                    /\ Packed(call[p], a, b)' = Packed(call[p], a, b)
        /\ \A x : From(call[p], x)' = From(call[p], x) /\ To(call[p], x)' = To(call[p], x)
        /\ \A q : Asked(p, q)' = Asked(p, q)
    BY <1>1, OwnStep
  <2>2. Receives(p)'
    BY <1>1, <1>2, <2>1 DEF Busy, Receives, mpi
  <2>3. TakenSoFar(p)'
    BY <1>1, <2>1 DEF Busy, TakenSoFar
  <2>4. Sends(p)'
    BY <1>1, <1>2, <2>1 DEF Busy, Sends
  <2>5. Exact(p)'
    BY <1>2 DEF Exact
  <2> QED
    BY <1>2, <2>1, <2>2, <2>3, <2>4, <2>5 DEF Local, Busy
<1> QED
  BY <1>1, <1>2, <1>3, <1>4, QuietStep DEF mpi

LEMMA NextMessageExact ==
  ASSUME ExactInv, NEW p \in Proc, NextMessage(p)
  PROVE  ExactInv'
<1>1. /\ IInv /\ IInv' /\ pc[p] = "sending" /\ toSend[p] = {}
      /\ UNCHANGED <<plan, call, info, Plist, toSend, sbuf, mpi>>
  BY NextMessageInv DEF ExactInv, NextMessage
<1>2. /\ Busy(p) /\ Op(p)' = Op(p) /\ AtHome(p)' /\ ListsOfNow(p)'
      /\ \A a, b : /\ Counted(call[p], a, b)' = Counted(call[p], a, b)
                  /\ Share(call[p], a, b)' = Share(call[p], a, b)
                  /\ Packed(call[p], a, b)' = Packed(call[p], a, b)
      /\ \A x : From(call[p], x)' = From(call[p], x) /\ To(call[p], x)' = To(call[p], x)
      /\ \A q : Asked(p, q)' = Asked(p, q)
  BY <1>1, OwnStep
<1>3. PICK q \in First(Ptags[p]) :
        /\ peer' = [peer EXCEPT ![p] = q]
        /\ IF q = p
           THEN /\ Ptags' = [Ptags EXCEPT ![p] = @ \ {p}]
                /\ taken' = [taken EXCEPT ![p] = @ \union Unpacked(sbuf[p])]
                /\ UNCHANGED pc
           ELSE /\ pc' = [pc EXCEPT ![p] = "waiting"]
                /\ UNCHANGED <<Ptags, taken>>
  BY DEF NextMessage
<1>4. q \in Ptags[p]
  BY DEF First
<1>5. ASSUME NEW r \in Proc \ {p} PROVE Kept(r)
  <2>1. peer'[r] = peer[r] /\ Ptags'[r] = Ptags[r]
    BY <1>1, <1>3 DEF IInv, TypeOK
  <2>2. taken'[r] = taken[r] /\ pc'[r] = pc[r]
    BY <1>1, <1>3 DEF IInv, TypeOK
  <2> QED
    BY <1>1, <2>1, <2>2 DEF Kept, mpi
<1>6. CASE q = p
  <2>1. /\ peer'[p] = p /\ Ptags'[p] = Ptags[p] \ {p} /\ pc'[p] = "sending"
        /\ taken'[p] = taken[p] \union Unpacked(sbuf[p])
    <3>1. peer'[p] = p /\ Ptags'[p] = Ptags[p] \ {p}
      BY <1>1, <1>3, <1>6 DEF IInv, TypeOK
    <3>2. taken'[p] = taken[p] \union Unpacked(sbuf[p]) /\ pc'[p] = "sending"
      BY <1>1, <1>3, <1>6 DEF IInv, TypeOK
    <3> QED
      BY <3>1, <3>2
  <2>2. sbuf[p] = Packed(call[p], p, p)
    BY <1>1, <1>2, <1>4, <1>6 DEF Busy, Sends, Receives
  <2>3. Unpacked(sbuf[p]) = {[point |-> x, call |-> call[p]] : x \in
           {y \in Op(p).packs : To(call[p], y) = p /\ From(call[p], y) = p}}
    BY <2>2 DEF Unpacked, Packed, Share, Op
  <2>4. TakenSoFar(p)'
    <3>1. taken[p] = {[point |-> x, call |-> call[p]] : x \in
             {y \in Op(p).packs : To(call[p], y) = p /\ From(call[p], y) \notin Ptags[p]}}
      BY <1>2 DEF Busy, TakenSoFar
    <3>2. \A y \in Op(p).packs : From(call[p], y) \notin Ptags[p] \ {p}
            <=> From(call[p], y) \notin Ptags[p] \/ From(call[p], y) = p
      OBVIOUS
    <3>3. taken'[p] = {[point |-> x, call |-> call[p]] : x \in
             {y \in Op(p).packs : To(call[p], y) = p /\ From(call[p], y) \notin Ptags[p] \ {p}}}
      BY <2>1, <2>3, <3>1, <3>2
    <3> QED
      BY <1>1, <1>2, <2>1, <3>3 DEF TakenSoFar
  <2>5. Receives(p)'
    BY <1>1, <1>2, <2>1 DEF Busy, Receives, mpi
  <2>6. Sends(p)'
    BY <1>1, <1>2, <2>1 DEF Busy, Sends
  <2>7. Local(p)'
    BY <1>2, <2>1, <2>4, <2>5, <2>6 DEF Local, Busy, Exact
  <2> QED
    BY <1>1, <1>5, <2>1, <2>7, QuietStep DEF mpi
<1>7. CASE q # p
  <2>1. peer'[p] = q /\ Ptags'[p] = Ptags[p] /\ pc'[p] = "waiting" /\ taken'[p] = taken[p]
    BY <1>1, <1>3, <1>7 DEF IInv, TypeOK
  <2>2. TakenSoFar(p)'
    BY <1>1, <1>2, <2>1 DEF Busy, TakenSoFar
  <2>3. Receives(p)'
    BY <1>1, <1>2, <1>4, <1>7, <2>1 DEF Busy, Receives, mpi
  <2>4. Sends(p)'
    BY <1>1, <1>2, <2>1 DEF Busy, Sends
  <2>5. Local(p)'
    BY <1>2, <2>1, <2>2, <2>3, <2>4 DEF Local, Busy, Exact
  <2> QED
    BY <1>1, <1>5, <2>1, <2>5, QuietStep DEF mpi
<1> QED
  BY <1>6, <1>7

LEMMA WaitUnpackExact ==
  ASSUME ExactInv, NEW p \in Proc, WaitUnpack(p)
  PROVE  ExactInv'
<1> DEFINE q == peer[p]
<1>1. /\ IInv /\ IInv' /\ pc[p] = "waiting"
      /\ UNCHANGED <<plan, call, info, Plist, toSend, peer, sbuf, rbuf, posted, net>>
  BY WaitUnpackInv DEF ExactInv, WaitUnpack
<1>2. /\ Busy(p) /\ Op(p)' = Op(p) /\ AtHome(p)' /\ ListsOfNow(p)'
      /\ \A a, b : /\ Counted(call[p], a, b)' = Counted(call[p], a, b)
                  /\ Share(call[p], a, b)' = Share(call[p], a, b)
                  /\ Packed(call[p], a, b)' = Packed(call[p], a, b)
      /\ \A x : From(call[p], x)' = From(call[p], x) /\ To(call[p], x)' = To(call[p], x)
      /\ \A r : Asked(p, r)' = Asked(p, r)
  BY <1>1, OwnStep
<1>3. PICK h \in done[p] : h.src = q /\ done' = [done EXCEPT ![p] = @ \ {h}]
  BY DEF WaitUnpack
<1>4. /\ Ptags' = [Ptags EXCEPT ![p] = @ \ {q}]
      /\ taken' = [taken EXCEPT ![p] = @ \union Unpacked(rbuf[p][q])]
      /\ pc' = [pc EXCEPT ![p] = "sending"]
  BY DEF WaitUnpack
<1>5. /\ done'[p] = done[p] \ {h} /\ Ptags'[p] = Ptags[p] \ {q} /\ pc'[p] = "sending"
      /\ taken'[p] = taken[p] \union Unpacked(rbuf[p][q])
  BY <1>1, <1>3, <1>4 DEF IInv, TypeOK
<1>6. ASSUME NEW r \in Proc \ {p} PROVE Kept(r)
  <2>1. done'[r] = done[r] /\ Ptags'[r] = Ptags[r] /\ taken'[r] = taken[r] /\ pc'[r] = pc[r]
    BY <1>1, <1>3, <1>4 DEF IInv, TypeOK
  <2> QED
    BY <1>1, <2>1 DEF Kept
<1> HIDE DEF q
<1>7. /\ q \in Ptags[p] \ {p} /\ toSend[p] = {}
      /\ posted[p] \union done[p] = {Asked(p, r) : r \in Ptags[p] \ {p}}
      /\ posted[p] \intersect done[p] = {}
      /\ \A i \in done[p] : rbuf[p][i.src] = Packed(call[p], i.src, p)
  BY <1>1, <1>2 DEF Busy, Receives, q
<1>8. TakenSoFar(p)'
  <2>1. rbuf[p][q] = Packed(call[p], q, p)
    BY <1>3, <1>7
  <2>2. Unpacked(rbuf[p][q]) = {[point |-> x, call |-> call[p]] : x \in
           {y \in Op(p).packs : To(call[p], y) = p /\ From(call[p], y) = q}}
    BY <2>1 DEF Unpacked, Packed, Share, Op
  <2>3. taken[p] = {[point |-> x, call |-> call[p]] : x \in
           {y \in Op(p).packs : To(call[p], y) = p /\ From(call[p], y) \notin Ptags[p]}}
    BY <1>2 DEF Busy, TakenSoFar
  <2>4. \A y \in Op(p).packs : From(call[p], y) \notin Ptags[p] \ {q}
          <=> From(call[p], y) \notin Ptags[p] \/ From(call[p], y) = q
    OBVIOUS
  <2>5. taken'[p] = {[point |-> x, call |-> call[p]] : x \in
           {y \in Op(p).packs : To(call[p], y) = p /\ From(call[p], y) \notin Ptags[p] \ {q}}}
    BY <1>5, <2>2, <2>3, <2>4
  <2> QED
    BY <1>1, <1>2, <1>5, <2>5 DEF TakenSoFar
<1>9. Receives(p)'
  <2>1. \A r : Asked(p, r).src = r
    BY DEF Asked, Request
  <2>2. h = Asked(p, q) /\ h \notin posted[p]
    BY <1>3, <1>7, <2>1
  <2>3. posted[p] \union (done[p] \ {h}) = {Asked(p, r) : r \in (Ptags[p] \ {q}) \ {p}}
    BY <1>7, <2>1, <2>2
  <2> QED
    BY <1>1, <1>2, <1>5, <1>7, <2>3 DEF Busy, Receives
<1>10. Sends(p)'
  BY <1>1, <1>2, <1>5 DEF Busy, Sends
<1>11. Local(p)'
  BY <1>2, <1>5, <1>8, <1>9, <1>10 DEF Local, Busy, Exact
<1> QED
  BY <1>1, <1>5, <1>6, <1>11, QuietStep

LEMMA ReturnExact ==
  ASSUME ExactInv, NEW p \in Proc, Return(p)
  PROVE  ExactInv'
<1>1. /\ IInv /\ IInv' /\ pc[p] = "sending" /\ toSend[p] = {} /\ Ptags[p] = {}
      /\ UNCHANGED <<plan, call, info, toSend, Ptags, peer, taken, sbuf, mpi>>
      /\ pc' = [pc EXCEPT ![p] = "idle"]
      /\ Plist' = [Plist EXCEPT ![p] = [q \in Proc |-> {}]]
  BY ReturnInv DEF ExactInv, Return
<1>2. Busy(p) /\ Op(p)' = Op(p) /\ AtHome(p)' /\ InTransferNow(p)
  BY <1>1, OwnStep
<1>3. pc'[p] = "idle" /\ \A q \in Proc \ {p} : pc'[q] = pc[q] /\ Plist'[q] = Plist[q]
  BY <1>1 DEF IInv, TypeOK
<1>4. \A q \in Proc \ {p} : Kept(q)
  BY <1>1, <1>3 DEF Kept, mpi
<1>5. Idle(p)'
  BY <1>1, <1>2 DEF Busy, Receives, Idle, mpi
<1>6. Exact(p)'
  <2>1. taken[p] = {[point |-> x, call |-> call[p]] :
                      x \in {y \in Op(p).packs : To(call[p], y) = p}}
    BY <1>1, <1>2 DEF Busy, TakenSoFar
  <2>2. \A y \in Op(p).packs : Target(info[p], Op(p).kind, y) = To(call[p], y)
    BY <1>2, TransferOf, SourcesNow
  <2>3. taken[p] = {[point |-> x, call |-> call[p]] :
                      x \in {y \in Op(p).packs : Target(info[p], Op(p).kind, y) = p}}
    BY <2>1, <2>2
  <2> QED
    BY <1>1, <1>2, <2>3 DEF Exact, Target
<1>7. Local(p)'
  BY <1>2, <1>3, <1>5, <1>6 DEF Local
<1> QED
  BY <1>1, <1>3, <1>4, <1>7, QuietStep DEF mpi

\* A message is sent once, and not before it is packed.
LEMMA SendNet ==
  ASSUME ExactInv, NEW p \in Proc, NEW q \in Proc \ {p}, plan' = plan, call' = call,
         posted' = posted, pc[p] = "sending", q \in toSend[p],
         net' = net \union {InFlight(call[p], p, q)},
         toSend'[p] = toSend[p] \ {q}, pc'[p] # "packing",
         \A r \in Proc \ {p} : Kept(r)
  PROVE  NetInv'
<1>1. IInv /\ NetInv /\ Busy(p) /\ plan \in Seq(Operation) /\ InTransferNow(p)
  BY DEF ExactInv, Local, IInv, TypeOK, InTransferNow, InTransfer
<1>2. call[p] \in 1..Len(plan) /\ Op(p) = plan[call[p]] /\ PlanGrows
  BY <1>1, TransferOf DEF PlanGrows
<1>3. PICK k \in 1..Len(plan) : k = call[p]
  BY <1>2
<1>4. Talks(k, p, q)
  BY <1>1, <1>2, <1>3 DEF Busy, Sends, Talks, InTransferNow
<1>5. \A i \in 1..Len(plan) : \A a, b :
        Talks(i, a, b)' = Talks(i, a, b) /\ InFlight(i, a, b)' = InFlight(i, a, b)
  BY <1>1, <1>2, PastStable
<1>6. ~ SentFor(k, p, q) /\ SentFor(k, p, q)'
  BY <1>3, <1>4, <1>5 DEF SentFor
<1>7. ASSUME NEW i \in 1..Len(plan), NEW a \in Proc, NEW b \in Proc, a # b,
             i # k \/ a # p \/ b # q
      PROVE  SentFor(i, a, b)' <=> SentFor(i, a, b)
  <2>1. CASE a = p
    BY <1>3, <1>5, <1>7, <2>1 DEF SentFor
  <2>2. CASE a # p
    BY <1>5, <2>2 DEF SentFor, Kept
  <2> QED
    BY <2>1, <2>2
<1>8. \A i, a, b : Matched(i, a, b)' <=> Matched(i, a, b)
  BY DEF Matched
<1>9. ~ Matched(k, p, q)
  BY <1>1, <1>4, <1>6 DEF NetInv, NetCausal
<1>10. net' = net \union {InFlight(k, p, q)}
  BY <1>3
<1>11. NetSound'
  <2> SUFFICES ASSUME NEW m \in net'
               PROVE  LET i == m.msg.call
                      IN /\ i \in 1..Len(plan') /\ m = InFlight(i, m.src, m.dst)'
                         /\ m.src # m.dst
                         /\ SentFor(i, m.src, m.dst)' /\ ~ Matched(i, m.src, m.dst)'
    BY DEF NetSound
  <2>1. CASE m = InFlight(k, p, q)
    <3>1. m.msg.call = k /\ m.src = p /\ m.dst = q
      BY <2>1 DEF InFlight, Packed
    <3> QED
      BY <1>5, <1>6, <1>8, <1>9, <2>1, <3>1
  <2>2. CASE m \in net
    <3> DEFINE i == m.msg.call
    <3>1. /\ i \in 1..Len(plan) /\ m = InFlight(i, m.src, m.dst) /\ m.src # m.dst
          /\ SentFor(i, m.src, m.dst) /\ ~ Matched(i, m.src, m.dst)
          /\ m.src \in Proc /\ m.dst \in Proc
      BY <1>1, <2>2 DEF NetInv, NetSound, IInv, TypeOK
    <3> HIDE DEF i
    <3>2. SentFor(i, m.src, m.dst)'
      BY <1>6, <1>7, <3>1
    <3> QED
      BY <1>5, <1>8, <3>1, <3>2 DEF i
  <2> QED
    BY <1>10, <2>1, <2>2
<1>12. NetComplete'
  <2> SUFFICES ASSUME NEW i \in 1..Len(plan), NEW a \in Proc, NEW b \in Proc, a # b,
                      SentFor(i, a, b)', ~ Matched(i, a, b)'
               PROVE  InFlight(i, a, b)' \in net'
    BY DEF NetComplete
  <2>1. CASE i = k /\ a = p /\ b = q
    BY <1>5, <1>10, <2>1
  <2>2. CASE i # k \/ a # p \/ b # q
    BY <1>1, <1>5, <1>7, <1>8, <1>10, <2>2 DEF NetInv, NetComplete
  <2> QED
    BY <2>1, <2>2
<1>13. NetCausal'
  <2> SUFFICES ASSUME NEW i \in 1..Len(plan), NEW a \in Proc, NEW b \in Proc, a # b,
                      Talks(i, a, b)', Matched(i, a, b)'
               PROVE  SentFor(i, a, b)'
    BY DEF NetCausal
  <2> QED
    BY <1>1, <1>5, <1>6, <1>7, <1>8 DEF NetInv, NetCausal
<1> QED
  BY <1>11, <1>12, <1>13 DEF NetInv

LEMMA SendExact ==
  ASSUME ExactInv, NEW p \in Proc, Send(p)
  PROVE  ExactInv'
<1>1. /\ IInv /\ IInv' /\ pc[p] = "sending"
      /\ UNCHANGED <<plan, call, info, Plist, Ptags, taken, rbuf, posted, done>>
  BY SendInv DEF ExactInv, Send
<1>2. /\ Busy(p) /\ InTransferNow(p) /\ call[p] # 0 /\ PlanGrows
      /\ Op(p)' = Op(p) /\ AtHome(p)' /\ ListsOfNow(p)'
      /\ \A a, b : /\ Counted(call[p], a, b)' = Counted(call[p], a, b)
                  /\ Share(call[p], a, b)' = Share(call[p], a, b)
                  /\ Packed(call[p], a, b)' = Packed(call[p], a, b)
      /\ \A x : From(call[p], x)' = From(call[p], x) /\ To(call[p], x)' = To(call[p], x)
      /\ \A r : Asked(p, r)' = Asked(p, r)
  BY <1>1, OwnStep
<1>3. PICK q \in First(toSend[p]) :
        LET m == [pts |-> Plist[p][q], call |-> call[p]]
        IN /\ toSend' = [toSend EXCEPT ![p] = @ \ {q}]
           /\ IF Cardinality(m.pts) > info[p].send[List(p)][q]
              THEN pc' = [pc EXCEPT ![p] = "aborted"] /\ UNCHANGED <<peer, sbuf, net>>
              ELSE IF q = p
              THEN sbuf' = [sbuf EXCEPT ![p] = m] /\ UNCHANGED <<pc, peer, net>>
              ELSE /\ net' = net \union
                        {[src |-> p, dst |-> q, kind |-> Op(p).kind, msg |-> m]}
                   /\ peer' = [peer EXCEPT ![p] = q]
                   /\ pc' \in {pc, [pc EXCEPT ![p] = "blocked"]}
                   /\ UNCHANGED sbuf
  BY DEF Send
<1> DEFINE m == [pts |-> Plist[p][q], call |-> call[p]]
<1>4. q \in toSend[p] /\ q \in Proc
  BY <1>1 DEF First, IInv, TypeOK
<1>5. m = Packed(call[p], p, q) /\ m.pts = Share(call[p], p, q)
  BY <1>1, <1>2, <1>4 DEF Busy, Sends, Packed
<1>6. ~ (Cardinality(m.pts) > info[p].send[List(p)][q])
  <2>1. info[p].send[List(p)][q] = Cardinality(Counted(call[p], p, q))
    BY <1>2, <1>4, CountedNow DEF Busy, ListsOfNow
  <2>2. IsFiniteSet(Share(call[p], p, q)) /\ Cardinality(m.pts) \in Nat
    BY <1>2, <1>5, SharesFit, CountedFinite, FS_Subset, FS_CardinalityType
  <2>3. Cardinality(m.pts) <= Cardinality(Counted(call[p], p, q))
    BY <1>2, <1>5, SharesFit
  <2> QED
    BY <2>1, <2>2, <2>3, CountedFinite
<1>7. /\ toSend' = [toSend EXCEPT ![p] = @ \ {q}]
      /\ \/ q = p /\ sbuf' = [sbuf EXCEPT ![p] = m] /\ UNCHANGED <<pc, peer, net>>
         \/ /\ q # p
            /\ net' = net \union {[src |-> p, dst |-> q, kind |-> Op(p).kind, msg |-> m]}
            /\ peer' = [peer EXCEPT ![p] = q]
            /\ pc' \in {pc, [pc EXCEPT ![p] = "blocked"]}
            /\ UNCHANGED sbuf
  BY <1>3, <1>6
<1> HIDE DEF m
<1>8. toSend'[p] = toSend[p] \ {q} /\ \A r \in Proc \ {p} : toSend'[r] = toSend[r]
  BY <1>1, <1>7 DEF IInv, TypeOK
<1>9. pc'[p] \in {"sending", "blocked"} /\ \A r \in Proc \ {p} : pc'[r] = pc[r]
  BY <1>1, <1>7 DEF IInv, TypeOK
<1>10. \A r \in Proc \ {p} : peer'[r] = peer[r] /\ sbuf'[r] = sbuf[r]
  <2>1. peer \in [Proc -> Proc] /\ peer' \in {peer, [peer EXCEPT ![p] = q]}
    BY <1>1, <1>7 DEF IInv, TypeOK
  <2>2. sbuf \in [Proc -> Message] /\ sbuf' \in {sbuf, [sbuf EXCEPT ![p] = m]}
    BY <1>1, <1>7 DEF IInv, TypeOK
  <2> QED
    BY <2>1, <2>2
<1>11. sbuf'[p] = IF q = p THEN m ELSE sbuf[p]
  BY <1>1, <1>7 DEF IInv, TypeOK
<1>12. \A r \in Proc \ {p} : Kept(r)
  BY <1>1, <1>8, <1>9, <1>10 DEF Kept
<1>13. Local(p)'
  <2>1. Receives(p)'
    BY <1>1, <1>2, <1>9 DEF Busy, Receives
  <2>2. TakenSoFar(p)'
    BY <1>1, <1>2 DEF Busy, TakenSoFar
  <2>3. Sends(p)'
    <3>1. \A r \in toSend'[p] : Counted(call[p], p, r)' # {}
      BY <1>2, <1>8 DEF Busy, Sends
    <3>2. \A r \in Proc : Plist'[p][r] = Share(call[p], p, r)'
      BY <1>1, <1>2 DEF Busy, Sends
    <3>3. Counted(call[p], p, p)' # {} /\ p \notin toSend'[p]
            => sbuf'[p] = Packed(call[p], p, p)'
      BY <1>1, <1>2, <1>5, <1>8, <1>11 DEF Busy, Sends
    <3> QED
      BY <1>1, <1>9, <3>1, <3>2, <3>3 DEF Sends
  <2> QED
    BY <1>2, <1>9, <2>1, <2>2, <2>3 DEF Local, Busy, Exact
<1>14. CASE q = p
  <2>1. net' = net
    BY <1>7, <1>14
  <2> QED
    BY <1>1, <1>8, <1>9, <1>12, <1>13, <1>14, <2>1, QuietStep
<1>15. CASE q # p
  <2>1. net' = net \union {InFlight(call[p], p, q)}
    BY <1>5, <1>7, <1>15 DEF InFlight, Op
  <2>2. NetInv'
    BY <1>1, <1>4, <1>8, <1>9, <1>12, <1>15, <2>1, SendNet
  <2> QED
    BY <1>1, <1>2, <1>12, <1>13, <2>2, OthersStable
<1> QED
  BY <1>14, <1>15

\* The message that matches a request of a processor is that of its transfer:
\* messages of later transfers do not overtake it.
LEMMA DeliveredMessage ==
  ASSUME ExactInv, NEW p \in Proc, NEW m \in net, NEW h \in posted[p], Matches(m, p, h)
  PROVE  /\ Busy(p) /\ InTransferNow(p) /\ call[p] \in 1..Len(plan)
         /\ h.src \in Proc \ {p} /\ h = Asked(p, h.src) /\ h \notin done[p]
         /\ m = InFlight(call[p], h.src, p) /\ m.src = h.src /\ m.msg = Packed(call[p], h.src, p)
<1>1. IInv /\ NetInv /\ Busy(p) /\ AtHome(p)
  BY DEF ExactInv, Local, Idle
<1>2. pc[p] # "idle"
  BY DEF ExactInv, Local, Idle
<1>3. InTransferNow(p) /\ call[p] \in 1..Len(plan) /\ Op(p) = plan[call[p]]
  BY <1>1, <1>2, TransferOf DEF InTransferNow, IInv, InTransfer
<1>4. PICK r \in Ptags[p] \ {p} : h = Asked(p, r)
  BY <1>1 DEF Busy, Receives
<1>5. h.src = r /\ h.kind = Op(p).kind /\ r \in Proc /\ h \notin done[p]
  BY <1>1, <1>4 DEF Asked, Request, Busy, Receives, IInv, TypeOK
<1>6. PICK k \in 1..Len(plan) : k = call[p]
  BY <1>3
<1>7. Talks(k, r, p) /\ ~ Matched(k, r, p)
  BY <1>1, <1>3, <1>4, <1>5, <1>6 DEF Busy, Receives, Talks, Matched, InTransferNow
<1>8. /\ m.dst = p /\ m.src = r /\ m.kind = Op(p).kind
      /\ \A m2 \in net : m2.dst = p /\ m2.src = r /\ m2.kind = m.kind => m.msg.call <= m2.msg.call
  BY <1>5 DEF Matches
<1>9. PICK j \in 1..Len(plan) : /\ j = m.msg.call /\ m = InFlight(j, r, p)
                                /\ SentFor(j, r, p) /\ ~ Matched(j, r, p)
  BY <1>1, <1>8 DEF NetInv, NetSound
<1>10. j = k
  <2>1. ~ (j < k)
    BY <1>6, <1>9 DEF Matched
  <2>2. ASSUME k < j PROVE FALSE
    <3>1. call[r] \in Nat /\ Len(plan) \in Nat
      BY <1>1, <1>5 DEF IInv, TypeOK
    <3>2. k < call[r]
      BY <1>9, <2>2, <3>1 DEF SentFor
    <3>3. SentFor(k, r, p)
      BY <1>7, <3>2 DEF SentFor
    <3>4. InFlight(k, r, p) \in net
      BY <1>1, <1>4, <1>5, <1>7, <3>3 DEF NetInv, NetComplete
    <3>5. /\ InFlight(k, r, p).dst = p /\ InFlight(k, r, p).src = r
          /\ InFlight(k, r, p).kind = m.kind /\ InFlight(k, r, p).msg.call = k
      BY <1>3, <1>6, <1>8 DEF InFlight, Packed
    <3>6. m.msg.call <= k
      BY <1>8, <3>4, <3>5
    <3> QED
      BY <1>9, <2>2, <3>6
  <2> QED
    BY <2>1, <2>2
<1>11. m = InFlight(call[p], r, p) /\ m.msg = Packed(call[p], r, p)
  BY <1>6, <1>9, <1>10 DEF InFlight
<1> QED
  BY <1>1, <1>3, <1>4, <1>5, <1>8, <1>11

LEMMA DeliverExact ==
  ASSUME ExactInv, NEW p \in Proc, Deliver(p)
  PROVE  ExactInv'
<1>1. IInv /\ NetInv /\ IInv' /\ plan \in Seq(Operation)
  BY DeliverInv DEF ExactInv, IInv, TypeOK
<1>2. PICK m \in net, h \in posted[p] :
        /\ Matches(m, p, h)
        /\ net' = net \ {m}
        /\ posted' = [posted EXCEPT ![p] = @ \ {h}]
        /\ done' = [done EXCEPT ![p] = @ \union {h}]
        /\ rbuf' = [rbuf EXCEPT ![p][m.src] = m.msg]
        /\ UNCHANGED <<plan, pc, call, info, Plist, toSend, Ptags, peer, taken, sbuf>>
  BY DEF Deliver
<1> DEFINE r == h.src
<1>3. /\ Busy(p) /\ InTransferNow(p) /\ call[p] \in 1..Len(plan)
      /\ r \in Proc \ {p} /\ h = Asked(p, r) /\ h \notin done[p]
      /\ m = InFlight(call[p], r, p) /\ m.src = r /\ m.msg = Packed(call[p], r, p)
  BY <1>2, DeliveredMessage
<1> HIDE DEF r
<1>4. PlanGrows
  BY <1>1, <1>2 DEF PlanGrows
<1>5. PICK k \in 1..Len(plan) : k = call[p]
  BY <1>3
<1>6. /\ posted'[p] = posted[p] \ {h} /\ done'[p] = done[p] \union {h}
      /\ rbuf'[p][r] = Packed(k, r, p) /\ \A q \in Proc \ {r} : rbuf'[p][q] = rbuf[p][q]
      /\ \A q \in Proc \ {p} : /\ posted'[q] = posted[q] /\ done'[q] = done[q]
                              /\ rbuf'[q] = rbuf[q]
  <2>1. posted'[p] = posted[p] \ {h} /\ \A q \in Proc \ {p} : posted'[q] = posted[q]
    BY <1>1, <1>2 DEF IInv, TypeOK
  <2>2. done'[p] = done[p] \union {h} /\ \A q \in Proc \ {p} : done'[q] = done[q]
    BY <1>1, <1>2 DEF IInv, TypeOK
  <2>3. rbuf \in [Proc -> [Proc -> Message]] /\ rbuf' = [rbuf EXCEPT ![p][r] = Packed(k, r, p)]
    BY <1>1, <1>2, <1>3, <1>5 DEF IInv, TypeOK
  <2>4. rbuf'[p][r] = Packed(k, r, p) /\ \A q \in Proc \ {r} : rbuf'[p][q] = rbuf[p][q]
    BY <1>3, <2>3
  <2>5. \A q \in Proc \ {p} : rbuf'[q] = rbuf[q]
    BY <2>3
  <2> QED
    BY <2>1, <2>2, <2>4, <2>5
<1>7. \A q : Asked(p, q).src = q
  BY DEF Asked, Request
<1>8. /\ posted[p] \union done[p] = {Asked(p, q) : q \in Ptags[p] \ {p}}
      /\ posted[p] \intersect done[p] = {}
      /\ \A i \in done[p] : rbuf[p][i.src] = Packed(call[p], i.src, p)
  BY <1>3 DEF Busy, Receives
<1>9. \A i \in posted[p] \union done[p] : i.src \in Proc /\ (i.src = r => i = h)
  BY <1>1, <1>3, <1>7, <1>8 DEF IInv, TypeOK
<1>10. \A q \in Proc \ {p} : Kept(q)
  BY <1>2, <1>6 DEF Kept
<1>11. Local(p)'
  <2>1. /\ Op(p)' = Op(p) /\ AtHome(p)' /\ ListsOfNow(p)'
        /\ \A a, b : /\ Counted(call[p], a, b)' = Counted(call[p], a, b)
                    /\ Share(call[p], a, b)' = Share(call[p], a, b)
                    /\ Packed(call[p], a, b)' = Packed(call[p], a, b)
        /\ \A x : From(call[p], x)' = From(call[p], x) /\ To(call[p], x)' = To(call[p], x)
        /\ \A q : Asked(p, q)' = Asked(p, q)
    <3>1. pc[p] # "idle"
      BY <1>2 DEF ExactInv, Local, Idle
    <3> QED
      BY <1>2, <3>1, OwnStep
  <2>2. Receives(p)'
    <3>1. posted'[p] \union done'[p] = posted[p] \union done[p]
      BY <1>2, <1>6
    <3>2. posted'[p] \intersect done'[p] = {}
      BY <1>3, <1>6, <1>8
    <3>3. ASSUME NEW i \in done'[p] PROVE rbuf'[p][i.src] = Packed(call[p], i.src, p)'
      <4>1. CASE i = h
        <5>1. i.src = r
          BY <4>1 DEF r
        <5>2. rbuf'[p][r] = Packed(call[p], r, p)'
          BY <1>5, <1>6, <2>1
        <5> QED
          BY <5>1, <5>2
      <4>2. CASE i # h
        <5>1. i \in done[p] /\ i.src \in Proc \ {r}
          BY <1>6, <1>9, <3>3, <4>2
        <5>2. rbuf'[p][i.src] = Packed(call[p], i.src, p)
          BY <1>6, <1>8, <5>1
        <5> QED
          BY <2>1, <5>2
      <4> QED
        BY <4>1, <4>2
    <3>4. /\ \A q \in Ptags[p] : Counted(call[p], q, p) # {}
          /\ pc[p] = "waiting" => peer[p] \in Ptags[p] \ {p} /\ toSend[p] = {}
      BY <1>3 DEF Busy, Receives
    <3> QED
      BY <1>2, <1>8, <2>1, <3>1, <3>2, <3>3, <3>4 DEF Receives
  <2>3. TakenSoFar(p)'
    BY <1>2, <1>3, <2>1 DEF Busy, TakenSoFar
  <2>4. Sends(p)'
    BY <1>2, <1>3, <2>1 DEF Busy, Sends
  <2>5. pc[p] # "idle" /\ pc' = pc
    BY <1>2 DEF ExactInv, Local, Idle
  <2> QED
    BY <1>3, <2>1, <2>2, <2>3, <2>4, <2>5 DEF Local, Busy, Exact
<1>12. \A i \in 1..Len(plan) : \A a, b :
         Talks(i, a, b)' = Talks(i, a, b) /\ InFlight(i, a, b)' = InFlight(i, a, b)
  BY <1>1, <1>4, PastStable
<1>13. \A i \in 1..Len(plan) : \A a, b : SentFor(i, a, b)' <=> SentFor(i, a, b)
  BY <1>2, <1>12 DEF SentFor
<1>14. Matched(k, r, p)' /\ ~ Matched(k, r, p)
  BY <1>2, <1>5, <1>6, <1>9 DEF Matched, r
<1>15. ASSUME NEW i \in 1..Len(plan), NEW a \in Proc, NEW b \in Proc, i # k \/ a # r \/ b # p
       PROVE  Matched(i, a, b)' <=> Matched(i, a, b)
  <2>1. CASE b # p
    BY <1>2, <1>6, <2>1 DEF Matched
  <2>2. CASE b = p /\ i # k
    BY <1>2, <1>5, <2>2 DEF Matched
  <2>3. CASE b = p /\ i = k
    <3>1. a # r
      BY <1>15, <2>3
    <3>2. (\E e \in posted'[p] : e.src = a) <=> (\E e \in posted[p] : e.src = a)
      BY <1>6, <3>1 DEF r
    <3> QED
      BY <1>2, <2>3, <3>2 DEF Matched
  <2> QED
    BY <2>1, <2>2, <2>3
<1>16. m.msg.call = k /\ m.src = r /\ m.dst = p /\ SentFor(k, r, p)
  <2>1. m.msg.call = k /\ m.src = r /\ m.dst = p
    BY <1>3, <1>5 DEF InFlight, Packed
  <2> QED
    BY <1>1, <2>1 DEF NetInv, NetSound
<1>17. NetSound'
  <2> SUFFICES ASSUME NEW n \in net \ {m}
               PROVE  LET i == n.msg.call
                      IN /\ i \in 1..Len(plan') /\ n = InFlight(i, n.src, n.dst)'
                         /\ n.src # n.dst
                         /\ SentFor(i, n.src, n.dst)' /\ ~ Matched(i, n.src, n.dst)'
    BY <1>2 DEF NetSound
  <2> DEFINE i == n.msg.call
  <2>1. /\ i \in 1..Len(plan) /\ n = InFlight(i, n.src, n.dst) /\ n.src # n.dst
        /\ SentFor(i, n.src, n.dst) /\ ~ Matched(i, n.src, n.dst)
        /\ n.src \in Proc /\ n.dst \in Proc
    BY <1>1 DEF NetInv, NetSound, IInv, TypeOK
  <2> HIDE DEF i
  <2>2. i # k \/ n.src # r \/ n.dst # p
    BY <1>3, <1>5, <2>1
  <2>3. ~ Matched(i, n.src, n.dst)'
    BY <1>15, <2>1, <2>2
  <2> QED
    BY <1>2, <1>12, <1>13, <2>1, <2>3 DEF i
<1>18. NetComplete'
  <2> SUFFICES ASSUME NEW i \in 1..Len(plan), NEW a \in Proc, NEW b \in Proc, a # b,
                      SentFor(i, a, b)', ~ Matched(i, a, b)'
               PROVE  InFlight(i, a, b)' \in net'
    BY <1>2 DEF NetComplete
  <2>1. i # k \/ a # r \/ b # p
    BY <1>14
  <2>2. ~ Matched(i, a, b) /\ SentFor(i, a, b)
    BY <1>13, <1>15, <2>1
  <2>3. InFlight(i, a, b) \in net
    BY <1>1, <2>2 DEF NetInv, NetComplete
  <2>4. /\ InFlight(i, a, b).msg.call = i /\ InFlight(i, a, b).src = a
        /\ InFlight(i, a, b).dst = b
    BY DEF InFlight, Packed
  <2>5. InFlight(i, a, b) # m
    BY <1>16, <2>1, <2>4
  <2> QED
    BY <1>2, <1>12, <2>3, <2>5
<1>19. NetCausal'
  <2> SUFFICES ASSUME NEW i \in 1..Len(plan), NEW a \in Proc, NEW b \in Proc, a # b,
                      Talks(i, a, b)', Matched(i, a, b)'
               PROVE  SentFor(i, a, b)'
    BY <1>2 DEF NetCausal
  <2>1. CASE i = k /\ a = r /\ b = p
    BY <1>13, <1>16, <2>1
  <2>2. CASE i # k \/ a # r \/ b # p
    BY <1>1, <1>12, <1>13, <1>15, <2>2 DEF NetInv, NetCausal
  <2> QED
    BY <2>1, <2>2
<1>20. NetInv'
  BY <1>17, <1>18, <1>19 DEF NetInv
<1> QED
  BY <1>1, <1>4, <1>10, <1>11, <1>20, OthersStable

-------------------------------------------------------------------------------
(* Every transfer is exact *)

LEMMA InitExact == Init => ExactInv
<1> SUFFICES ASSUME Init PROVE ExactInv
  OBVIOUS
<1>1. IInv
  BY InitInv
<1>2. NetInv
  BY DEF Init, NetInv, NetSound, NetComplete, NetCausal
<1>3. ASSUME NEW p \in Proc PROVE Local(p)
  <2>1. AtHome(p)
    BY HomeFirst DEF Init, AtHome, Spawned
  <2> QED
    BY <2>1 DEF Init, Local, Idle, Exact
<1> QED
  BY <1>1, <1>2, <1>3 DEF ExactInv

LEMMA NextExact == ExactInv /\ [Next]_vars => ExactInv'
<1> SUFFICES ASSUME ExactInv, [Next]_vars PROVE ExactInv'
  OBVIOUS
<1>1. CASE UNCHANGED vars
  <2>1. IInv /\ NetInv /\ IInv'
    BY NextInv DEF ExactInv
  <2>2. PlanGrows /\ \A p \in Proc : Kept(p)
    BY <1>1, <2>1 DEF vars, mpi, PlanGrows, Kept, IInv, TypeOK
  <2>3. \A p \in Proc : Local(p)'
    BY <2>1, <2>2, LocalStable DEF ExactInv
  <2>4. \A k \in 1..Len(plan) : \A a, b :
          Talks(k, a, b)' = Talks(k, a, b) /\ InFlight(k, a, b)' = InFlight(k, a, b)
    BY <2>1, <2>2, PastStable DEF IInv, TypeOK
  <2>5. /\ \A k \in 1..Len(plan) : \A a, b :
             /\ SentFor(k, a, b)' <=> SentFor(k, a, b)
             /\ Matched(k, a, b)' <=> Matched(k, a, b)
        /\ plan' = plan /\ net' = net
    BY <1>1, <2>4 DEF SentFor, Matched, vars, mpi
  <2>6. NetSound'
    BY <2>1, <2>4, <2>5 DEF NetInv, NetSound
  <2>7. NetComplete' /\ NetCausal'
    BY <2>1, <2>4, <2>5 DEF NetInv, NetComplete, NetCausal
  <2> QED
    BY <2>1, <2>3, <2>6, <2>7 DEF ExactInv, NetInv
<1>2. ASSUME NEW p \in Proc, Step(p) PROVE ExactInv'
  BY <1>2, RedecomposeExact, EnterExact, PackExact, SendExact, SendReturnsExact,
     NextMessageExact, WaitUnpackExact, ReturnExact DEF Step
<1>3. ASSUME NEW p \in Proc, Deliver(p) PROVE ExactInv'
  BY <1>3, DeliverExact
<1> QED
  BY <1>1, <1>2, <1>3 DEF Next, Finished

THEOREM ExactInvariance == Spec => []ExactInv
<1> QED
  BY InitExact, NextExact, PTL DEF Spec

\* When a forcing or a feedback has returned on a processor, it has got exactly
\* the points the model packed, anywhere, whose nest point or mother it owns
\* now, each with the data of that very call: for any nests, decompositions,
\* order of transfers and redecompositions, and delays of messages (the notes
\* of RSL_BCAST_MSGS and RSL_MERGE_MSGS).
THEOREM TransfersAlwaysExact == Spec => []TransferExact
<1>1. ExactInv => TransferExact
  BY DEF ExactInv, Local, Exact, TransferExact
<1> QED
  BY <1>1, ExactInvariance, PTL

\* No processor stops because it packed more points for another one than were
\* counted (the check before each message of RSL_BCAST_MSGS and
\* RSL_MERGE_MSGS), and nothing is left over: a message in flight is that of an
\* operation its sender has entered and its receiver is not through with.
NothingLeftOver ==
  /\ \A p \in Proc : pc[p] # "aborted"
  /\ \A m \in net : call[m.dst] <= m.msg.call /\ m.msg.call <= call[m.src]

THEOREM NeverAborts == Spec => []NothingLeftOver
<1>1. ExactInv => NothingLeftOver
  <2> SUFFICES ASSUME ExactInv PROVE NothingLeftOver
    OBVIOUS
  <2>1. \A p \in Proc : pc[p] # "aborted"
    BY DEF ExactInv, Local, Busy
  <2>2. ASSUME NEW m \in net PROVE call[m.dst] <= m.msg.call /\ m.msg.call <= call[m.src]
    <3>1. /\ m.msg.call \in 1..Len(plan) /\ m.src \in Proc /\ m.dst \in Proc
          /\ SentFor(m.msg.call, m.src, m.dst) /\ ~ Matched(m.msg.call, m.src, m.dst)
      BY DEF ExactInv, NetInv, NetSound, IInv, TypeOK
    <3>2. call[m.src] \in 0..Len(plan) /\ call[m.dst] \in 0..Len(plan) /\ Len(plan) \in Nat
      BY <3>1 DEF ExactInv, IInv, TypeOK
    <3> QED
      BY <3>1, <3>2 DEF SentFor, Matched
  <2> QED
    BY <2>1, <2>2 DEF NothingLeftOver
<1> QED
  BY <1>1, ExactInvariance, PTL
===============================================================================
