--------------------------- MODULE RslStencilProofs ---------------------------
(***************************************************************************)
(* Proofs about RslStencil, for any domain, decompositions and stencils:   *)
(* the tables two processors work out independently fit each other, and    *)
(* they are those the description of the stencil asks for.                 *)
(***************************************************************************)
EXTENDS RslStencil, TLAPS

Owners == [Point -> Proc \union {Nobody}]

\* What a stencil is described by: a shape and an array of messages for it.
LEMMA DescriptionParts ==
  ASSUME NEW d \in Descriptions
  PROVE  d.shape \in Shape /\ d.msgs \in [Pts[d.shape] -> SUBSET Field]
BY StencilAssumption DEF Descriptions

\* Seen from the point at index k, the home point is at the inverse of k.
LEMMA WayBack ==
  ASSUME NEW sh \in Shape, NEW k \in Pts[sh], NEW h \in Point, NEW c \in Point,
         At[sh][k][h] = c
  PROVE  Inv[sh][k] \in Pts[sh] /\ At[sh][Inv[sh][k]][c] = h /\ Inv[sh][Inv[sh][k]] = k
BY StencilAssumption, PointsAssumption

\* What p packs for q is what q unpacks from p.
LEMMA PackIsUnpackOf ==
  ASSUME NEW o \in Owners, NEW d \in Descriptions, NEW p \in Proc, NEW q \in Proc
  PROVE  PackTable(o, d, p, q) = UnpackTable(o, d, q, p)
<1>1. ASSUME NEW r \in Refs, r \in PackTable(o, d, p, q)
      PROVE  r \in UnpackTable(o, d, q, p)
  <2>1. PICK h \in Point, k \in Pts[d.shape] :
          o[h] = q /\ At[d.shape][k][h] = r[1] /\ r[2] \in d.msgs[k]
    BY <1>1 DEF PackTable
  <2>2. r[1] \in Point
    BY DEF Refs
  <2>3. /\ Inv[d.shape][k] \in Pts[d.shape]
        /\ At[d.shape][Inv[d.shape][k]][r[1]] = h
        /\ Inv[d.shape][Inv[d.shape][k]] = k
    BY <2>1, <2>2, WayBack, DescriptionParts
  <2> QED
    BY <1>1, <2>1, <2>3 DEF PackTable, UnpackTable
<1>2. ASSUME NEW r \in Refs, r \in UnpackTable(o, d, q, p)
      PROVE  r \in PackTable(o, d, p, q)
  <2>1. PICK k \in Pts[d.shape] :
          LET c == At[d.shape][k][r[1]]
          IN c \in Point /\ o[c] = q /\ r[2] \in d.msgs[Inv[d.shape][k]]
    BY <1>2 DEF UnpackTable
  <2>2. r[1] \in Point
    BY DEF Refs
  <2>3. /\ Inv[d.shape][k] \in Pts[d.shape]
        /\ At[d.shape][Inv[d.shape][k]][At[d.shape][k][r[1]]] = r[1]
    BY <2>1, <2>2, WayBack, DescriptionParts
  <2> QED
    BY <1>2, <2>1, <2>3 DEF PackTable, UnpackTable
<1> QED
  BY <1>1, <1>2 DEF PackTable, UnpackTable

\* And q unpacks from p what its stencil has there.
LEMMA UnpackIsRequired ==
  ASSUME NEW o \in Owners, NEW d \in Descriptions, NEW p \in Proc, NEW q \in Proc
  PROVE  UnpackTable(o, d, p, q) = Required(o, d, p, q)
<1>1. PackTable(o, d, q, p) = Required(o, d, p, q)
  BY DEF PackTable, Required
<1> QED
  BY <1>1, PackIsUnpackOf

\* When neighbours touch at points that compute, they have each other.
LEMMA NeighboursAreMutual ==
  ASSUME TouchUntrimmed, NEW o \in Decomps \union {[c \in Point |-> Nobody]},
         NEW p \in Proc, NEW q \in Proc, Neighbour(o, p, q)
  PROVE  Neighbour(o, q, p)
<1>1. PICK h \in Point, k \in Pts[DomainShape] :
        LET c == At[DomainShape][k][h]
        IN c \in Point \ Trimmed /\ o[h] = p /\ o[c] = q
  BY DEF Neighbour
<1> DEFINE c == At[DomainShape][k][h]
<1>2. c \in Point /\ o[h] = p /\ o[c] = q /\ p # q
  BY <1>1 DEF Neighbour
<1>3. o \in Decomps
  BY <1>2, StencilAssumption
<1>4. Inv[DomainShape][k] \in Pts[DomainShape] /\ At[DomainShape][Inv[DomainShape][k]][c] = h
  BY <1>2, WayBack, StencilAssumption
<1> QED
  BY <1>2, <1>3, <1>4 DEF TouchUntrimmed

\* A processor that is no neighbour has nothing the stencil asks for.
LEMMA OnlyNeighboursRequired ==
  ASSUME TouchUntrimmed, ShapesFit, NEW o \in Decomps \union {[c \in Point |-> Nobody]},
         NEW d \in Descriptions, NEW p \in Proc, NEW q \in Proc, p # q,
         Required(o, d, p, q) # {}
  PROVE  Neighbour(o, p, q)
<1>1. PICK r \in Refs, h \in Point, k \in Pts[d.shape] :
        o[r[1]] = q /\ o[h] = p /\ At[d.shape][k][h] = r[1]
  BY DEF Required
<1>2. r[1] \in Point
  BY DEF Refs
<1>3. PICK j \in Pts[DomainShape] : At[DomainShape][j][h] = r[1]
  BY <1>1, <1>2, DescriptionParts DEF ShapesFit
<1>4. o \in Decomps
  BY <1>1, StencilAssumption
<1> QED
  BY <1>1, <1>2, <1>3, <1>4 DEF TouchUntrimmed

\* The tables are sets of references.
LEMMA ProcrecType ==
  ASSUME NEW o, NEW d, NEW p, NEW q
  PROVE  NewProcrec(o, d, p, q) \in Procrec
BY DEF NewProcrec, Procrec, PackTable, UnpackTable

\* Sequence new is r followed by old.
Grown(new, old, r) == /\ Len(new) = Len(old) + 1
                      /\ new[1] = r
                      /\ \A i \in 1..Len(old) : new[i + 1] = old[i]

\* Compiling puts a node for a neighbour before those there are...
LEMMA WithNewAdds ==
  ASSUME NEW old \in [Proc -> [Proc -> Seq(Procrec)]], NEW o, NEW d,
         NEW p \in Proc, NEW q \in Proc, Neighbour(o, p, q)
  PROVE  /\ WithNew(old, o, d)[p][q] \in Seq(Procrec)
         /\ Grown(WithNew(old, o, d)[p][q], old[p][q], NewProcrec(o, d, p, q))
<1> DEFINE r == NewProcrec(o, d, p, q)
           s == old[p][q]
<1>1. r \in Procrec
  BY ProcrecType
<1>2. s \in Seq(Procrec)
  OBVIOUS
<1>3. WithNew(old, o, d)[p][q] = <<r>> \o s
  BY DEF WithNew
<1> HIDE DEF r, s
<1>4. <<r>> \o s \in Seq(Procrec) /\ Grown(<<r>> \o s, s, r)
  BY <1>1, <1>2 DEF Grown
<1> QED
  BY <1>3, <1>4 DEF r, s

\* ... and leaves the others alone.
LEMMA WithNewKeeps ==
  ASSUME NEW old, NEW o, NEW d, NEW p \in Proc, NEW q \in Proc, ~ Neighbour(o, p, q)
  PROVE  WithNew(old, o, d)[p][q] = old[p][q]
BY DEF WithNew

LEMMA WithNewType ==
  ASSUME NEW old \in [Proc -> [Proc -> Seq(Procrec)]], NEW o, NEW d
  PROVE  WithNew(old, o, d) \in [Proc -> [Proc -> Seq(Procrec)]]
<1>1. ASSUME NEW p \in Proc, NEW q \in Proc
      PROVE  (IF Neighbour(o, p, q) THEN <<NewProcrec(o, d, p, q)>> \o old[p][q]
              ELSE old[p][q]) \in Seq(Procrec)
  <2>1. NewProcrec(o, d, p, q) \in Procrec /\ old[p][q] \in Seq(Procrec)
    BY ProcrecType
  <2> QED
    BY <2>1
<1> QED
  BY <1>1 DEF WithNew

\* Compiling keeps the nodes of two processors a mirror image.
LEMMA WithNewMirror ==
  ASSUME TouchUntrimmed, NEW old \in [Proc -> [Proc -> Seq(Procrec)]],
         NEW o \in Decomps \union {[c \in Point |-> Nobody]}, NEW d \in Descriptions,
         NEW p \in Proc, NEW q \in Proc, Mirror(old, p, q)
  PROVE  Mirror(WithNew(old, o, d), p, q)
<1> DEFINE new == WithNew(old, o, d)
<1>1. o \in Owners
  BY StencilAssumption DEF Owners
<1>2. Neighbour(o, p, q) <=> Neighbour(o, q, p)
  BY NeighboursAreMutual
<1>3. Len(old[p][q]) \in Nat /\ Len(old[q][p]) = Len(old[p][q])
  <2>1. old[p][q] \in Seq(Procrec)
    OBVIOUS
  <2> QED
    BY <2>1 DEF Mirror
<1>4. CASE ~ Neighbour(o, p, q)
  <2>1. new[p][q] = old[p][q] /\ new[q][p] = old[q][p]
    BY <1>2, <1>4, WithNewKeeps
  <2> QED
    BY <2>1 DEF Mirror
<1>5. CASE Neighbour(o, p, q)
  <2>1. Grown(new[p][q], old[p][q], NewProcrec(o, d, p, q))
    BY <1>5, WithNewAdds
  <2>2. Grown(new[q][p], old[q][p], NewProcrec(o, d, q, p))
    BY <1>2, <1>5, WithNewAdds
  <2>3. NewProcrec(o, d, p, q).pack = NewProcrec(o, d, q, p).unpack
    BY <1>1, PackIsUnpackOf DEF NewProcrec
  <2>4. \A i \in 1..Len(old[p][q]) : old[p][q][i].pack = old[q][p][i].unpack
    BY DEF Mirror
  <2> HIDE DEF new
  <2>5. ASSUME NEW i \in 1..Len(new[p][q])
        PROVE  new[p][q][i].pack = new[q][p][i].unpack
    <3>1. CASE i = 1
      BY <2>1, <2>2, <2>3, <3>1 DEF Grown
    <3>2. CASE i # 1
      <4>1. (i - 1) \in 1..Len(old[p][q]) /\ i = (i - 1) + 1
        BY <1>3, <2>1, <3>2 DEF Grown
      <4> QED
        BY <1>3, <2>1, <2>2, <2>4, <4>1 DEF Grown
    <3> QED
      BY <3>1, <3>2
  <2>6. Mirror(new, p, q)
    BY <1>3, <2>1, <2>2, <2>5 DEF Mirror, Grown
  <2> QED
    BY <2>6 DEF new
<1> QED
  BY <1>4, <1>5
-------------------------------------------------------------------------------
(* Types *)

LEMMA EmptyProcs == NoProcs \in [Proc -> [Proc -> Seq(Procrec)]]
<1>1. <<>> \in Seq(Procrec)
  OBVIOUS
<1> QED
  BY <1>1 DEF NoProcs

\* The steps that compile a stencil, with or without decomposing first, build
\* its nodes on old, which is typed when procs is.
LEMMA CompiledType ==
  ASSUME NEW old \in [Handles -> [Proc -> [Proc -> Seq(Procrec)]]], NEW o, NEW d,
         NEW s \in Handles
  PROVE  [old EXCEPT ![s] = WithNew(old[s], o, d)]
           \in [Handles -> [Proc -> [Proc -> Seq(Procrec)]]]
<1>1. WithNew(old[s], o, d) \in [Proc -> [Proc -> Seq(Procrec)]]
  BY WithNewType
<1> QED
  BY <1>1

LEMMA InitType == Init => TypeOK
<1> SUFFICES ASSUME Init PROVE TypeOK
  OBVIOUS
<1>1. owner \in [Point -> Proc \union {Nobody}]
  BY StencilAssumption DEF Init
<1>2. decomposed \in BOOLEAN
  BY StencilAssumption DEF Init
<1>3. procs \in [Handles -> [Proc -> [Proc -> Seq(Procrec)]]]
  BY EmptyProcs DEF Init
<1>4. /\ used \in SUBSET Handles /\ stenlist \in Seq(Handles)
      /\ sten \in [Handles -> Descriptions \union {Undescribed}]
      /\ compiled \in [Handles -> BOOLEAN] /\ exch \in Handles \union {0}
  BY DEF Init
<1> QED
  BY <1>1, <1>2, <1>3, <1>4 DEF TypeOK

LEMMA NextType == TypeOK /\ [Next]_vars => TypeOK'
<1> SUFFICES ASSUME TypeOK, [Next]_vars PROVE TypeOK'
  OBVIOUS
<1>0. Decomps \subseteq [Point -> Proc \union {Nobody}]
  BY StencilAssumption
<1>1. CASE CreateStencil
  BY <1>1 DEF TypeOK, CreateStencil
<1>2. ASSUME NEW s \in Handles, NEW d \in Descriptions, DescribeStencil(s, d)
      PROVE  TypeOK'
  <2>1. stenlist' \in Seq(Handles)
    BY <1>2 DEF TypeOK, DescribeStencil
  <2> QED
    BY <1>2, <2>1 DEF TypeOK, DescribeStencil
<1>3. ASSUME NEW s \in Handles, Exchange(s) PROVE TypeOK'
  BY <1>3 DEF TypeOK, Exchange
<1>4. ASSUME NEW s \in Handles, ExchangeCompiles(s) PROVE TypeOK'
  <2>1. procs' \in [Handles -> [Proc -> [Proc -> Seq(Procrec)]]]
    BY <1>4, CompiledType DEF TypeOK, ExchangeCompiles
  <2> QED
    BY <1>4, <2>1 DEF TypeOK, ExchangeCompiles
<1>5. ASSUME NEW s \in Handles, ExchangeDecomposes(s) PROVE TypeOK'
  <2> DEFINE old == [t \in Handles |-> IF t \in Uncompiled THEN NoProcs ELSE procs[t]]
  <2>1. procs \in [Handles -> [Proc -> [Proc -> Seq(Procrec)]]]
    BY DEF TypeOK
  <2>2. old \in [Handles -> [Proc -> [Proc -> Seq(Procrec)]]]
    BY <2>1, EmptyProcs
  <2>3. owner' \in [Point -> Proc \union {Nobody}] /\ decomposed' \in BOOLEAN
    BY <1>0, <1>5 DEF TypeOK, ExchangeDecomposes
  <2>4. compiled' \in [Handles -> BOOLEAN]
    BY <1>5 DEF TypeOK, ExchangeDecomposes
  <2>5. procs' \in [Handles -> [Proc -> [Proc -> Seq(Procrec)]]]
    <3>1. \/ \E o \in Decomps : procs' = [old EXCEPT ![s] = WithNew(old[s], o, sten[s])]
          \/ procs' = [procs EXCEPT ![s] = WithNew(procs[s], owner, sten[s])]
      BY <1>5 DEF ExchangeDecomposes
    <3> HIDE DEF old
    <3>2. \A o : [old EXCEPT ![s] = WithNew(old[s], o, sten[s])]
                  \in [Handles -> [Proc -> [Proc -> Seq(Procrec)]]]
      BY <2>2, CompiledType
    <3>3. [procs EXCEPT ![s] = WithNew(procs[s], owner, sten[s])]
            \in [Handles -> [Proc -> [Proc -> Seq(Procrec)]]]
      BY <2>1, CompiledType
    <3> QED
      BY <3>1, <3>2, <3>3
  <2> QED
    BY <1>5, <2>3, <2>4, <2>5 DEF TypeOK, ExchangeDecomposes
<1>6. ASSUME NEW o \in Decomps, FDecompose(o) PROVE TypeOK'
  <2>1. procs' \in [Handles -> [Proc -> [Proc -> Seq(Procrec)]]]
    BY <1>6, EmptyProcs DEF TypeOK, FDecompose
  <2> QED
    BY <1>0, <1>6, <2>1 DEF TypeOK, FDecompose
<1>7. CASE FDecomposeFails
  BY <1>7 DEF TypeOK, FDecomposeFails
<1>8. CASE UNCHANGED vars
  BY <1>8 DEF TypeOK, vars
<1> QED
  BY <1>1, <1>2, <1>3, <1>4, <1>5, <1>6, <1>7, <1>8 DEF Next

\* Type correctness of describing, compiling and decomposing, for any domain
\* and any number of stencils.
THEOREM TypeCorrect == Spec => []TypeOK
BY InitType, NextType, PTL DEF Spec

-------------------------------------------------------------------------------
(* The two sides of every exchange agree *)

LEMMA EmptyMirror ==
  ASSUME NEW p \in Proc, NEW q \in Proc PROVE Mirror(NoProcs, p, q)
BY DEF Mirror, NoProcs

LEMMA InitMirror == Init => MirrorInv
<1> SUFFICES ASSUME Init PROVE MirrorInv
  OBVIOUS
<1>1. owner \in Decomps \union {[c \in Point |-> Nobody]}
  BY DEF Init
<1> QED
  BY <1>1, EmptyMirror DEF Init, MirrorInv

LEMMA NextMirror ==
  TouchUntrimmed /\ TypeOK /\ MirrorInv /\ [Next]_vars => MirrorInv'
<1> SUFFICES ASSUME TouchUntrimmed, TypeOK, MirrorInv, [Next]_vars PROVE MirrorInv'
  OBVIOUS
<1> DEFINE Owner0 == Decomps \union {[c \in Point |-> Nobody]}
           cleared == [t \in Handles |-> IF t \in Uncompiled THEN NoProcs ELSE procs[t]]
<1>0. procs \in [Handles -> [Proc -> [Proc -> Seq(Procrec)]]]
  BY DEF TypeOK
<1>1. CASE UNCHANGED <<owner, procs>>
  BY <1>1 DEF MirrorInv
<1>2. ASSUME NEW s \in Handles, NEW o \in Owner0, sten[s] # Undescribed,
             NEW old \in [Handles -> [Proc -> [Proc -> Seq(Procrec)]]],
             \A t \in Handles : \A p, q \in Proc : Mirror(old[t], p, q),
             owner' = o, procs' = [old EXCEPT ![s] = WithNew(old[s], o, sten[s])]
      PROVE  MirrorInv'
  <2>1. sten[s] \in Descriptions
    BY <1>2 DEF TypeOK
  <2>2. ASSUME NEW t \in Handles, NEW p \in Proc, NEW q \in Proc
        PROVE  Mirror(procs'[t], p, q)
    <3>1. Mirror(old[t], p, q) /\ old[s] \in [Proc -> [Proc -> Seq(Procrec)]]
      BY <1>2
    <3>2. CASE t = s
      <4>1. procs'[t] = WithNew(old[s], o, sten[s])
        BY <1>2, <3>2
      <4>2. Mirror(WithNew(old[s], o, sten[s]), p, q)
        BY <2>1, <3>1, <3>2, WithNewMirror
      <4>3. ASSUME NEW x, NEW y, x = y, Mirror(y, p, q) PROVE Mirror(x, p, q)
        BY <4>3
      <4> QED
        BY <4>1, <4>2, <4>3
    <3>3. CASE t # s
      BY <1>2, <3>1, <3>3
    <3> QED
      BY <3>2, <3>3
  <2>3. owner' \in Owner0
    BY <1>2
  <2> QED
    BY <2>2, <2>3 DEF MirrorInv
<1>3. /\ cleared \in [Handles -> [Proc -> [Proc -> Seq(Procrec)]]]
      /\ \A t \in Handles : \A p, q \in Proc : Mirror(cleared[t], p, q)
  BY <1>0, EmptyProcs, EmptyMirror DEF MirrorInv
<1>4. owner \in Owner0 /\ \A t \in Handles : \A p, q \in Proc : Mirror(procs[t], p, q)
  BY DEF MirrorInv
<1>5. ASSUME NEW s \in Handles, ExchangeCompiles(s) PROVE MirrorInv'
  BY <1>0, <1>2, <1>4, <1>5 DEF ExchangeCompiles
<1>6. ASSUME NEW s \in Handles, ExchangeDecomposes(s) PROVE MirrorInv'
  <2>1. sten[s] # Undescribed
    BY <1>6 DEF ExchangeDecomposes
  <2>2. CASE owner' = owner /\ procs' = [procs EXCEPT ![s] = WithNew(procs[s], owner, sten[s])]
    BY <1>0, <1>2, <1>4, <2>1, <2>2
  <2>3. ASSUME NEW o \in Decomps, owner' = o,
               procs' = [cleared EXCEPT ![s] = WithNew(cleared[s], o, sten[s])]
        PROVE  MirrorInv'
    <3> HIDE DEF cleared
    <3> QED
      BY <1>2, <1>3, <2>1, <2>3
  <2> QED
    BY <1>6, <2>2, <2>3 DEF ExchangeDecomposes
<1>7. ASSUME NEW o \in Decomps, FDecompose(o) PROVE MirrorInv'
  <2>1. owner' = o /\ procs' = cleared
    BY <1>7 DEF FDecompose
  <2> HIDE DEF cleared
  <2> QED
    BY <1>3, <2>1 DEF MirrorInv
<1> QED
  BY <1>1, <1>5, <1>6, <1>7
     DEF Next, CreateStencil, DescribeStencil, Exchange, FDecomposeFails, vars

\* Two processors that never spoke about it agree, in every exchange, on the
\* number of messages between them and on their contents: whatever the
\* decompositions, however often the domain is decomposed anew, a stencil is
\* described again, or a domain is decomposed only by its first exchange, as
\* long as neighbours touch at points that compute.
THEOREM TablesAlwaysAgree == TouchUntrimmed => (Spec => []TablesAgree)
<1> SUFFICES ASSUME TouchUntrimmed PROVE Spec => []TablesAgree
  OBVIOUS
<1>1. Init => TypeOK /\ MirrorInv
  BY InitType, InitMirror
<1>2. TypeOK /\ MirrorInv /\ [Next]_vars => (TypeOK /\ MirrorInv)'
  BY NextType, NextMirror
<1>3. TypeOK /\ MirrorInv => TablesAgree
  BY DEF TypeOK, MirrorInv, TablesAgree
<1> QED
  BY <1>1, <1>2, <1>3, PTL DEF Spec

-------------------------------------------------------------------------------
(* The exchange moves what the description asks for *)

\* A stencil nobody has described yet has no nodes and is not compiled, and
\* the others are on the domain's list: a new decomposition reaches them all.
LEMMA UndescribedIsEmpty ==
  ASSUME TypeOK, CurrentInv, NEW s \in Handles, s \notin Uncompiled
  PROVE  /\ ~ compiled[s]
         /\ \A p, q \in Proc : procs[s][p][q] = <<>>
<1>1. sten[s] = Undescribed
  BY DEF CurrentInv
<1>2. ~ compiled[s]
  BY <1>1 DEF CurrentInv, Built
<1>3. ASSUME NEW p \in Proc, NEW q \in Proc PROVE procs[s][p][q] = <<>>
  <2> DEFINE e == procs[s][p][q]
  <2>1. e \in Seq(Procrec)
    BY DEF TypeOK
  <2>2. \A i \in 1..Len(e) : FALSE
    BY <1>1 DEF CurrentInv
  <2> HIDE DEF e
  <2>3. e = <<>>
    BY <2>1, <2>2
  <2> QED
    BY <2>3 DEF e
<1> QED
  BY <1>2, <1>3

\* Every element of the sequence e is r.
AllAre(e, r) == \A i \in 1..Len(e) : e[i] = r

LEMMA GrownAllAre ==
  ASSUME NEW new \in Seq(Procrec), NEW old \in Seq(Procrec), NEW r,
         Grown(new, old, r), AllAre(old, r)
  PROVE  new # <<>> /\ AllAre(new, r)
<1>1. ASSUME NEW i \in 1..Len(new) PROVE new[i] = r
  <2>1. CASE i = 1
    BY <2>1 DEF Grown
  <2>2. CASE i # 1
    <3>1. (i - 1) \in 1..Len(old) /\ i = (i - 1) + 1
      BY <2>2 DEF Grown
    <3> QED
      BY <3>1 DEF Grown, AllAre
  <2> QED
    BY <2>1, <2>2
<1> QED
  BY <1>1 DEF Grown, AllAre

\* Compiling adds a node of the given decomposition and description to each
\* neighbour's, and to none but theirs.
LEMMA WithNewCurrent ==
  ASSUME NEW old \in [Proc -> [Proc -> Seq(Procrec)]], NEW o, NEW d,
         NEW p \in Proc, NEW q \in Proc, AllAre(old[p][q], NewProcrec(o, d, p, q))
  PROVE  /\ Neighbour(o, p, q) => WithNew(old, o, d)[p][q] # <<>>
         /\ AllAre(WithNew(old, o, d)[p][q], NewProcrec(o, d, p, q))
<1>1. CASE ~ Neighbour(o, p, q)
  BY <1>1, WithNewKeeps
<1>2. CASE Neighbour(o, p, q)
  <2> DEFINE new == WithNew(old, o, d)[p][q]
             was == old[p][q]
             r == NewProcrec(o, d, p, q)
  <2>1. new \in Seq(Procrec) /\ Grown(new, was, r)
    BY <1>2, WithNewAdds
  <2>2. was \in Seq(Procrec) /\ AllAre(was, r)
    OBVIOUS
  <2> HIDE DEF new, was, r
  <2>3. new # <<>> /\ AllAre(new, r)
    BY <2>1, <2>2, GrownAllAre
  <2> QED
    BY <2>3 DEF new, was, r
<1> QED
  BY <1>1, <1>2

LEMMA InitCurrent == Init => CurrentInv
<1> SUFFICES ASSUME Init PROVE CurrentInv
  OBVIOUS
<1>1. \A s \in Handles : sten[s] = Undescribed /\ ~ compiled[s] /\ exch # s
  BY DEF Init, Handles
<1>2. \A s \in Handles : \A p, q \in Proc : procs[s][p][q] = <<>>
  BY DEF Init, NoProcs
<1> QED
  BY <1>1, <1>2 DEF CurrentInv

\* The nodes of a compiled stencil: of one kind for each neighbour.
NodesOf(t, o, d) == \A p, q \in Proc :
  /\ Neighbour(o, p, q) => t[p][q] # <<>>
  /\ AllAre(t[p][q], NewProcrec(o, d, p, q))

LEMMA CompiledNodes ==
  ASSUME NEW old \in [Proc -> [Proc -> Seq(Procrec)]], NEW o, NEW d,
         \A p, q \in Proc : AllAre(old[p][q], NewProcrec(o, d, p, q))
  PROVE  NodesOf(WithNew(old, o, d), o, d)
BY WithNewCurrent DEF NodesOf

\* A new decomposition leaves no stencil compiled and no node.
LEMMA AllEmpty ==
  ASSUME TypeOK, CurrentInv, NEW s \in Handles
  PROVE  /\ ~ (s \notin Uncompiled /\ compiled[s])
         /\ \A p, q \in Proc :
              (IF s \in Uncompiled THEN NoProcs ELSE procs[s])[p][q] = <<>>
BY UndescribedIsEmpty DEF NoProcs

LEMMA NextCurrent ==
  ~ Redescribe /\ TypeOK /\ CurrentInv /\ [Next]_vars => CurrentInv'
<1> SUFFICES ASSUME ~ Redescribe, TypeOK, CurrentInv, [Next]_vars PROVE CurrentInv'
  OBVIOUS
<1> DEFINE cleared == [t \in Handles |-> IF t \in Uncompiled THEN NoProcs ELSE procs[t]]
<1>0. /\ procs \in [Handles -> [Proc -> [Proc -> Seq(Procrec)]]]
      /\ cleared \in [Handles -> [Proc -> [Proc -> Seq(Procrec)]]]
  BY EmptyProcs DEF TypeOK
<1>1. CASE UNCHANGED <<owner, sten, stenlist, compiled, procs>> /\ (exch' = 0 \/ exch' = exch)
  BY <1>1 DEF CurrentInv, Built, Uncompiled, Handles
<1>2. ASSUME NEW s \in Handles, NEW d \in Descriptions, DescribeStencil(s, d)
      PROVE  CurrentInv'
  <2>1. sten[s] = Undescribed /\ d # Undescribed
    BY <1>2, UndescribedAssumption DEF DescribeStencil
  <2>2. Uncompiled' = Uncompiled \union {s}
    <3>1. stenlist \in Seq(Handles) /\ stenlist' = Append(stenlist, s)
      BY <1>2 DEF TypeOK, DescribeStencil
    <3> QED
      BY <3>1 DEF Uncompiled
  <2>3. sten' = [sten EXCEPT ![s] = d] /\ sten \in [Handles -> Descriptions \union {Undescribed}]
    BY <1>2 DEF TypeOK, DescribeStencil
  <2>4. compiled' = [compiled EXCEPT ![s] = FALSE] /\ compiled \in [Handles -> BOOLEAN]
    BY <1>2 DEF TypeOK, DescribeStencil
  <2>5. owner' = owner /\ procs' = procs /\ exch' = 0
    BY <1>2 DEF DescribeStencil
  <2>6. \A t \in Handles : sten'[t] # Undescribed => t \in Uncompiled'
    BY <2>2, <2>3 DEF CurrentInv
  <2>7. \A t \in Handles : compiled'[t] \/ exch' = t => Built(t)'
    BY <2>3, <2>4, <2>5 DEF CurrentInv, Built, Handles
  <2>8. ASSUME NEW t \in Handles, NEW p \in Proc, NEW q \in Proc,
               NEW i \in 1..Len(procs'[t][p][q])
        PROVE  sten'[t] # Undescribed
               /\ procs'[t][p][q][i] = NewProcrec(owner', sten'[t], p, q)
    <3>1. i \in 1..Len(procs[t][p][q])
      BY <2>5
    <3>2. sten[t] # Undescribed /\ procs[t][p][q][i] = NewProcrec(owner, sten[t], p, q)
      BY <3>1 DEF CurrentInv
    <3> QED
      BY <2>1, <2>3, <2>5, <3>2
  <2> QED
    BY <2>6, <2>7, <2>8 DEF CurrentInv
<1>3. ASSUME NEW s \in Handles, Exchange(s) PROVE CurrentInv'
  BY <1>3 DEF Exchange, CurrentInv, Built, Uncompiled
<1>4. ASSUME NEW s \in Handles, sten[s] # Undescribed, UNCHANGED <<sten, stenlist>>,
             exch' = s,
             NEW old \in [Handles -> [Proc -> [Proc -> Seq(Procrec)]]],
             NEW o, owner' = o,
             procs' = [old EXCEPT ![s] = WithNew(old[s], o, sten[s])],
             \A p, q \in Proc : \A i \in 1..Len(old[s][p][q]) :
               old[s][p][q][i] = NewProcrec(o, sten[s], p, q),
             \A t \in Handles \ {s} : \A p, q \in Proc :
               \A i \in 1..Len(old[t][p][q]) :
                 sten[t] # Undescribed /\ old[t][p][q][i] = NewProcrec(o, sten[t], p, q),
             \A t \in Handles \ {s} : compiled'[t] =>
               /\ sten[t] # Undescribed
               /\ \A p, q \in Proc : Neighbour(o, p, q) => old[t][p][q] # <<>>
      PROVE  CurrentInv'
  <2>1. \A t \in Handles \ {s} : procs'[t] = old[t]
    BY <1>4
  <2>2. procs'[s] = WithNew(old[s], o, sten[s]) /\ old[s] \in [Proc -> [Proc -> Seq(Procrec)]]
    BY <1>4
  <2>3. \A p, q \in Proc : AllAre(old[s][p][q], NewProcrec(o, sten[s], p, q))
    BY <1>4 DEF AllAre
  <2>4. NodesOf(procs'[s], o, sten[s])
    BY <2>2, <2>3, CompiledNodes
  <2>5. \A t \in Handles : sten'[t] # Undescribed => t \in Uncompiled'
    BY <1>4 DEF CurrentInv, Uncompiled
  <2>6. \A t \in Handles : compiled'[t] \/ exch' = t => Built(t)'
    BY <1>4, <2>1, <2>4 DEF Built, NodesOf
  <2>7. ASSUME NEW t \in Handles, NEW p \in Proc, NEW q \in Proc,
               NEW i \in 1..Len(procs'[t][p][q])
        PROVE  sten'[t] # Undescribed
               /\ procs'[t][p][q][i] = NewProcrec(owner', sten'[t], p, q)
    <3>1. CASE t = s
      BY <1>4, <2>4, <3>1 DEF NodesOf, AllAre
    <3>2. CASE t # s
      BY <1>4, <2>1, <3>2
    <3> QED
      BY <3>1, <3>2
  <2> QED
    BY <2>5, <2>6, <2>7 DEF CurrentInv
<1>5. ASSUME NEW s \in Handles, sten[s] # Undescribed, UNCHANGED <<owner, sten, stenlist>>,
             exch' = s, compiled' = [compiled EXCEPT ![s] = TRUE],
             procs' = [procs EXCEPT ![s] = WithNew(procs[s], owner, sten[s])]
      PROVE  CurrentInv'
  <2>1. \A t \in Handles \ {s} : compiled'[t] = compiled[t]
    BY <1>5 DEF TypeOK
  <2>2. \A t \in Handles : \A p, q \in Proc : \A i \in 1..Len(procs[t][p][q]) :
          sten[t] # Undescribed /\ procs[t][p][q][i] = NewProcrec(owner, sten[t], p, q)
    BY DEF CurrentInv
  <2>3. \A t \in Handles : compiled[t] =>
          /\ sten[t] # Undescribed
          /\ \A p, q \in Proc : Neighbour(owner, p, q) => procs[t][p][q] # <<>>
    BY DEF CurrentInv, Built
  <2>4. \A t \in Handles \ {s} : compiled'[t] =>
          /\ sten[t] # Undescribed
          /\ \A p, q \in Proc : Neighbour(owner, p, q) => procs[t][p][q] # <<>>
    BY <2>1, <2>3
  <2>5. /\ \A p, q \in Proc : \A i \in 1..Len(procs[s][p][q]) :
             procs[s][p][q][i] = NewProcrec(owner, sten[s], p, q)
        /\ \A t \in Handles \ {s} : \A p, q \in Proc : \A i \in 1..Len(procs[t][p][q]) :
             sten[t] # Undescribed /\ procs[t][p][q][i] = NewProcrec(owner, sten[t], p, q)
    BY <2>2
  <2>6. owner' = owner /\ UNCHANGED <<sten, stenlist>>
    BY <1>5
  <2> QED
    BY <1>0, <1>4, <1>5, <2>4, <2>5, <2>6
<1>6. ASSUME NEW s \in Handles, ExchangeCompiles(s) PROVE CurrentInv'
  BY <1>5, <1>6 DEF ExchangeCompiles
<1>7. \A t \in Handles : \A p, q \in Proc : cleared[t][p][q] = <<>>
  BY AllEmpty
<1>8. \A t \in Handles : \A p, q \in Proc : \A i \in 1..Len(cleared[t][p][q]) : FALSE
  BY <1>7
<1>9. ASSUME NEW s \in Handles, ExchangeDecomposes(s) PROVE CurrentInv'
  <2>1. CASE owner' = owner /\ compiled' = [compiled EXCEPT ![s] = TRUE]
             /\ procs' = [procs EXCEPT ![s] = WithNew(procs[s], owner, sten[s])]
    BY <1>5, <1>9, <2>1 DEF ExchangeDecomposes
  <2>2. ASSUME NEW o \in Decomps, owner' = o,
               compiled' = [t \in Handles |-> IF t \in Uncompiled THEN FALSE
                                                ELSE compiled[t] \/ t = s],
               procs' = [cleared EXCEPT ![s] = WithNew(cleared[s], o, sten[s])]
        PROVE  CurrentInv'
    <3>1. \A t \in Handles \ {s} : ~ compiled'[t]
      BY <2>2, AllEmpty
    <3>2. sten[s] # Undescribed /\ exch' = s /\ UNCHANGED <<sten, stenlist>>
      BY <1>9 DEF ExchangeDecomposes
    <3> HIDE DEF cleared
    <3> QED
      BY <1>0, <1>4, <1>8, <2>2, <3>1, <3>2
  <2>3. \/ \E o \in Decomps :
             /\ owner' = o
             /\ compiled' = [t \in Handles |-> IF t \in Uncompiled THEN FALSE
                                                ELSE compiled[t] \/ t = s]
             /\ procs' = [cleared EXCEPT ![s] = WithNew(cleared[s], o, sten[s])]
        \/ /\ owner' = owner /\ compiled' = [compiled EXCEPT ![s] = TRUE]
           /\ procs' = [procs EXCEPT ![s] = WithNew(procs[s], owner, sten[s])]
    BY <1>9 DEF ExchangeDecomposes
  <2> HIDE DEF cleared
  <2> QED
    BY <2>1, <2>2, <2>3
<1>10. ASSUME NEW o \in Decomps, FDecompose(o) PROVE CurrentInv'
  <2>1. \A t \in Handles : ~ compiled'[t] /\ exch' # t
    <3> SUFFICES ASSUME NEW t \in Handles PROVE ~ compiled'[t] /\ exch' # t
      OBVIOUS
    <3>1. compiled' = [u \in Handles |-> u \notin Uncompiled /\ compiled[u]]
      BY <1>10 DEF FDecompose
    <3>2. ~ compiled'[t]
      BY <3>1, AllEmpty, Zenon
    <3>3. exch' = 0 /\ t # 0
      BY <1>10 DEF FDecompose, Handles
    <3> QED
      BY <3>2, <3>3
  <2>2. procs' = cleared /\ UNCHANGED <<sten, stenlist>>
    BY <1>10 DEF FDecompose
  <2> HIDE DEF cleared
  <2> QED
    BY <1>8, <2>1, <2>2 DEF CurrentInv, Uncompiled
<1> QED
  BY <1>1, <1>2, <1>3, <1>6, <1>9, <1>10 DEF Next, CreateStencil, FDecomposeFails, vars

\* In every exchange each processor unpacks the cells and fields that the
\* description asks for in the decomposition in force, and no others, when
\* stencils are described once and reach no further than the domain's.
THEOREM ExchangesAlwaysTheStencil ==
  TouchUntrimmed /\ ShapesFit /\ ~ Redescribe => (Spec => []ExchangesTheStencil)
<1> SUFFICES ASSUME TouchUntrimmed, ShapesFit, ~ Redescribe
             PROVE  Spec => []ExchangesTheStencil
  OBVIOUS
<1>1. Init => TypeOK /\ MirrorInv /\ CurrentInv
  BY InitType, InitMirror, InitCurrent
<1>2. TypeOK /\ MirrorInv /\ CurrentInv /\ [Next]_vars => (TypeOK /\ MirrorInv /\ CurrentInv)'
  BY NextType, NextMirror, NextCurrent
<1>3. TypeOK /\ MirrorInv /\ CurrentInv => ExchangesTheStencil
  <2> SUFFICES ASSUME TypeOK, MirrorInv, CurrentInv, exch # 0,
                      NEW p \in Proc, NEW q \in Proc, p # q
               PROVE  UNION {procs[exch][p][q][i].unpack : i \in 1..Len(procs[exch][p][q])}
                        = Required(owner, sten[exch], p, q)
    BY DEF ExchangesTheStencil
  <2> DEFINE e == procs[exch][p][q]
             need == Required(owner, sten[exch], p, q)
  <2>1. exch \in Handles /\ e \in Seq(Procrec)
    BY DEF TypeOK
  <2>2. Built(exch)
    BY <2>1 DEF CurrentInv
  <2>3. sten[exch] \in Descriptions /\ owner \in Owners
    BY <2>1, <2>2 DEF TypeOK, Built, Owners
  <2>4. owner \in Decomps \union {[c \in Point |-> Nobody]}
    BY DEF MirrorInv
  <2>5. \A i \in 1..Len(e) : e[i].unpack = need
    <3>1. NewProcrec(owner, sten[exch], p, q).unpack = need
      BY <2>3, UnpackIsRequired DEF NewProcrec
    <3>2. \A i \in 1..Len(e) : e[i] = NewProcrec(owner, sten[exch], p, q)
      BY <2>1 DEF CurrentInv
    <3> QED
      BY <3>1, <3>2
  <2>6. need # {} => e # <<>>
    BY <2>2, <2>3, <2>4, OnlyNeighboursRequired DEF Built
  <2> HIDE DEF e, need
  <2>7. UNION {e[i].unpack : i \in 1..Len(e)} = need
    <3>1. CASE e = <<>>
      BY <2>6, <3>1
    <3>2. CASE e # <<>>
      <4>1. 1 \in 1..Len(e)
        BY <2>1, <3>2
      <4> QED
        BY <2>5, <4>1
    <3> QED
      BY <3>1, <3>2
  <2> QED
    BY <2>7 DEF e, need
<1> QED
  BY <1>1, <1>2, <1>3, PTL DEF Spec

-------------------------------------------------------------------------------
(* One node for each processor *)

\* The number of nodes after a compilation.
LEMMA CompiledLen ==
  ASSUME NEW old \in [Proc -> [Proc -> Seq(Procrec)]], NEW o, NEW d,
         NEW p \in Proc, NEW q \in Proc, old[p][q] = <<>>
  PROVE  Len(WithNew(old, o, d)[p][q]) <= 1
<1>1. CASE ~ Neighbour(o, p, q)
  BY <1>1, WithNewKeeps
<1>2. CASE Neighbour(o, p, q)
  <2>1. Grown(WithNew(old, o, d)[p][q], old[p][q], NewProcrec(o, d, p, q))
    BY <1>2, WithNewAdds
  <2> QED
    BY <2>1 DEF Grown
<1> QED
  BY <1>1, <1>2

LEMMA InitOnce == Decomposed0 = {TRUE} /\ Init => OnceInv
<1> SUFFICES ASSUME Decomposed0 = {TRUE}, Init PROVE OnceInv
  OBVIOUS
<1>1. decomposed
  BY DEF Init
<1>2. \A s \in Handles : \A p, q \in Proc : procs[s][p][q] = <<>>
  BY DEF Init, NoProcs
<1> QED
  BY <1>1, <1>2 DEF OnceInv

LEMMA NextOnce ==
  ~ Redescribe /\ TypeOK /\ CurrentInv /\ OnceInv /\ [Next]_vars => OnceInv'
<1> SUFFICES ASSUME ~ Redescribe, TypeOK, CurrentInv, OnceInv, [Next]_vars PROVE OnceInv'
  OBVIOUS
<1>1. CASE UNCHANGED <<decomposed, compiled, procs>>
  BY <1>1 DEF OnceInv
<1>2. ASSUME NEW s \in Handles, NEW d \in Descriptions, DescribeStencil(s, d)
      PROVE  OnceInv'
  <2>1. sten[s] = Undescribed /\ ~ compiled[s]
    BY <1>2 DEF DescribeStencil, CurrentInv, Built
  <2>2. \A t \in Handles : compiled'[t] = compiled[t]
    BY <1>2, <2>1 DEF DescribeStencil, TypeOK
  <2>3. procs' = procs /\ decomposed' = decomposed
    BY <1>2 DEF DescribeStencil
  <2> QED
    BY <2>2, <2>3 DEF OnceInv
<1>3. ASSUME NEW s \in Handles, ExchangeCompiles(s) PROVE OnceInv'
  <2>1. /\ ~ compiled[s] /\ decomposed' = decomposed
        /\ compiled' = [compiled EXCEPT ![s] = TRUE]
        /\ procs' = [procs EXCEPT ![s] = WithNew(procs[s], owner, sten[s])]
    BY <1>3 DEF ExchangeCompiles
  <2>2. /\ compiled \in [Handles -> BOOLEAN]
        /\ procs \in [Handles -> [Proc -> [Proc -> Seq(Procrec)]]]
    BY DEF TypeOK
  <2>3. compiled'[s] /\ \A t \in Handles \ {s} : compiled'[t] = compiled[t]
    BY <2>1, <2>2
  <2>4. procs'[s] = WithNew(procs[s], owner, sten[s])
        /\ \A t \in Handles \ {s} : procs'[t] = procs[t]
    BY <2>1, <2>2
  <2>5. \A p, q \in Proc : procs[s][p][q] = <<>>
    BY <2>1 DEF OnceInv
  <2>6. \A p, q \in Proc : Len(procs'[s][p][q]) <= 1
    <3> DEFINE old == procs[s]
               d == sten[s]
    <3>1. old \in [Proc -> [Proc -> Seq(Procrec)]] /\ \A p, q \in Proc : old[p][q] = <<>>
      BY <2>2, <2>5
    <3>2. procs'[s] = WithNew(old, owner, d)
      BY <2>4
    <3> HIDE DEF old, d
    <3>3. \A p, q \in Proc : Len(WithNew(old, owner, d)[p][q]) <= 1
      BY <3>1, CompiledLen
    <3> QED
      BY <3>2, <3>3
  <2> QED
    BY <2>1, <2>3, <2>4, <2>6 DEF OnceInv
<1>4. ASSUME NEW s \in Handles, ExchangeDecomposes(s) PROVE OnceInv'
  BY <1>4 DEF ExchangeDecomposes, OnceInv
<1>5. ASSUME NEW o \in Decomps, FDecompose(o) PROVE OnceInv'
  <2>1. \A t \in Handles : \A p, q \in Proc : procs'[t][p][q] = <<>>
    BY <1>5, AllEmpty DEF FDecompose
  <2>2. decomposed'
    BY <1>5 DEF FDecompose
  <2> QED
    BY <2>1, <2>2 DEF OnceInv
<1> QED
  BY <1>1, <1>2, <1>3, <1>4, <1>5 DEF Next, CreateStencil, Exchange, FDecomposeFails, vars

\* Each processor has at most one node for each other, and one for each that
\* the stencil needs, as the comment on the list of nodes says, when the
\* domain is decomposed from the start, stencils are described once and
\* neighbours touch at points that compute.
THEOREM AlwaysOneNodePerProcessor ==
  TouchUntrimmed /\ ShapesFit /\ ~ Redescribe /\ Decomposed0 = {TRUE}
    => (Spec => []OneNodePerProcessor)
<1> SUFFICES ASSUME TouchUntrimmed, ShapesFit, ~ Redescribe, Decomposed0 = {TRUE}
             PROVE  Spec => []OneNodePerProcessor
  OBVIOUS
<1> DEFINE Inductive == TypeOK /\ MirrorInv /\ CurrentInv /\ OnceInv
<1>1. Init => Inductive
  BY InitType, InitMirror, InitCurrent, InitOnce
<1>2. Inductive /\ [Next]_vars => Inductive'
  BY NextType, NextMirror, NextCurrent, NextOnce
<1>3. Inductive => OneNodePerProcessor
  <2> SUFFICES ASSUME TypeOK, MirrorInv, CurrentInv, OnceInv, exch # 0,
                      NEW p \in Proc, NEW q \in Proc, p # q
               PROVE  /\ Len(procs[exch][p][q]) <= 1
                      /\ Required(owner, sten[exch], p, q) # {}
                           => Len(procs[exch][p][q]) = 1
    BY DEF OneNodePerProcessor
  <2> DEFINE e == procs[exch][p][q]
  <2>1. exch \in Handles /\ e \in Seq(Procrec)
    BY DEF TypeOK
  <2>2. Len(e) <= 1
    BY <2>1 DEF OnceInv
  <2>3. Built(exch)
    BY <2>1 DEF CurrentInv
  <2>4. sten[exch] \in Descriptions
    BY <2>1, <2>3 DEF TypeOK, Built
  <2>5. owner \in Decomps \union {[c \in Point |-> Nobody]}
    BY DEF MirrorInv
  <2>6. Required(owner, sten[exch], p, q) # {} => e # <<>>
    BY <2>3, <2>4, <2>5, OnlyNeighboursRequired DEF Built
  <2> HIDE DEF e
  <2>7. e # <<>> => Len(e) = 1
    <3> SUFFICES ASSUME e # <<>> PROVE Len(e) = 1
      OBVIOUS
    <3>1. Len(e) \in Nat /\ Len(e) # 0 /\ Len(e) <= 1
      BY <2>1, <2>2
    <3>2. \A n \in Nat : n # 0 /\ n <= 1 => n = 1
      OBVIOUS
    <3> QED
      BY <3>1, <3>2, Zenon
  <2> QED
    BY <2>2, <2>6, <2>7 DEF e
<1> QED
  BY <1>1, <1>2, <1>3, PTL DEF Spec
===============================================================================
