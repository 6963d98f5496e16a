--------------------------- MODULE RslBalanceProofs ---------------------------
(***************************************************************************)
(* What mapping_ (lb_alg.c) guarantees for every domain, mesh, limits and  *)
(* speeds.  Of the work of the cells nothing is used: whatever the weights *)
(* are, and however the floats round, only how many cells are handed out   *)
(* matters here.                                                           *)
(***************************************************************************)
EXTENDS RslBalance, FiniteSetTheorems, TLAPS

-------------------------------------------------------------------------------
(* The inductive invariant *)

\* Cuts of a line of size cells, some of them or all n.
Ascending(cut, size) ==
  /\ cut \in Seq(0..size)
  /\ \A a, b \in 1..Len(cut) : a <= b => cut[a] <= cut[b]

Complete(cut, n, size) == Ascending(cut, size) /\ Len(cut) = n /\ cut[n] = size

\* The line that is cut now.
LineInv ==
  /\ setup \in Setups /\ line \in 0..setup.py
  /\ status \in {"cutting", "done", "exit"}
  /\ stage \in {"weighted", "equal", "uniform"}
  /\ DOMAIN upto = 0..Size(line)
  /\ DOMAIN speeds = 1..Procs(line)
  /\ Ascending(cuts, Size(line)) /\ Len(cuts) <= Procs(line)

\* The lines that have been cut.
CutInv ==
  /\ line > 0 => Complete(rows, setup.py, setup.m)
  /\ DOMAIN cols = 1..setup.py
  /\ \A i \in 1..(line - 1) : Complete(cols[i], setup.px, setup.n)

DoneInv ==
  status = "done" =>
    line = setup.py /\ Complete(cols[line], setup.px, setup.n) /\ owner = Owners(cols)

Widest(k) == cuts[k] - From(cuts, k)

\* The limit is exceeded by one cell at most, and on the last processor only.
OneMoreOnTheLast ==
  \A k \in DOMAIN cuts : Widest(k) <= Limit(line) + IF k = Procs(line) THEN 1 ELSE 0

IInv == LineInv /\ CutInv /\ OneMoreOnTheLast /\ DoneInv

-------------------------------------------------------------------------------
(* Numbers and lines *)

LEMMA MinOfTwo ==
  ASSUME NEW a \in Int, NEW b \in Int
  PROVE  Min({a, b}) \in {a, b} /\ Min({a, b}) <= a /\ Min({a, b}) <= b
<1>1. \E x \in {a, b} : \A y \in {a, b} : x <= y
  <2>1. CASE a <= b BY <2>1
  <2>2. CASE b <= a BY <2>2
  <2> QED BY <2>1, <2>2
<1>2. Min({a, b}) \in {a, b} /\ \A y \in {a, b} : Min({a, b}) <= y
  BY <1>1 DEF Min
<1> QED BY <1>2

LEMMA SeqElements ==
  ASSUME NEW S, NEW s \in Seq(S)
  PROVE  Len(s) \in Nat /\ \A k \in 1..Len(s) : s[k] \in S
OBVIOUS

LEMMA LineTypes ==
  ASSUME setup \in Setups, line \in 0..setup.py
  PROVE  /\ setup.m \in Nat \ {0} /\ setup.n \in Nat \ {0}
         /\ setup.py \in Nat \ {0} /\ setup.px \in Nat \ {0}
         /\ Size(line) \in Nat \ {0} /\ Procs(line) \in Nat \ {0}
         /\ Limit(line) \in Nat \ {0}
BY BalanceAssumption DEF Size, Procs, Limit

LEMMA GivenAndLeft ==
  ASSUME LineInv
  PROVE  Given \in 0..Size(line) /\ Left \in 0..Size(line) /\ Left = Size(line) - Given
<1>1. Size(line) \in Nat \ {0} BY LineTypes DEF LineInv
<1>2. Len(cuts) \in Nat /\ \A k \in 1..Len(cuts) : cuts[k] \in 0..Size(line)
  BY SeqElements DEF LineInv, Ascending
<1>3. Given \in 0..Size(line) BY <1>1, <1>2 DEF Given, From
<1> QED BY <1>1, <1>3 DEF Left

\* What the next processor may get fits in the line, and in its limit but for
\* one cell of the last.
LEMMA NumbersFit ==
  ASSUME LineInv, NEW last \in BOOLEAN, NEW k \in Numbers(last)
  PROVE  k \in 0..Left /\ k <= Limit(line) + (IF last THEN 1 ELSE 0)
<1> DEFINE most == Min({Left, Limit(line)})
<1>1. Left \in Nat /\ Limit(line) \in Nat
  BY GivenAndLeft, LineTypes DEF LineInv
<1>2. most \in {Left, Limit(line)} /\ most <= Left /\ most <= Limit(line)
  <2>1. Left \in Int /\ Limit(line) \in Int BY <1>1
  <2> QED BY <2>1, MinOfTwo, Zenon
<1>3. CASE last
  <2>1. k = IF Left = most + 1 THEN Left ELSE most BY <1>3 DEF Numbers
  <2> QED BY <1>1, <1>2, <1>3, <2>1
<1>4. CASE ~ last
  <2>1. k \in 0..most BY <1>4 DEF Numbers
  <2> QED BY <1>1, <1>2, <1>4, <2>1
<1> QED BY <1>3, <1>4

-------------------------------------------------------------------------------
(* The invariant holds *)

LEMMA InitIInv == Init => IInv
<1> SUFFICES ASSUME Init PROVE IInv
  OBVIOUS
<1>1. setup \in Setups /\ line = 0 /\ cuts = << >> /\ stage = "weighted" /\ status = "cutting"
  BY DEF Init
<1>2. setup.py \in Nat \ {0} /\ Size(line) \in Nat \ {0} /\ Procs(line) \in Nat \ {0}
  <2>1. line \in 0..setup.py BY <1>1, BalanceAssumption
  <2> QED BY <1>1, <2>1, LineTypes
<1>3. LineInv
  <2>1. line \in 0..setup.py BY <1>1, <1>2
  <2>2. DOMAIN upto = 0..Size(line) BY <1>1 DEF Init, Totals, Size
  <2>3. DOMAIN speeds = 1..Procs(line) BY <1>1 DEF Init, Procs
  <2>4. Ascending(cuts, Size(line)) /\ Len(cuts) <= Procs(line) BY <1>1, <1>2 DEF Ascending
  <2> QED BY <1>1, <2>1, <2>2, <2>3, <2>4 DEF LineInv
<1>4. CutInv BY <1>1, <1>2 DEF CutInv, Init
<1>5. OneMoreOnTheLast BY <1>1 DEF OneMoreOnTheLast
<1>6. DoneInv BY <1>1 DEF DoneInv
<1> QED BY <1>3, <1>4, <1>5, <1>6 DEF IInv

\* A line starts afresh.
LEMMA AfreshIInv ==
  ASSUME IInv, cuts' = << >>, setup' = setup, status' = "cutting",
         line' \in 0..setup.py, stage' \in {"weighted", "equal", "uniform"},
         DOMAIN upto' = 0..Size(line'), DOMAIN speeds' = 1..Procs(line'),
         CutInv'
  PROVE  IInv'
<1>1. setup \in Setups BY DEF IInv, LineInv
<1>2. Procs(line') \in Nat \ {0} /\ Procs(line)' = Procs(line') /\ Size(line)' = Size(line')
  BY <1>1, BalanceAssumption DEF Procs, Size
<1>3. LineInv'
  <2>1. Ascending(cuts, Size(line))' /\ Len(cuts)' <= Procs(line)' BY <1>2 DEF Ascending
  <2> QED BY <1>1, <1>2, <2>1 DEF LineInv
<1>4. OneMoreOnTheLast' BY DEF OneMoreOnTheLast
<1>5. DoneInv' BY DEF DoneInv
<1> QED BY <1>3, <1>4, <1>5 DEF IInv

LEMMA DealIInv == ASSUME IInv, Deal PROVE IInv'
<1> DEFINE n == Len(cuts) + 1
<1>0. LineInv BY DEF IInv
<1>1. PICK k \in Numbers(n = Procs(line)) : cuts' = Append(cuts, Given + k)
  BY DEF Deal
<1>2. status = "cutting" /\ Len(cuts) < Procs(line) BY DEF Deal, Cutting
<1>3. UNCHANGED <<setup, line, upto, speeds, stage, rows, cols, owner, status>> BY DEF Deal
<1>4. Given \in 0..Size(line) /\ Left \in 0..Size(line) /\ Left = Size(line) - Given
  BY <1>0, GivenAndLeft
<1>5. k \in 0..Left /\ k <= Limit(line) + (IF n = Procs(line) THEN 1 ELSE 0)
  BY <1>0, NumbersFit
<1>6. Size(line) \in Nat \ {0} /\ Procs(line) \in Nat \ {0} /\ Limit(line) \in Nat \ {0}
  BY <1>0, LineTypes DEF LineInv
<1>7. /\ Size(line)' = Size(line) /\ Procs(line)' = Procs(line) /\ Limit(line)' = Limit(line)
  BY <1>3 DEF Size, Procs, Limit
<1>8. cuts \in Seq(0..Size(line)) /\ \A a, b \in 1..Len(cuts) : a <= b => cuts[a] <= cuts[b]
  BY <1>0 DEF LineInv, Ascending
<1>9. Given + k \in 0..Size(line) BY <1>4, <1>5, <1>6
<1>10. /\ cuts' \in Seq(0..Size(line)) /\ Len(cuts') = n /\ cuts'[n] = Given + k
       /\ \A a \in 1..Len(cuts) : cuts'[a] = cuts[a]
  BY <1>1, <1>8, <1>9
<1>11. \A a \in 1..Len(cuts) : cuts[a] <= Given
  <2> SUFFICES ASSUME NEW a \in 1..Len(cuts) PROVE cuts[a] <= Given
    OBVIOUS
  <2>1. Len(cuts) \in Nat /\ Given = cuts[Len(cuts)] BY <1>8 DEF Given, From
  <2> QED BY <1>8, <2>1
<1>12. LineInv'
  <2>1. Len(cuts) \in Nat BY <1>8
  <2>2. \A a, b \in 1..n : a <= b => cuts'[a] <= cuts'[b]
    <3> SUFFICES ASSUME NEW a \in 1..n, NEW b \in 1..n, a <= b PROVE cuts'[a] <= cuts'[b]
      OBVIOUS
    <3>1. CASE b < n
      BY <1>8, <1>10, <2>1, <3>1
    <3>2. CASE b = n /\ a < n
      <4>1. cuts'[a] <= Given BY <1>10, <1>11, <2>1, <3>2
      <4>2. \A x \in 1..Len(cuts') : cuts'[x] \in 0..Size(line) BY <1>10, SeqElements, Zenon
      <4>3. cuts'[a] \in Int BY <1>6, <1>10, <3>2, <4>2
      <4> QED BY <1>4, <1>5, <1>6, <1>10, <3>2, <4>1, <4>3
    <3>3. CASE b = n /\ a = n
      BY <1>9, <1>10, <1>6, <3>3
    <3> QED BY <2>1, <3>1, <3>2, <3>3
  <2>3. Ascending(cuts, Size(line))' BY <1>7, <1>10, <2>2 DEF Ascending
  <2>4. Len(cuts)' <= Procs(line)' BY <1>2, <1>6, <1>7, <1>10, <2>1
  <2> QED BY <1>0, <1>3, <1>7, <2>3, <2>4 DEF LineInv
<1>13. CutInv' BY <1>3 DEF IInv, CutInv
<1>14. OneMoreOnTheLast'
  <2>1. Len(cuts) \in Nat BY <1>8
  <2> SUFFICES ASSUME NEW a \in 1..n
               PROVE  cuts'[a] - From(cuts', a)
                        <= Limit(line) + (IF a = Procs(line) THEN 1 ELSE 0)
    BY <1>7, <1>10 DEF OneMoreOnTheLast, Widest
  <2>2. CASE a < n
    <3>1. cuts'[a] = cuts[a] /\ From(cuts', a) = From(cuts, a)
      BY <1>10, <2>1, <2>2 DEF From
    <3>2. cuts[a] - From(cuts, a) <= Limit(line) + (IF a = Procs(line) THEN 1 ELSE 0)
      BY <1>8, <2>1, <2>2 DEF IInv, OneMoreOnTheLast, Widest
    <3> QED BY <3>1, <3>2
  <2>3. CASE a = n
    <3>1. From(cuts', n) = Given BY <1>10, <2>1 DEF From, Given
    <3>2. cuts'[n] - From(cuts', n) = k BY <1>4, <1>5, <1>6, <1>10, <3>1
    <3> QED BY <1>5, <2>3, <3>2
  <2> QED BY <2>1, <2>2, <2>3
<1>15. DoneInv' BY <1>2, <1>3 DEF DoneInv
<1> QED BY <1>12, <1>13, <1>14, <1>15 DEF IInv

\* Steps that only touch speeds, work and stage and start the line again.
LEMMA RetryIInv == ASSUME IInv, Smooth \/ MakeEqual \/ MakeUniform PROVE IInv'
<1>1. setup \in Setups /\ line \in 0..setup.py /\ stage \in {"weighted", "equal", "uniform"}
  BY DEF IInv, LineInv
<1>2. status = "cutting" /\ cuts' = << >> /\ UNCHANGED <<setup, line, rows, cols, owner, status>>
  BY DEF Smooth, MakeEqual, MakeUniform, Cutting
<1>3. stage' \in {"weighted", "equal", "uniform"} BY <1>1 DEF Smooth, MakeEqual, MakeUniform
<1>4. DOMAIN upto' = 0..Size(line) BY DEF Smooth, MakeEqual, MakeUniform, IInv, LineInv
<1>5. DOMAIN speeds' = 1..Procs(line)
  BY DEF Smooth, MakeEqual, MakeUniform, Smoothed, IInv, LineInv
<1>6. Size(line') = Size(line) /\ Procs(line') = Procs(line) BY <1>2
<1>7. CutInv' BY <1>2 DEF IInv, CutInv
<1> QED BY <1>1, <1>2, <1>3, <1>4, <1>5, <1>6, <1>7, AfreshIInv

\* A line is cut to its end.
LEMMA SuccessComplete ==
  ASSUME LineInv, Success
  PROVE  Complete(cuts, Procs(line), Size(line))
<1>1. Given \in 0..Size(line) /\ Left = Size(line) - Given BY GivenAndLeft
<1>2. Procs(line) \in Nat \ {0} /\ Size(line) \in Nat BY LineTypes DEF LineInv
<1>3. Len(cuts) = Procs(line) /\ Given = Size(line) BY <1>1, <1>2 DEF Success, Dealt
<1>4. Given = cuts[Procs(line)] BY <1>2, <1>3 DEF Given, From
<1> QED BY <1>3, <1>4 DEF Complete, LineInv

\* decomp_load goes on to line l.
LEMMA StartLineIInv ==
  ASSUME IInv, NEW l \in 1..setup.py, NEW cut, StartLine(l, cut),
         setup' = setup, status' = "cutting", CutInv'
  PROVE  IInv'
<1>1. setup \in Setups /\ setup.py \in Nat \ {0} /\ setup.px \in Nat \ {0}
  BY LineTypes DEF IInv, LineInv
<1>2. line' = l /\ cuts' = << >> /\ stage' = "weighted" BY DEF StartLine
<1>3. DOMAIN upto' = 0..Size(line') BY <1>1, <1>2 DEF StartLine, Totals, Size
<1>4. DOMAIN speeds' = 1..Procs(line')
  <2>1. setup.proc_speeds[l] \in [1..setup.px -> Nat \ {0}] BY <1>1, BalanceAssumption
  <2> QED BY <1>1, <1>2, <2>1 DEF StartLine, Procs
<1>5. line' \in 0..setup.py BY <1>1, <1>2
<1> QED BY <1>2, <1>3, <1>4, <1>5, AfreshIInv

LEMMA CutRowsIInv == ASSUME IInv, CutRows PROVE IInv'
<1>1. /\ status = "cutting" /\ line = 0 /\ rows' = cuts /\ StartLine(1, cuts)
      /\ Success /\ UNCHANGED <<setup, cols, owner, status>>
  BY DEF CutRows, Cutting
<1>2. setup.py \in Nat \ {0} BY LineTypes DEF IInv, LineInv
<1>3. Complete(cuts, setup.py, setup.m) BY <1>1, SuccessComplete DEF IInv, Procs, Size
<1>4. line' = 1 BY <1>1 DEF StartLine
<1>5. CutInv' BY <1>1, <1>3, <1>4 DEF IInv, CutInv
<1> QED BY <1>1, <1>2, <1>5, StartLineIInv

LEMMA CutBandIInv == ASSUME IInv, CutBand PROVE IInv'
<1>1. /\ status = "cutting" /\ line \in 1..(setup.py - 1) /\ StartLine(line + 1, rows)
      /\ cols' = [cols EXCEPT ![line] = cuts]
      /\ Success /\ UNCHANGED <<setup, rows, owner, status>>
  BY DEF CutBand, Cutting
<1>2. setup.py \in Nat \ {0} BY LineTypes DEF IInv, LineInv
<1>3. Complete(cuts, setup.px, setup.n)
  <2>1. Procs(line) = setup.px /\ Size(line) = setup.n BY <1>1, <1>2 DEF Procs, Size
  <2> QED BY <1>1, <2>1, SuccessComplete DEF IInv
<1>4. line' = line + 1 BY <1>1 DEF StartLine
<1>5. CutInv'
  <2>1. Complete(rows', setup'.py, setup'.m) BY <1>1, <1>2 DEF IInv, CutInv
  <2>2. DOMAIN cols' = 1..setup'.py BY <1>1 DEF IInv, CutInv
  <2>3. ASSUME NEW i \in 1..(line' - 1) PROVE Complete(cols'[i], setup'.px, setup'.n)
    <3>1. CASE i = line
      <4>1. cols'[i] = cuts BY <1>1, <1>2, <3>1 DEF IInv, CutInv
      <4> QED BY <1>1, <1>3, <4>1
    <3>2. CASE i # line
      <4>1. i \in 1..(line - 1) /\ cols'[i] = cols[i] BY <1>1, <1>2, <1>4, <3>2 DEF IInv, CutInv
      <4> QED BY <1>1, <4>1 DEF IInv, CutInv
    <3> QED BY <3>1, <3>2
  <2> QED BY <2>1, <2>2, <2>3 DEF CutInv
<1>6. line + 1 \in 1..setup.py BY <1>1, <1>2
<1> QED BY <1>1, <1>5, <1>6, StartLineIInv

LEMMA AssignIInv == ASSUME IInv, Assign PROVE IInv'
<1>1. /\ line = setup.py /\ cols' = [cols EXCEPT ![line] = cuts] /\ owner' = Owners(cols')
      /\ status' = "done" /\ Success
      /\ UNCHANGED <<setup, line, upto, speeds, stage, cuts, rows>>
  BY DEF Assign
<1>2. setup.py \in Nat \ {0} BY LineTypes DEF IInv, LineInv
<1>3. LineInv' BY <1>1 DEF IInv, LineInv, Size, Procs, Ascending
<1>4. OneMoreOnTheLast'
  BY <1>1 DEF IInv, OneMoreOnTheLast, Widest, From, Limit, Procs
<1>5. CutInv' BY <1>1, <1>2 DEF IInv, CutInv
<1>6. cols'[line] = cuts BY <1>1, <1>2 DEF IInv, CutInv
<1>7. Complete(cuts, setup.px, setup.n)
  <2>1. Procs(line) = setup.px /\ Size(line) = setup.n BY <1>1, <1>2 DEF Procs, Size
  <2> QED BY <1>1, <2>1, SuccessComplete DEF IInv
<1>8. owner' = Owners(cols)'
  BY <1>1 DEF Owners, Cells, Number, Mesh, Patch, Share, From
<1>9. DoneInv' BY <1>1, <1>6, <1>7, <1>8 DEF DoneInv
<1> QED BY <1>3, <1>4, <1>5, <1>9 DEF IInv

LEMMA StutterIInv ==
  ASSUME IInv, UNCHANGED <<setup, line, upto, speeds, stage, cuts, rows, cols, owner>>,
         status' = status \/ status' = "exit"
  PROVE  IInv'
<1>1. LineInv' BY DEF IInv, LineInv, Size, Procs, Ascending
<1>2. CutInv' BY DEF IInv, CutInv
<1>3. OneMoreOnTheLast'
  BY DEF IInv, OneMoreOnTheLast, Widest, From, Limit, Procs
<1>4. Owners(cols)' = Owners(cols)
  BY DEF Owners, Cells, Number, Mesh, Patch, Share, From
<1>5. DoneInv' BY <1>4 DEF IInv, DoneInv
<1> QED BY <1>1, <1>2, <1>3, <1>5 DEF IInv

LEMMA NextIInv == IInv /\ [Next]_vars => IInv'
<1> SUFFICES ASSUME IInv, [Next]_vars PROVE IInv'
  OBVIOUS
<1>1. CASE Deal BY <1>1, DealIInv
<1>2. CASE Smooth \/ MakeEqual \/ MakeUniform BY <1>2, RetryIInv
<1>3. CASE GiveUp BY <1>3, StutterIInv DEF GiveUp
<1>4. CASE CutRows BY <1>4, CutRowsIInv
<1>5. CASE CutBand BY <1>5, CutBandIInv
<1>6. CASE Assign BY <1>6, AssignIInv
<1>7. CASE UNCHANGED vars BY <1>7, StutterIInv DEF vars
<1> QED BY <1>1, <1>2, <1>3, <1>4, <1>5, <1>6, <1>7 DEF Next

\* The invariant of the search.
THEOREM Invariance == Spec => []IInv
BY InitIInv, NextIInv, PTL DEF Spec

\* How far the kludge for the last processor (lb_alg.c:183-185) goes beyond the
\* limit that "no p gets more ... than" (lb_alg.c:71 and 156): by one cell, and
\* on that processor only.
THEOREM OverTheLimitByOne == Spec => []OneMoreOnTheLast
<1>1. IInv => OneMoreOnTheLast BY DEF IInv
<1> QED BY <1>1, Invariance, PTL

\* The states of the search have their types.
THEOREM TypeCorrect == Spec => []TypeOK
<1>1. IInv => TypeOK
  <2> SUFFICES ASSUME IInv PROVE TypeOK
    OBVIOUS
  <2>1. Len(cuts) \in Nat /\ \A k \in 1..Len(cuts) : cuts[k] \in 0..Size(line)
    BY SeqElements DEF IInv, LineInv, Ascending
  <2>2. DOMAIN cuts = 1..Len(cuts) BY DEF IInv, LineInv, Ascending
  <2>3. Size(line) \in Nat BY LineTypes DEF IInv, LineInv
  <2>4. ASSUME NEW k \in DOMAIN cuts PROVE cuts[k] \in From(cuts, k)..Size(line)
    <3>1. k \in 1..Len(cuts) BY <2>2
    <3>2. CASE k = 1 BY <2>1, <2>3, <3>1, <3>2 DEF From
    <3>3. CASE k # 1
      <4>1. k - 1 \in 1..Len(cuts) /\ k - 1 <= k BY <2>1, <3>1, <3>3
      <4>2. cuts[k - 1] <= cuts[k] BY <3>1, <4>1 DEF IInv, LineInv, Ascending
      <4> QED BY <2>1, <2>3, <3>1, <3>3, <4>1, <4>2 DEF From
    <3> QED BY <3>2, <3>3
  <2>5. status = "done" => setup.valid \subseteq DOMAIN owner
    <3>1. setup.valid \subseteq Cells(setup) BY BalanceAssumption DEF IInv, LineInv
    <3> QED BY <3>1 DEF IInv, DoneInv, Owners
  <2> QED BY <2>4, <2>5 DEF IInv, LineInv, TypeOK
<1> QED BY <1>1, Invariance, PTL

-------------------------------------------------------------------------------
(* The patches *)

\* The least element of a set of indices.
LEMMA LeastIndex ==
  ASSUME NEW n \in Nat, NEW Q \in SUBSET (1..n), Q # {}
  PROVE  \E i \in Q : \A j \in Q : i <= j
<1> DEFINE T == {1..i : i \in Q}
<1>1. T \subseteq FiniteSubsetsOf(Nat) BY FS_Interval DEF FiniteSubsetsOf
<1>2. PICK x \in T : \A y \in T : ~ (<<y, x>> \in StrictSubsetOrdering(Nat))
  <2>1. T # {} OBVIOUS
  <2>2. IsWellFoundedOn(StrictSubsetOrdering(Nat), FiniteSubsetsOf(Nat))
    BY FS_StrictSubsetOrderingWellFounded
  <2> HIDE DEF T
  <2> QED BY <1>1, <2>1, <2>2, WFMin
<1>3. PICK i \in Q : x = 1..i OBVIOUS
<1>4. ASSUME NEW j \in Q, j < i PROVE FALSE
  <2>1. 1..j \subseteq 1..i /\ i \in 1..i /\ i \notin 1..j BY <1>4
  <2>2. <<1..j, 1..i>> \in StrictSubsetOrdering(Nat) BY <2>1 DEF StrictSubsetOrdering
  <2> QED BY <1>2, <1>3, <2>2
<1> QED BY <1>4

\* Every cell of a line is in a share.
LEMMA ShareOf ==
  ASSUME NEW n \in Nat \ {0}, NEW size \in Nat, NEW cut, Complete(cut, n, size),
         NEW x \in 0..(size - 1)
  PROVE  \E i \in 1..n : x \in Share(cut, i)
<1> DEFINE Q == {i \in 1..n : x < cut[i]}
<1>1. \A i \in 1..n : cut[i] \in 0..size BY SeqElements DEF Complete, Ascending
<1>2. n \in Q BY DEF Complete
<1>3. PICK i \in Q : \A j \in Q : i <= j BY <1>2, LeastIndex
<1>4. CASE i = 1 BY <1>1, <1>3, <1>4 DEF Share, From
<1>5. CASE i # 1
  <2>1. i - 1 \in 1..n /\ ~ (i <= i - 1) BY <1>3, <1>5
  <2>2. cut[i - 1] <= x BY <1>1, <1>3, <2>1
  <2> QED BY <1>1, <1>3, <1>5, <2>1, <2>2 DEF Share, From
<1> QED BY <1>4, <1>5

\* The shares follow one another.
LEMMA SharesInOrder ==
  ASSUME NEW n \in Nat \ {0}, NEW size \in Nat, NEW cut, Complete(cut, n, size),
         NEW i \in 1..n, NEW j \in 1..n, i < j,
         NEW x \in Share(cut, i), NEW y \in Share(cut, j)
  PROVE  x < y
<1>1. \A k \in 1..n : cut[k] \in 0..size BY SeqElements DEF Complete, Ascending
<1>2. i <= j - 1 /\ j - 1 \in 1..n /\ j # 1 OBVIOUS
<1>3. cut[i] <= cut[j - 1] BY <1>2 DEF Complete, Ascending
<1>4. x \in Int /\ x <= cut[i] - 1 BY <1>1 DEF Share, From
<1>5. y \in Int /\ cut[j - 1] <= y BY <1>1, <1>2 DEF Share, From
<1> QED BY <1>1, <1>2, <1>3, <1>4, <1>5

LEMMA Quotient ==
  ASSUME NEW b \in Nat \ {0}, NEW a \in Nat, NEW r \in 0..(b - 1)
  PROVE  (a * b + r) \div b = a
OBVIOUS

\* A valid cell has the processor whose patch it is in.
LEMMA OwnersPatch ==
  ASSUME IInv, status = "done", NEW c \in setup.valid
  PROVE  \E p \in Mesh : /\ owner[c] = Number(p)
                          /\ c[1] \in Share(rows, p[1]) /\ c[2] \in Share(cols[p[1]], p[2])
<1>1. setup \in Setups /\ line \in 0..setup.py /\ line = setup.py BY DEF IInv, LineInv, DoneInv
<1>2. /\ setup.m \in Nat \ {0} /\ setup.n \in Nat \ {0}
      /\ setup.py \in Nat \ {0} /\ setup.px \in Nat \ {0}
  BY <1>1, LineTypes
<1>3. c \in Cells(setup) BY <1>1, BalanceAssumption
<1>4. c[1] \in 0..(setup.m - 1) /\ c[2] \in 0..(setup.n - 1) /\ c = <<c[1], c[2]>>
  BY <1>3 DEF Cells
<1>5. Complete(rows, setup.py, setup.m) BY <1>1, <1>2 DEF IInv, CutInv
<1>6. PICK i \in 1..setup.py : c[1] \in Share(rows, i) BY <1>2, <1>4, <1>5, ShareOf
<1>7. Complete(cols[i], setup.px, setup.n)
  <2>1. CASE i = line BY <2>1 DEF IInv, DoneInv
  <2>2. CASE i # line
    <3>1. i \in 1..(line - 1) BY <1>1, <1>2, <2>2
    <3> QED BY <3>1 DEF IInv, CutInv
  <2> QED BY <2>1, <2>2
<1>8. PICK j \in 1..setup.px : c[2] \in Share(cols[i], j) BY <1>2, <1>4, <1>7, ShareOf
<1>9. <<i, j>> \in Mesh /\ c \in Patch(cols, i, j) BY <1>4, <1>6, <1>8 DEF Mesh, Patch
<1> DEFINE p == CHOOSE q \in Mesh : c \in Patch(cols, q[1], q[2])
<1>10. p \in Mesh /\ c \in Patch(cols, p[1], p[2]) BY <1>9
<1>11. owner[c] = Number(p) BY <1>3 DEF IInv, DoneInv, Owners
<1> HIDE DEF p
<1>12. c[1] \in Share(rows, p[1]) /\ c[2] \in Share(cols[p[1]], p[2]) BY <1>10 DEF Patch
<1> QED BY <1>10, <1>11, <1>12

\* What the number of a processor tells of its place in the mesh.
LEMMA PlaceOf ==
  ASSUME setup.py \in Nat \ {0}, setup.px \in Nat \ {0}, NEW p \in Mesh
  PROVE  LET w == Number(p) - IF setup.ionode THEN 1 ELSE 0
         IN /\ w = (p[1] - 1) * setup.px + (p[2] - 1)
            /\ w \in 0..(setup.py * setup.px - 1)
            /\ w \div setup.px = p[1] - 1
<1> DEFINE a == p[1] - 1
           r == p[2] - 1
           w == Number(p) - IF setup.ionode THEN 1 ELSE 0
<1>1. p[1] \in 1..setup.py /\ p[2] \in 1..setup.px BY DEF Mesh
<1>2. a \in 0..(setup.py - 1) /\ r \in 0..(setup.px - 1) /\ a \in Nat BY <1>1
<1>3. a * setup.px \in Nat BY <1>2
<1>4. w = a * setup.px + r
  <2>1. Number(p) = a * setup.px + p[2] - 1 + IF setup.ionode THEN 1 ELSE 0 BY DEF Number
  <2> QED BY <1>1, <1>3, <2>1
<1>5. w \div setup.px = a BY <1>2, <1>4, Quotient
<1>6. a * setup.px + setup.px <= setup.py * setup.px
  <2>1. (a + 1) * setup.px <= setup.py * setup.px BY <1>2
  <2>2. (a + 1) * setup.px = a * setup.px + setup.px BY <1>2
  <2> QED BY <2>1, <2>2
<1>7. w \in 0..(setup.py * setup.px - 1)
  <2>1. setup.py * setup.px \in Nat OBVIOUS
  <2> HIDE DEF a, r
  <2> QED BY <1>2, <1>3, <1>4, <1>6, <2>1
<1> QED BY <1>4, <1>5, <1>7

\* In a finished decomposition processors have rectangles, in the order of the
\* mesh.
THEOREM PatchesAlwaysRectangles == Spec => []PatchesAreRectangles
<1>1. IInv => PatchesAreRectangles
  <2> DEFINE io == IF setup.ionode THEN 1 ELSE 0
  <2> SUFFICES ASSUME IInv, status = "done", NEW c \in setup.valid, NEW d \in setup.valid
               PROVE  LET p == owner[c] - io  q == owner[d] - io
                      IN /\ p \in 0..(setup.py * setup.px - 1)
                         /\ p \div setup.px < q \div setup.px => c[1] < d[1]
                         /\ p \div setup.px = q \div setup.px /\ p < q => c[2] < d[2]
    BY DEF PatchesAreRectangles
  <2>1. setup \in Setups /\ line \in 0..setup.py /\ line = setup.py
    BY DEF IInv, LineInv, DoneInv
  <2>2. /\ setup.m \in Nat \ {0} /\ setup.n \in Nat \ {0}
        /\ setup.py \in Nat \ {0} /\ setup.px \in Nat \ {0}
    BY <2>1, LineTypes
  <2>3. PICK p \in Mesh : /\ owner[c] = Number(p) /\ c[1] \in Share(rows, p[1])
                          /\ c[2] \in Share(cols[p[1]], p[2])
    BY OwnersPatch
  <2>4. PICK q \in Mesh : /\ owner[d] = Number(q) /\ d[1] \in Share(rows, q[1])
                          /\ d[2] \in Share(cols[q[1]], q[2])
    BY OwnersPatch
  <2>5. /\ p[1] \in 1..setup.py /\ p[2] \in 1..setup.px
        /\ q[1] \in 1..setup.py /\ q[2] \in 1..setup.px
    BY DEF Mesh
  <2>6. /\ owner[c] - io = (p[1] - 1) * setup.px + (p[2] - 1)
        /\ owner[c] - io \in 0..(setup.py * setup.px - 1)
        /\ (owner[c] - io) \div setup.px = p[1] - 1
    BY <2>2, <2>3, PlaceOf
  <2>7. /\ owner[d] - io = (q[1] - 1) * setup.px + (q[2] - 1)
        /\ (owner[d] - io) \div setup.px = q[1] - 1
    BY <2>2, <2>4, PlaceOf
  <2>8. Complete(rows, setup.py, setup.m) BY <2>1, <2>2 DEF IInv, CutInv
  <2>9. p[1] < q[1] => c[1] < d[1] BY <2>2, <2>3, <2>4, <2>5, <2>8, SharesInOrder
  <2>10. Complete(cols[p[1]], setup.px, setup.n)
    <3>1. CASE p[1] = line BY <3>1 DEF IInv, DoneInv
    <3>2. CASE p[1] # line
      <4>1. p[1] \in 1..(line - 1) BY <2>1, <2>2, <2>5, <3>2
      <4> QED BY <4>1 DEF IInv, CutInv
    <3> QED BY <3>1, <3>2
  <2>11. p[1] = q[1] /\ p[2] < q[2] => c[2] < d[2]
    BY <2>2, <2>3, <2>4, <2>5, <2>10, SharesInOrder
  <2> HIDE DEF io
  <2>12. p[1] = q[1] /\ owner[c] - io < owner[d] - io => p[2] < q[2]
    <3> SUFFICES ASSUME p[1] = q[1], owner[c] - io < owner[d] - io PROVE p[2] < q[2]
      OBVIOUS
    <3> DEFINE a == (p[1] - 1) * setup.px
    <3>1. a \in Int BY <2>2, <2>5
    <3>2. owner[c] - io = a + (p[2] - 1) /\ owner[d] - io = a + (q[2] - 1) BY <2>6, <2>7
    <3> HIDE DEF a
    <3> QED BY <2>5, <3>1, <3>2
  <2> QED BY <2>5, <2>6, <2>7, <2>9, <2>11, <2>12
<1> QED BY <1>1, Invariance, PTL
===============================================================================
