---------------------------- MODULE Mm5RunProofs ----------------------------
(***************************************************************************)
(* What the main program of MM5 guarantees for any number of processors    *)
(* and domains, any namelist and any crashes and restarts: types; that     *)
(* SOLVE never runs with boundary tendencies of another period; that       *)
(* processors, nests and their mothers are always of times that go         *)
(* together; that what a run was restarted from remains; that all the      *)
(* output that falls due while a run lasts is written; and that no restart *)
(* loses output, whatever files earlier runs have left.                    *)
(***************************************************************************)
EXTENDS Mm5Run, FiniteSetTheorems, SequenceTheorems, WellFoundedInduction, TLAPS

-------------------------------------------------------------------------------
(* Numbers, and the steps of nests *)

LEMMA LeastOf ==
  ASSUME NEW T \in SUBSET Nat, T # {}
  PROVE  Least(T) \in T /\ \A y \in T : Least(T) <= y
<1>1. PICK x \in T : \A y \in T : ~ (<<y, x>> \in OpToRel(<, Nat))
  BY NatLessThanWellFounded, WFMin
<1>2. \A y \in T : ~ (y < x)
  BY <1>1 DEF OpToRel
<1>3. \E z \in T : \A y \in T : z <= y
  BY <1>2
<1> QED BY <1>3 DEF Least

LEMMA NintNat ==
  ASSUME NEW a \in Nat, NEW b \in Nat \ {0}
  PROVE  Nint(a, b) \in Nat
<1> DEFINE x == 2 * a + b
           y == 2 * b
<1>1. x \in Nat /\ y \in Nat /\ y > 0
  OBVIOUS
<1> HIDE DEF x, y
<1>2. x \div y \in Nat
  BY <1>1
<1> QED BY <1>2 DEF Nint, x, y

LEMMA RunNumbers ==
  ASSUME nml \in Namelists
  PROVE  /\ MaxNes \in Nat \ {0} /\ NProc \in Nat \ {0} /\ Monitor \in Proc /\ 1 \in Dom
         /\ Nest \subseteq Dom /\ Nest = Dom \ {1}
         /\ Step \in Nat \ {0} /\ nml.minute \in Nat \ {0}
         /\ nml.tapfrq \in Nat /\ nml.savfrq \in Nat
         /\ nml.bdyfrq \in Nat /\ nml.bdys \in Nat /\ nml.bdyfirst \in Int /\ nml.bdyfrq >= Step
         /\ \A d \in Nest : Mother(d) \in 1..(d - 1) /\ Mother(d) \in Dom /\ XStNes(d) \in Nat
<1>1. NamelistOK(nml) /\ MaxNes \in Nat \ {0} /\ NProc \in Nat \ {0}
  BY RunAssumption
<1>2. Monitor \in Proc /\ 1 \in Dom /\ Nest \subseteq Dom /\ Nest = Dom \ {1}
  BY <1>1 DEF Monitor, Proc, Dom, Nest
<1>3. \A d \in Nest : nml.mother[d] \in 1..(d - 1) /\ nml.start[d] \in Nat
  BY <1>1 DEF NamelistOK
<1>4. \A d \in Nest : Mother(d) \in 1..(d - 1) /\ Mother(d) \in Dom /\ XStNes(d) \in Nat
  BY <1>1, <1>2, <1>3 DEF Mother, XStNes, Dom, Nest
<1> QED BY <1>1, <1>2, <1>4 DEF NamelistOK, Step

\* One step of nest d is a third of its mother's.
IsDtMin(f, n) ==
  f = [d \in 1..n |-> IF d = 1 THEN Step ELSE f[Mother(d)] \div 3]

LEMMA DtMinOf ==
  ASSUME nml \in Namelists, NEW n \in Nat, NEW f, IsDtMin(f, n), n < MaxNes
  PROVE  \E g : IsDtMin(g, n + 1)
<1>1. PICK g : g = [d \in 1..(n + 1) |->
                      IF d = 1 THEN Step ELSE f[Mother(d)] \div 3]
  OBVIOUS
<1>2. \A d \in 1..(n + 1) : d # 1 => Mother(d) \in 1..n
  <2> SUFFICES ASSUME NEW d \in 1..(n + 1), d # 1
               PROVE  Mother(d) \in 1..n
    OBVIOUS
  <2> QED BY RunNumbers DEF Nest
<1>3. g = [d \in 1..(n + 1) |-> IF d = 1 THEN Step ELSE g[Mother(d)] \div 3]
  BY <1>1, <1>2 DEF IsDtMin
<1> QED BY <1>3 DEF IsDtMin

LEMMA DtMinExists ==
  ASSUME nml \in Namelists
  PROVE  \E f : IsDtMin(f, MaxNes)
<1> DEFINE T == {n \in 0..MaxNes : ~ \E f : IsDtMin(f, n)}
<1>1. SUFFICES ASSUME T # {}
               PROVE  FALSE
  BY RunNumbers
<1>2. T \in SUBSET Nat
  BY RunNumbers
<1>3. PICK n : n = Least(T)
  OBVIOUS
<1>4. n \in T /\ \A m \in T : n <= m
  BY <1>1, <1>2, <1>3, LeastOf
<1>5. IsDtMin(<<>>, 0)
  BY DEF IsDtMin
<1>6. n # 0 /\ n - 1 \in 0..MaxNes /\ n - 1 \in Nat /\ n - 1 < MaxNes /\ (n - 1) + 1 = n
  BY <1>4, RunNumbers, <1>5
<1>7. n - 1 \notin T
  BY <1>4, <1>6
<1>8. PICK f : IsDtMin(f, n - 1)
  BY <1>6, <1>7
<1> QED BY <1>4, RunNumbers, <1>6, <1>8, DtMinOf

LEMMA DtMinFacts ==
  ASSUME nml \in Namelists
  PROVE  /\ DtMin[1] = Step
         /\ \A d \in Nest : DtMin[d] = DtMin[Mother(d)] \div 3
         /\ \A d \in Dom : DtMin[d] \in Nat
<1>1. \A d \in Dom : DtMin[d] = IF d = 1 THEN Step ELSE DtMin[Mother(d)] \div 3
  <2>1. PICK f : f = DtMin
    OBVIOUS
  <2> QED BY <2>1, DtMinExists DEF IsDtMin, Dom, DtMin
<1> DEFINE T == {d \in Dom : DtMin[d] \notin Nat}
<1>2. T = {}
  <2> SUFFICES ASSUME T # {}
               PROVE  FALSE
    OBVIOUS
  <2>1. PICK d : d = Least(T)
    OBVIOUS
  <2>2. d \in T /\ \A e \in T : d <= e
    BY <2>1, LeastOf DEF Dom
  <2>3. d \in Dom /\ DtMin[d] \notin Nat
    BY <2>2
  <2>4. d # 1
    BY <1>1, <2>3, RunNumbers
  <2>5. DtMin[Mother(d)] \in Nat
    BY <2>3, <2>4, RunNumbers, <2>2 DEF Dom
  <2> HIDE DEF T
  <2> QED BY <2>3, <2>5, <1>1, <2>4
<1> QED BY <1>1, <1>2, RunNumbers

-------------------------------------------------------------------------------
(* Types *)

Clocks == [ktau : Nat, xtime : Nat, itap : Nat]
Frame  == [mother : Dom, nn : Nat, last : 0..MaxNes]

FilesTyped ==
  \A f \in files : /\ f.p \in Proc /\ f.d \in Dom /\ f.name \in Nat /\ f.whole \in BOOLEAN
                   /\ f.mem \in Clocks
TapesTyped == cut \subseteq tapes /\ \A r \in tapes : r[1] \in Dom /\ r[2] \in Nat /\ r[3] \in Nat
MemTyped   == mem \in [Proc -> [Dom -> Clocks]]
FramesTyped ==
  /\ frames \in Seq(Frame)
  /\ \A i \in 1..Len(frames) : frames[i].mother \in active /\ frames[i].nn \in 1..3
  /\ frames # <<>> <=> pc = "nests"

\* What is still to be written belongs to domains that are active, and is
\* there only while it is written; the coarse domain is always active.
SetsTyped ==
  /\ nml \in Namelists /\ starts \in 0..MaxStart /\ lost \in 0..MaxLost
  /\ pc \in {"down", "loop", "check", "solve", "nests", "end", "output"}
  /\ check \in 2..(MaxNes + 1) /\ back \in {"loop", "solve"}
  /\ active \subseteq Dom /\ outs \subseteq active /\ opened \subseteq Dom
  /\ DOMAIN saving = Proc /\ \A p \in Proc : saving[p] \subseteq active
  /\ pc # "output" => outs = {} /\ \A p \in Proc : saving[p] = {}
  /\ pc # "down" => 1 \in active

TInv == FilesTyped /\ TapesTyped /\ MemTyped /\ FramesTyped /\ SetsTyped

LEMMA TInvTypeOK == TInv => TypeOK
BY DEF TInv, FilesTyped, TapesTyped, FramesTyped, SetsTyped, TypeOK

LEMMA ZeroTyped == Zero \in Clocks
BY DEF Zero, Clocks

LEMMA TypesInit == Init => TInv
<1> SUFFICES ASSUME Init
             PROVE  TInv
  OBVIOUS
<1>1. MemTyped
  BY ZeroTyped DEF Init, MemTyped
<1>2. FramesTyped
  BY EmptySeq DEF Init, FramesTyped
<1>3. SetsTyped
  BY RunNumbers, RunAssumption DEF Init, SetsTyped
<1> QED BY <1>1, <1>2, <1>3 DEF TInv, Init, FilesTyped, TapesTyped

LEMMA GoDownTyped ==
  ASSUME TInv, GoDown, nml' = nml, starts' = starts, lost' = lost
  PROVE  MemTyped' /\ FramesTyped' /\ SetsTyped'
<1>1. MemTyped'
  BY ZeroTyped DEF GoDown, MemTyped
<1>2. FramesTyped'
  BY EmptySeq DEF GoDown, FramesTyped
<1>3. SetsTyped'
  BY RunNumbers DEF GoDown, TInv, SetsTyped
<1> QED BY <1>1, <1>2, <1>3

LEMMA TimeTyped ==
  ASSUME TInv
  PROVE  /\ \A d \in Dom : XTime(d) \in Nat /\ KTau(d) \in Nat /\ mem[Monitor][d].itap \in Nat
         /\ Clock \in Nat /\ SaveName \in Nat
<1>1. nml \in Namelists
  BY DEF TInv, SetsTyped
<1>2. \A d \in Dom : mem[Monitor][d] \in Clocks
  BY <1>1, RunNumbers DEF TInv, MemTyped
<1>3. \A d \in Dom : XTime(d) \in Nat /\ KTau(d) \in Nat /\ mem[Monitor][d].itap \in Nat
  BY <1>2 DEF XTime, KTau, Clocks
<1>4. Clock \in Nat
  BY <1>1, <1>3, RunNumbers DEF Clock
<1>5. SaveName \in Nat
  BY <1>1, <1>4, RunNumbers, NintNat DEF SaveName
<1> QED BY <1>3, <1>4, <1>5

LEMMA SolvedTyped ==
  ASSUME TInv, NEW d \in Dom, Solved(d)
  PROVE  MemTyped'
<1>1. nml \in Namelists
  BY DEF TInv, SetsTyped
<1>2. DtMin[d] \in Nat /\ (d # 1 => XStNes(d) \in Nat)
  BY <1>1, DtMinFacts, RunNumbers
<1>3. PICK s : s = IF d = 1 THEN 0 ELSE XStNes(d)
  OBVIOUS
<1>4. s \in Nat
  BY <1>2, <1>3
<1>5. ASSUME NEW p \in Proc
      PROVE  mem'[p] \in [Dom -> Clocks]
  <2>1. PICK m : m = mem[p]
    OBVIOUS
  <2>2. m \in [Dom -> Clocks] /\ m[d] \in Clocks
    BY <2>1 DEF TInv, MemTyped
  <2>3. m[d].ktau + 1 \in Nat /\ s + (m[d].ktau + 1) * DtMin[d] \in Nat
    BY <1>2, <1>4, <2>2 DEF Clocks
  <2>4. PICK k, t : k = m[d].ktau + 1 /\ t = s + (m[d].ktau + 1) * DtMin[d]
    OBVIOUS
  <2> QED BY <2>2, <2>3, <1>3, <2>1, <2>4 DEF Clocks, Solved
<1> QED BY <1>5 DEF MemTyped, Solved

LEMMA OutTapTyped ==
  ASSUME TInv, NEW d \in Dom, NEW count \in Nat, NEW t \in Nat, OutTap(d, count, t)
  PROVE  TapesTyped' /\ Suffix(d, count) \in Nat /\ opened' \subseteq Dom
<1>1. PICK n : n = Suffix(d, count)
  OBVIOUS
<1>2. n \in Nat
  BY <1>1 DEF Suffix
<1> QED BY <1>1, <1>2 DEF OutTap, TInv, SetsTyped, TapesTyped

\* The monitor counts its output files.
LEMMA CountTyped ==
  ASSUME TInv, NEW d \in Dom, Suffix(d, mem[Monitor][d].itap) \in Nat,
         mem' = [mem EXCEPT ![Monitor][d].itap = Suffix(d, @)]
  PROVE  MemTyped'
<1>1. Monitor \in Proc
  BY RunNumbers DEF TInv, SetsTyped
<1>2. PICK m, c, n : m = mem[Monitor] /\ c = m[d] /\ n = Suffix(d, c.itap)
  OBVIOUS
<1>3. m \in [Dom -> Clocks] /\ c \in Clocks /\ n \in Nat
  BY <1>1, <1>2 DEF TInv, MemTyped
<1>4. PICK e : e = [c EXCEPT !.itap = n]
  OBVIOUS
<1> QED BY <1>1, <1>3, <1>2, <1>4 DEF TInv, MemTyped, Clocks

LEMMA CallsTyped ==
  ASSUME TInv, NEW m \in active
  PROVE  /\ Calls(m) \in Seq(Frame) /\ Len(Calls(m)) \in 0..1
         /\ \A i \in 1..Len(Calls(m)) : Calls(m)[i].mother = m /\ Calls(m)[i].nn = 1
<1>1. [mother |-> m, nn |-> 1, last |-> 0] \in Frame
  BY RunNumbers DEF Frame, TInv, SetsTyped
<1>2. CASE Children(m) = {}
  BY <1>2, EmptySeq DEF Calls
<1>3. CASE Children(m) # {}
  BY <1>1, <1>3 DEF Calls
<1> QED BY <1>2, <1>3

\* Checking a nest, and what may come of it.
LEMMA CheckTyped ==
  ASSUME TInv, pc = "check", NextCheck, active' \subseteq Dom, 1 \in active',
         opened' \subseteq Dom,
         UNCHANGED <<nml, starts, lost, back, frames, outs, saving>>
  PROVE  FramesTyped' /\ SetsTyped'
<1>1. FramesTyped'
  BY EmptySeq DEF FramesTyped, TInv, NextCheck, SetsTyped
<1>2. SetsTyped'
  BY RunNumbers DEF TInv, SetsTyped, NextCheck
<1> QED BY <1>1, <1>2

LEMMA StartTyped ==
  ASSUME TInv, Start
  PROVE  TInv'
<1>1. nml \in Namelists /\ 1 \in Dom /\ MaxNes \in Nat \ {0} /\ MaxStart \in Nat
  BY RunNumbers, RunAssumption DEF TInv, SetsTyped
<1>2. /\ pc = "down" /\ starts < MaxStart /\ starts' = starts + 1
      /\ active' = {1} /\ opened' = {1} /\ pc' = "check" /\ check' = 2 /\ back' = "loop"
      /\ tapes' = {r \in tapes : ~ (r[1] = 1 /\ r[2] = 0)} \union {<<1, 0, 0>>}
      /\ cut' = {r \in cut : ~ (r[1] = 1 /\ r[2] = 0)}
      /\ UNCHANGED <<nml, lost, files, mem, frames, outs, saving>>
  BY DEF Start, ChecksNests
<1>3. FilesTyped' /\ MemTyped'
  BY <1>2 DEF TInv, FilesTyped, MemTyped
<1>4. TapesTyped'
  <2>1. cut' \subseteq tapes'
    BY <1>2 DEF TInv, TapesTyped
  <2> QED BY <1>1, <1>2, <2>1 DEF TInv, TapesTyped
<1>5. frames = <<>> /\ Len(frames) = 0
  BY <1>2 DEF TInv, FramesTyped
<1>6. FramesTyped'
  BY <1>2, <1>5, EmptySeq DEF FramesTyped
<1>7. SetsTyped'
  BY <1>1, <1>2 DEF TInv, SetsTyped
<1> QED BY <1>3, <1>4, <1>6, <1>7 DEF TInv

LEMMA CorrectedDom ==
  ASSUME nml \in Namelists, NEW given, NEW t
  PROVE  Corrected(given, t) \subseteq Dom /\ 1 \in Corrected(given, t)
BY RunNumbers DEF Corrected

\* What a processor reads is what a restart file has.
LEMMA OpenedFile ==
  ASSUME TInv, NEW p, NEW d, NEW ixtimr, Readable(p, d, ixtimr)
  PROVE  (CHOOSE f \in ToOpen(p, d, ixtimr) : TRUE)
           \in {f \in files : f.p = p /\ f.d = d}
<1> QED BY DEF ToOpen, Named, Readable

LEMMA RestartTyped ==
  ASSUME TInv, NEW ixtimr \in Saved, NEW given \in SUBSET Nest, Restart(ixtimr, given)
  PROVE  TInv'
<1>1. nml \in Namelists /\ MaxNes \in Nat \ {0} /\ MaxStart \in Nat
  BY RunNumbers, RunAssumption DEF TInv, SetsTyped
<1>2. PICK on : on = Corrected(given, Minutes(ixtimr))
  OBVIOUS
<1>3. on \subseteq Dom /\ 1 \in on
  BY <1>1, <1>2, CorrectedDom
<1>4. /\ pc = "down" /\ starts < MaxStart /\ starts' = starts + 1
      /\ Restartable(ixtimr, given)
      /\ active' = on
      /\ mem' = [p \in Proc |-> [d \in Dom |->
                   IF d \in on THEN (CHOOSE f \in ToOpen(p, d, ixtimr) : TRUE).mem ELSE Zero]]
      /\ UNCHANGED <<nml, lost, files, tapes, cut, frames, outs, saving, opened>>
      /\ \/ pc' = "check" /\ check' = 2 /\ back' = "loop"
         \/ pc' = "loop" /\ check' = check /\ back' = back
  BY <1>2 DEF Restart, ChecksNests
<1>5. ASSUME NEW p \in Proc, NEW d \in on
      PROVE  (CHOOSE f \in ToOpen(p, d, ixtimr) : TRUE).mem \in Clocks
  <2>1. Readable(p, d, ixtimr)
    BY <1>2, <1>4 DEF Restartable
  <2>2. PICK f : f = CHOOSE g \in ToOpen(p, d, ixtimr) : TRUE
    OBVIOUS
  <2>3. f \in files
    BY <2>1, <2>2, OpenedFile
  <2> QED BY <2>2, <2>3 DEF TInv, FilesTyped
<1>6. MemTyped'
  BY <1>4, <1>5, ZeroTyped DEF MemTyped
<1>7. FilesTyped' /\ TapesTyped'
  BY <1>4 DEF TInv, FilesTyped, TapesTyped
<1>8. frames = <<>> /\ Len(frames) = 0
  BY <1>4 DEF TInv, FramesTyped
<1>9. FramesTyped'
  BY <1>4, <1>8, EmptySeq DEF FramesTyped
<1>10. SetsTyped'
  BY <1>1, <1>3, <1>4 DEF TInv, SetsTyped
<1> QED BY <1>6, <1>7, <1>9, <1>10 DEF TInv

LEMMA ReadBoundaryTyped ==
  ASSUME TInv, ReadBoundary
  PROVE  TInv'
<1>1. /\ pc = "loop" /\ UNCHANGED <<nml, starts, lost, files, tapes, cut>>
      /\ \/ GoDown
         \/ /\ pc' = "check" /\ check' = 2 /\ back' = "solve"
            /\ UNCHANGED <<job, mem, active, tap, sav, frames, outs, saving, opened>>
  BY DEF ReadBoundary, ChecksNests
<1>2. FilesTyped' /\ TapesTyped'
  BY <1>1 DEF TInv, FilesTyped, TapesTyped
<1>3. CASE GoDown
  BY <1>1, <1>2, <1>3, GoDownTyped DEF TInv
<1>4. CASE /\ pc' = "check" /\ check' = 2 /\ back' = "solve"
           /\ UNCHANGED <<job, mem, active, tap, sav, frames, outs, saving, opened>>
  <2>1. SetsTyped'
    BY RunNumbers, <1>1, <1>4 DEF TInv, SetsTyped
  <2> QED BY <1>2, <1>4, <1>1, EmptySeq, <2>1 DEF TInv, FramesTyped, MemTyped
<1> QED BY <1>1, <1>3, <1>4

LEMMA DeactivateTyped ==
  ASSUME TInv, Deactivate
  PROVE  TInv'
<1>1. /\ check \in Dom /\ check # 1 /\ Monitor \in Proc
      /\ active' = active \ {check} /\ NextCheck
      /\ UNCHANGED <<nml, starts, lost, files, job, bdy, tap, sav, back, frames, outs, saving>>
      /\ \/ /\ OutTap(check, mem[Monitor][check].itap, XTime(check))
            /\ mem' = [mem EXCEPT ![Monitor][check].itap = Suffix(check, @)]
         \/ UNCHANGED <<tapes, cut, opened, mem>>
  BY RunNumbers DEF Deactivate, TInv, SetsTyped
<1>2. PICK count, t : count = mem[Monitor][check].itap /\ t = XTime(check)
  OBVIOUS
<1>3. TapesTyped' /\ MemTyped' /\ opened' \subseteq Dom
  <2>1. CASE UNCHANGED <<tapes, cut, opened, mem>>
    BY <2>1 DEF TInv, TapesTyped, MemTyped, SetsTyped
  <2>2. CASE /\ OutTap(check, mem[Monitor][check].itap, XTime(check))
             /\ mem' = [mem EXCEPT ![Monitor][check].itap = Suffix(check, @)]
    BY <1>1, <1>2, TimeTyped, <2>2, OutTapTyped, CountTyped
  <2> QED BY <1>1, <2>1, <2>2
<1> QED BY <1>3, <1>1, CheckTyped DEF TInv, SetsTyped, Deactivate, FilesTyped

LEMMA ActivateTyped ==
  ASSUME TInv, Activate
  PROVE  TInv'
<1>1. nml \in Namelists /\ check \in Nest /\ pc = "check"
  BY DEF Activate, TInv, SetsTyped
<1>2. PICK d, m, itap : d = check /\ m = Mother(check) /\ itap = mem[Monitor][m].itap
  OBVIOUS
<1>3. d \in Dom /\ m \in Dom /\ Monitor \in Proc
  BY <1>1, <1>2, RunNumbers
<1>4. /\ active' = active \union {d} /\ NextCheck
      /\ OutTap(d, itap, XTime(m))
      /\ mem' = [p \in Proc |->
                  [mem[p] EXCEPT ![d] =
                     [ktau |-> 0, xtime |-> mem[p][m].xtime,
                      itap |-> IF p = Monitor THEN Suffix(d, itap) ELSE mem[p][m].itap]]]
      /\ UNCHANGED <<nml, starts, lost, files, job, bdy, tap, sav, back, frames, outs, saving>>
  BY <1>2 DEF Activate
<1>5. itap \in Nat /\ XTime(m) \in Nat
  BY <1>2, <1>3, TimeTyped
<1>6. TapesTyped' /\ Suffix(d, itap) \in Nat /\ opened' \subseteq Dom
  <2>1. PICK t : t = XTime(m)
    OBVIOUS
  <2> QED BY <1>3, <1>4, <1>5, <2>1, OutTapTyped
<1>7. MemTyped'
  <2>1. ASSUME NEW p \in Proc
        PROVE  mem'[p] \in [Dom -> Clocks]
    <3>1. mem[p] \in [Dom -> Clocks] /\ mem[p][m] \in Clocks
      BY <1>3 DEF TInv, MemTyped
    <3>2. PICK c : c = [ktau |-> 0, xtime |-> mem[p][m].xtime,
                        itap |-> IF p = Monitor THEN Suffix(d, itap) ELSE mem[p][m].itap]
      OBVIOUS
    <3>3. c \in Clocks
      BY <1>6, <3>1, <3>2 DEF Clocks
    <3>4. mem'[p] = [mem[p] EXCEPT ![d] = c]
      BY <1>4, <3>2
    <3> QED BY <3>1, <3>3, <3>4
  <2>2. mem' = [p \in Proc |-> mem'[p]]
    BY <1>4
  <2> QED BY <2>1, <2>2 DEF MemTyped
<1>8. active' \subseteq Dom /\ 1 \in active'
  BY <1>1, <1>3, <1>4 DEF TInv, SetsTyped
<1>9. FramesTyped' /\ SetsTyped'
  BY <1>1, <1>4, <1>6, <1>8, CheckTyped
<1>10. FilesTyped'
  BY <1>4 DEF TInv, FilesTyped
<1> QED BY <1>6, <1>7, <1>9, <1>10 DEF TInv

LEMMA SolveCoarseTyped ==
  ASSUME TInv, SolveCoarse
  PROVE  TInv'
<1>1. nml \in Namelists /\ 1 \in Dom /\ 1 \in active /\ pc = "solve"
  BY RunNumbers DEF SolveCoarse, TInv, SetsTyped
<1>2. /\ Solved(1) /\ frames' = Calls(1)
      /\ pc' = (IF Calls(1) = <<>> THEN "end" ELSE "nests")
      /\ UNCHANGED <<nml, starts, lost, files, tapes, cut, active, check, back, outs, saving, opened>>
  BY DEF SolveCoarse
<1>3. MemTyped'
  BY <1>1, <1>2, SolvedTyped
<1>4. PICK s : s = Calls(1)
  OBVIOUS
<1>5. /\ s \in Seq(Frame)
      /\ \A i \in 1..Len(s) : s[i].mother = 1 /\ s[i].nn = 1
  BY <1>1, <1>4, CallsTyped
<1>6. FramesTyped'
  BY <1>1, <1>2, <1>4, <1>5 DEF FramesTyped
<1>7. SetsTyped'
  BY <1>1, <1>2 DEF TInv, SetsTyped
<1>8. FilesTyped' /\ TapesTyped'
  BY <1>2 DEF TInv, FilesTyped, TapesTyped
<1> QED BY <1>3, <1>6, <1>7, <1>8 DEF TInv

\* What a step that leaves the sets alone, and moves within the calls, keeps.
LEMMA CallsMove ==
  ASSUME TInv, pc = "nests", pc' \in {"nests", "end"},
         UNCHANGED <<nml, starts, lost, active, check, back, outs, saving, opened>>
  PROVE  SetsTyped'
BY DEF TInv, SetsTyped

\* The call on top, and those under it.
LEMMA TopFacts ==
  ASSUME TInv, pc = "nests"
  PROVE  /\ Len(frames) \in Nat \ {0} /\ Len(frames) \in 1..Len(frames)
         /\ Top \in Frame /\ Top.mother \in active /\ Top.nn \in 1..3
<1> QED BY DEF TInv, FramesTyped, Top

LEMMA SolveNestTyped ==
  ASSUME TInv, SolveNest
  PROVE  TInv'
<1>1. nml \in Namelists /\ pc = "nests" /\ MaxNes \in Nat
  BY RunNumbers DEF SolveNest, TInv, SetsTyped
<1>2. PICK d, n, s : d = Least(Waiting) /\ n = Len(frames) /\ s = Calls(d)
  OBVIOUS
<1>3. /\ Waiting # {} /\ Solved(d)
      /\ frames' = [frames EXCEPT ![n].last = d] \o s
      /\ UNCHANGED <<nml, starts, lost, files, tapes, cut, pc, active, check, back, outs, saving,
                     opened>>
  BY <1>2 DEF SolveNest
<1>4. Waiting \subseteq active /\ active \subseteq Dom
  BY DEF Waiting, Children, TInv, SetsTyped
<1>5. d \in Waiting
  BY <1>2, <1>3, <1>4, LeastOf DEF Dom
<1>6. d \in active /\ d \in Dom
  BY <1>4, <1>5
<1>7. MemTyped'
  BY <1>3, <1>6, SolvedTyped
<1>8. PICK t : t = [frames EXCEPT ![n].last = d]
  OBVIOUS
<1>9. /\ t \in Seq(Frame) /\ Len(t) = n /\ n \in Nat \ {0}
      /\ \A i \in 1..n : t[i].mother \in active /\ t[i].nn \in 1..3
  <2>1. frames[n] \in Frame /\ d \in 0..MaxNes
    BY <1>1, <1>2, <1>6, TopFacts DEF Dom, TInv, FramesTyped
  <2>2. PICK f : f = [frames[n] EXCEPT !.last = d]
    OBVIOUS
  <2>3. f \in Frame /\ f.mother = frames[n].mother /\ f.nn = frames[n].nn
    BY <2>1, <2>2 DEF Frame
  <2> QED BY <1>2, <1>1, TopFacts, <2>3, <1>8, <2>2 DEF TInv, FramesTyped
<1>10. /\ s \in Seq(Frame) /\ \A i \in 1..Len(s) : s[i].mother = d /\ s[i].nn = 1
  BY <1>2, <1>6, CallsTyped
<1>11. FramesTyped'
  <2>1. PICK u : u = t \o s
    OBVIOUS
  <2>2. /\ u \in Seq(Frame) /\ Len(u) = n + Len(s) /\ Len(s) \in Nat
        /\ \A i \in 1..(n + Len(s)) : u[i] = IF i <= n THEN t[i] ELSE s[i - n]
    <3>1. Len(s) \in Nat
      BY <1>10
    <3> QED BY <1>9, <1>10, <2>1, ConcatProperties, <3>1
  <2>3. \A i \in 1..Len(u) : u[i].mother \in active /\ u[i].nn \in 1..3
    <3> SUFFICES ASSUME NEW i \in 1..Len(u)
                 PROVE  u[i].mother \in active /\ u[i].nn \in 1..3
      OBVIOUS
    <3>1. CASE i <= n
      BY <1>9, <2>2, <3>1
    <3>2. CASE i > n
      BY <1>6, <1>10, <1>9, <2>2, <3>2
    <3> QED BY <1>9, <2>2, <3>1, <3>2
  <2> QED BY <2>2, <2>3, <1>1, <1>3, <1>8, <1>9, <2>1 DEF FramesTyped
<1> QED BY <1>7, <1>11, <1>1, <1>3, CallsMove DEF TInv, FilesTyped, TapesTyped

LEMMA NextTurnTyped ==
  ASSUME TInv, NextTurn
  PROVE  TInv'
<1>1. nml \in Namelists /\ pc = "nests" /\ MaxNes \in Nat
  BY RunNumbers DEF NextTurn, TInv, SetsTyped
<1>2. PICK n : n = Len(frames)
  OBVIOUS
<1>3. /\ Top.nn < 3
      /\ frames' = [frames EXCEPT ![n].nn = @ + 1, ![n].last = 0]
      /\ UNCHANGED <<nml, starts, lost, files, tapes, cut, pc, mem, active, check, back, outs, saving,
                     opened>>
  BY <1>2 DEF NextTurn
<1>4. /\ n \in Nat \ {0} /\ n \in 1..n /\ frames \in Seq(Frame)
      /\ Top = frames[n] /\ Top \in Frame /\ Top.nn \in 1..3
  BY <1>1, <1>2, TopFacts DEF TInv, FramesTyped, Top
<1>5. PICK f : f = [frames[n] EXCEPT !.nn = @ + 1, !.last = 0]
  OBVIOUS
<1>6. f \in Frame /\ f.mother = frames[n].mother /\ f.nn \in 1..3
  <2>1. PICK g : g = frames[n]
    OBVIOUS
  <2>2. g.nn \in 1..2 /\ g \in [mother : Dom, nn : Nat, last : 0..MaxNes]
    BY <1>3, <1>4, <2>1 DEF Frame
  <2>3. f = [g EXCEPT !.nn = g.nn + 1, !.last = 0] /\ g.nn + 1 \in 1..3
    BY <1>5, <2>1, <2>2
  <2>4. f = [mother |-> g.mother, nn |-> g.nn + 1, last |-> 0]
    BY <2>2, <2>3
  <2>5. g.mother \in Dom /\ 0 \in 0..MaxNes /\ g.nn + 1 \in Nat
    BY <1>1, <2>2
  <2>6. f \in [mother : Dom, nn : Nat, last : 0..MaxNes]
    BY <2>4, <2>5
  <2> QED BY <2>1, <2>3, <2>4, <2>6 DEF Frame
<1>7. frames' = [frames EXCEPT ![n] = f]
  BY <1>3, <1>4, <1>5 DEF Frame
<1>8. /\ frames' \in Seq(Frame) /\ Len(frames') = n
      /\ \A i \in 1..n : frames'[i] = IF i = n THEN f ELSE frames[i]
  BY <1>2, <1>4, <1>6, <1>7
<1>9. FramesTyped'
  BY <1>1, <1>2, <1>3, <1>4, <1>6, <1>8 DEF TInv, FramesTyped
<1>10. SetsTyped' /\ FilesTyped' /\ TapesTyped' /\ MemTyped'
  BY <1>1, <1>3, CallsMove DEF TInv, FilesTyped, TapesTyped, MemTyped
<1> QED BY <1>9, <1>10 DEF TInv

LEMMA FeedBackTyped ==
  ASSUME TInv, FeedBack
  PROVE  TInv'
<1>1. nml \in Namelists /\ pc = "nests"
  BY DEF FeedBack, TInv, SetsTyped
<1>2. PICK n : n = Len(frames)
  OBVIOUS
<1>3. /\ frames' = SubSeq(frames, 1, n - 1)
      /\ pc' = IF n = 1 THEN "end" ELSE pc
      /\ UNCHANGED <<nml, starts, lost, files, tapes, cut, mem, active, check, back, outs, saving,
                     opened>>
  BY <1>2 DEF FeedBack, Front
<1>4. n \in Nat \ {0} /\ frames \in Seq(Frame)
  BY <1>1, <1>2, TopFacts DEF TInv, FramesTyped
<1>5. /\ frames' \in Seq(Frame) /\ Len(frames') = n - 1
      /\ \A i \in 1..(n - 1) : frames'[i] = frames[i]
  BY <1>2, <1>3, <1>4
<1>6. frames' = <<>> <=> n = 1
  BY <1>4, <1>5
<1>7. FramesTyped'
  BY <1>1, <1>2, <1>3, <1>4, <1>5, <1>6 DEF TInv, FramesTyped
<1>8. SetsTyped' /\ FilesTyped' /\ TapesTyped' /\ MemTyped'
  BY <1>1, <1>3, CallsMove DEF TInv, FilesTyped, TapesTyped, MemTyped
<1> QED BY <1>7, <1>8 DEF TInv

\* Steps that are not in a call leave the calls as they are: none.
LEMMA NoCalls ==
  ASSUME TInv, pc # "nests", pc' # "nests", frames' = frames
  PROVE  FramesTyped'
<1> QED BY EmptySeq DEF FramesTyped, TInv

LEMMA OutputTyped ==
  ASSUME TInv, Output
  PROVE  TInv'
<1>1. nml \in Namelists /\ pc = "end" /\ 1 \in Dom
  BY RunNumbers DEF Output, TInv, SetsTyped
<1>2. PICK now, on : /\ now \subseteq active /\ on \subseteq active /\ outs' = now
                     /\ mem' = [p \in Proc |->
                          [d \in Dom |-> IF d \in now
                                         THEN [mem[p][d] EXCEPT !.xtime = mem[p][1].xtime]
                                         ELSE mem[p][d]]]
                     /\ saving' = [p \in Proc |-> on]
  <2>1. PICK now : /\ now = {d \in active : /\ KTau(1) >= Nint(tap, Step)
                                            /\ Nint(Clock, nml.tapfrq) % nml.inctap[d] = 0}
                   /\ outs' = now
                   /\ mem' = [p \in Proc |->
                        [d \in Dom |-> IF d \in now
                                       THEN [mem[p][d] EXCEPT !.xtime = mem[p][1].xtime]
                                       ELSE mem[p][d]]]
    BY DEF Output
  <2>2. PICK on : on = IF KTau(1) >= Nint(sav, Step) THEN active ELSE {}
    OBVIOUS
  <2>3. saving' = [p \in Proc |-> on]
    BY <2>2 DEF Output
  <2>4. now \subseteq active /\ on \subseteq active
    BY <2>1, <2>2
  <2> QED BY <2>1, <2>3, <2>4
<1>3. pc' = "output" /\ UNCHANGED <<nml, starts, lost, files, tapes, cut, active, check, back, frames,
                                    opened>>
  BY DEF Output
<1>4. MemTyped'
  <2>1. ASSUME NEW p \in Proc, NEW d \in Dom
        PROVE  [mem[p][d] EXCEPT !.xtime = mem[p][1].xtime] \in Clocks
    <3>1. mem[p][d] \in Clocks /\ mem[p][1] \in Clocks
      BY <1>1 DEF TInv, MemTyped
    <3> QED BY <3>1 DEF Clocks
  <2>2. \A p \in Proc, d \in Dom : mem[p][d] \in Clocks
    BY DEF TInv, MemTyped
  <2> QED BY <1>2, <2>1, <2>2 DEF MemTyped
<1>5. FramesTyped'
  BY <1>1, <1>3, NoCalls
<1>6. SetsTyped'
  BY <1>1, <1>2, <1>3 DEF TInv, SetsTyped
<1>7. FilesTyped' /\ TapesTyped'
  BY <1>3 DEF TInv, FilesTyped, TapesTyped
<1> QED BY <1>4, <1>5, <1>6, <1>7 DEF TInv

\* The next of some domains.
LEMMA LeastDomain ==
  ASSUME NEW S \in SUBSET Dom, S # {}
  PROVE  Least(S) \in S
<1>1. S \in SUBSET Nat
  BY DEF Dom
<1> QED BY <1>1, LeastOf

LEMMA WriteOutputTyped ==
  ASSUME TInv, WriteOutput
  PROVE  TInv'
<1>1. nml \in Namelists /\ pc = "output" /\ outs \in SUBSET Dom
  BY DEF WriteOutput, TInv, SetsTyped
<1>2. PICK d : d = Least(outs)
  OBVIOUS
<1>3. /\ outs # {}
      /\ OutTap(d, mem[Monitor][d].itap, Clock)
      /\ mem' = [mem EXCEPT ![Monitor][d].itap = Suffix(d, @)]
      /\ outs' = outs \ {d}
      /\ UNCHANGED <<nml, starts, lost, files, pc, active, check, back, frames, saving>>
  BY <1>2 DEF WriteOutput
<1>4. d \in Dom
  BY <1>1, <1>2, <1>3, LeastDomain
<1>5. PICK count, t : count = mem[Monitor][d].itap /\ t = Clock
  OBVIOUS
<1>6. count \in Nat /\ t \in Nat
  BY <1>4, <1>5, TimeTyped
<1>7. TapesTyped' /\ Suffix(d, count) \in Nat /\ opened' \subseteq Dom
  BY <1>3, <1>4, <1>5, <1>6, OutTapTyped
<1>8. MemTyped'
  BY <1>3, <1>4, <1>5, <1>7, CountTyped
<1>9. FramesTyped'
  BY <1>1, <1>3, NoCalls
<1>10. SetsTyped'
  BY <1>1, <1>3, <1>7 DEF TInv, SetsTyped
<1>11. FilesTyped'
  BY <1>3 DEF TInv, FilesTyped
<1> QED BY <1>7, <1>8, <1>9, <1>10, <1>11 DEF TInv

LEMMA SaveTyped ==
  ASSUME TInv, NEW p \in Proc, Save(p)
  PROVE  TInv'
<1>1. nml \in Namelists /\ pc = "output" /\ saving[p] \in SUBSET Dom
  BY DEF Save, TInv, SetsTyped
<1>2. PICK d : d = Least(saving[p])
  OBVIOUS
<1>3. /\ saving[p] # {}
      /\ saving' = [saving EXCEPT ![p] = @ \ {d}]
      /\ \/ files' = SaveFile(p, d, TRUE) /\ lost' = lost
         \/ lost < MaxLost /\ lost' = lost + 1 /\ files' = files
      /\ UNCHANGED <<nml, starts, tapes, cut, pc, mem, active, check, back, frames, outs, opened>>
  BY <1>2 DEF Save
<1>4. d \in Dom
  BY <1>1, <1>2, <1>3, LeastDomain
<1>5. FilesTyped'
  <2>1. ASSUME NEW f \in files', f \notin files
        PROVE  /\ f.p = p /\ f.d = d /\ f.name = SaveName /\ f.whole = TRUE
               /\ f.mem = mem[p][d]
    BY <1>3, <2>1 DEF SaveFile, Overwritten
  <2>2. mem[p][d] \in Clocks /\ SaveName \in Nat
    BY <1>4, TimeTyped DEF TInv, MemTyped
  <2> QED BY <1>4, <2>1, <2>2 DEF TInv, FilesTyped
<1>6. lost' \in 0..MaxLost
  <2>1. lost \in 0..MaxLost /\ MaxLost \in Nat
    BY RunAssumption DEF TInv, SetsTyped
  <2>2. lost' = lost \/ (lost < MaxLost /\ lost' = lost + 1)
    BY <1>3
  <2> QED BY ONLY <2>1, <2>2
<1>7. SetsTyped'
  BY <1>1, <1>3, <1>6 DEF TInv, SetsTyped
<1>8. FramesTyped'
  BY <1>1, <1>3, NoCalls
<1>9. TapesTyped' /\ MemTyped'
  BY <1>3 DEF TInv, TapesTyped, MemTyped
<1> QED BY <1>5, <1>7, <1>8, <1>9 DEF TInv

LEMMA NextStepTyped ==
  ASSUME TInv, NextStep
  PROVE  TInv'
<1>1. /\ pc = "output" /\ outs = {} /\ \A p \in Proc : saving[p] = {}
      /\ UNCHANGED <<nml, starts, lost, files, tapes, cut>>
      /\ \/ GoDown
         \/ pc' = "loop" /\ UNCHANGED <<mem, active, check, back, frames, outs, saving, opened>>
  BY DEF NextStep
<1>2. FilesTyped' /\ TapesTyped'
  BY <1>1 DEF TInv, FilesTyped, TapesTyped
<1>3. CASE GoDown
  BY <1>1, <1>2, <1>3, GoDownTyped DEF TInv
<1>4. CASE pc' = "loop" /\ UNCHANGED <<mem, active, check, back, frames, outs, saving, opened>>
  BY <1>2, NoCalls, <1>1, <1>4 DEF TInv, SetsTyped, MemTyped
<1> QED BY <1>1, <1>3, <1>4

\* The files that a crash leaves: those there were, and the torn ones.
LEMMA CrashFacts ==
  ASSUME TInv, Crash
  PROVE  /\ GoDown /\ pc # "down" /\ UNCHANGED <<nml, starts, lost, tapes>>
         /\ \A f \in files' : f \in files \/
              /\ f.p \in Proc /\ f.d \in Dom /\ f.name = SaveName /\ f.whole = FALSE
              /\ f.mem = Zero
<1>1. PICK torn \in SUBSET {p \in Proc : saving[p] # {}} :
        files' = {f \in files : ~ \E p \in torn : f.p = p /\ f.d = Least(saving[p])
                                                  /\ f.name = SaveName}
                 \union {[p |-> p, d |-> Least(saving[p]), name |-> SaveName, whole |-> FALSE,
                          mem |-> Zero] : p \in torn}
  BY DEF Crash
<1> QED BY <1>1, LeastDomain DEF Crash, TInv, SetsTyped

LEMMA CrashTyped ==
  ASSUME TInv, Crash
  PROVE  TInv'
<1>1. TapesTyped'
  BY CrashFacts DEF Crash, TInv, TapesTyped
<1> QED BY <1>1, TimeTyped, ZeroTyped, CrashFacts, GoDownTyped DEF TInv, FilesTyped

LEMMA TypesNext ==
  ASSUME TInv, [Next]_vars
  PROVE  TInv'
<1>1. CASE Start
  BY <1>1, StartTyped
<1>2. CASE RestartAny
  BY <1>2, RestartTyped DEF RestartAny, Givens
<1>3. CASE ReadBoundary
  BY <1>3, ReadBoundaryTyped
<1>4. CASE CheckSkips
  BY <1>4, CheckTyped DEF TInv, FilesTyped, TapesTyped, MemTyped, CheckSkips, SetsTyped
<1>5. CASE Deactivate
  BY <1>5, DeactivateTyped
<1>6. CASE Activate
  BY <1>6, ActivateTyped
<1>7. CASE SolveCoarse
  BY <1>7, SolveCoarseTyped
<1>8. CASE SolveNest
  BY <1>8, SolveNestTyped
<1>9. CASE NextTurn
  BY <1>9, NextTurnTyped
<1>10. CASE FeedBack
  BY <1>10, FeedBackTyped
<1>11. CASE Output
  BY <1>11, OutputTyped
<1>12. CASE WriteOutput
  BY <1>12, WriteOutputTyped
<1>13. CASE \E p \in Proc : Save(p)
  BY <1>13, SaveTyped
<1>14. CASE NextStep
  BY <1>14, NextStepTyped
<1>15. CASE Crash
  BY <1>15, CrashTyped
<1>16. CASE Over \/ UNCHANGED vars
  BY <1>16 DEF Over, vars, running, TInv, FilesTyped, TapesTyped, MemTyped, FramesTyped, SetsTyped
<1> QED
  BY <1>1, <1>2, <1>3, <1>4, <1>5, <1>6, <1>7, <1>8, <1>9, <1>10, <1>11, <1>12, <1>13, <1>14, <1>15, <1>16
     DEF Next

\* Whatever the forecast, the kills and the restarts: files, tapes and clocks
\* are well formed, nests take at most three turns and only within the step of
\* a mother that is active, and what is still to be written or saved is of
\* domains that are active.
THEOREM TypeCorrect == Spec => []TypeOK
<1>1. Init => TInv
  BY TypesInit
<1>2. TInv /\ [Next]_vars => TInv'
  BY TypesNext
<1>3. TInv => TypeOK
  BY TInvTypeOK
<1> QED BY <1>1, <1>2, <1>3, PTL DEF Spec

-------------------------------------------------------------------------------
(* Boundary records *)

LEMMA BeginsFacts ==
  ASSUME nml \in Namelists, NEW k \in Nat
  PROVE  /\ Begins(k) \in Int /\ Begins(k) >= nml.bdyfirst
         /\ Begins(k + 1) = Begins(k) + nml.bdyfrq /\ Begins(0) = nml.bdyfirst
<1>1. PICK first, frq : first = nml.bdyfirst /\ frq = nml.bdyfrq
  OBVIOUS
<1> QED BY <1>1, RunNumbers DEF Begins

\* At the first step of a run the records that are over are skipped.
LEMMA RecordFacts ==
  ASSUME nml \in Namelists, NEW next \in 0..nml.bdys, NEW ktau, NEW ktaur, ktau \in {0, ktaur},
         NEW x, NEW k, k = BdyRecord(ktau, ktaur, x, next)
  PROVE  /\ k \in next..nml.bdys
         /\ k = nml.bdys \/ ~ (Begins(k) < x /\ Begins(k + 1) <= x)
         /\ \A j \in next..nml.bdys : j < k => Begins(j + 1) <= x
<1> DEFINE S == {j \in next..nml.bdys : j = nml.bdys \/ ~ (Begins(j) < x /\ Begins(j + 1) <= x)}
<1>1. nml.bdys \in Nat
  BY RunNumbers
<1>2. k = Least(S)
  BY DEF BdyRecord
<1>3. k \in S /\ \A j \in S : k <= j
  BY <1>1, <1>2, LeastOf
<1>4. ASSUME NEW j \in next..nml.bdys, j < k
      PROVE  Begins(j + 1) <= x
  <2>1. j \notin S
    BY <1>1, <1>3, <1>4
  <2> QED BY <2>1
<1> QED BY <1>3, <1>4

\* The last record read is the one before next, and is in force.
BdyKnown ==
  /\ bdy.next \in 0..nml.bdys
  /\ bdy = NoBdy \/ (/\ bdy.next > 0 /\ bdy.tbdybe = Begins(bdy.next - 1)
                     /\ bdy.bdytim = Begins(bdy.next))
InForce    == bdy.tbdybe <= Clock /\ Clock < bdy.bdytim
WasInForce == bdy.tbdybe <= Clock - Step /\ Clock - Step < bdy.bdytim

\* How far the coarse step is.
Phase == IF pc = "check" THEN back ELSE IF pc \in {"nests", "end", "output"} THEN "stepped" ELSE pc

\* The coarse domain's time tells its steps, in memory and in the files.
Clocked ==
  /\ \A p \in Proc : mem[p][1].xtime = mem[p][1].ktau * Step
  /\ \A f \in files : f.d = 1 => f.mem.xtime = f.mem.ktau * Step

\* Before the first record is read either there is none, after a restart, or
\* it is that of the time 0.  With one step to go none is read.
PhaseInv ==
  /\ Phase = "down" => bdy = NoBdy /\ KTau(1) = 0
  /\ Phase # "down" => job.ktaur \in Nat /\ job.timax \in Nat /\ KTau(1) >= job.ktaur
  /\ Phase = "loop" => IF KTau(1) = job.ktaur THEN bdy = NoBdy \/ InForce ELSE WasInForce
  /\ Phase = "solve" => IF Clock + Step < job.timax THEN InForce
                        ELSE KTau(1) # job.ktaur => WasInForce
  /\ Phase = "stepped" => KTau(1) # job.ktaur /\ (Clock < job.timax => WasInForce)
BdyInv ==
  /\ Clocked /\ BdyKnown /\ PhaseInv
  /\ files # {} \/ pc # "down" => nml.bdyfirst <= 0

LEMMA BdyInvInForce == TInv /\ BdyInv => BoundaryInForce
<1> SUFFICES ASSUME TInv, BdyInv, pc = "solve"
             PROVE  IF Clock + Step < job.timax
                    THEN bdy.tbdybe <= Clock /\ Clock < bdy.bdytim
                    ELSE KTau(1) > job.ktaur => bdy.tbdybe < Clock /\ Clock - Step < bdy.bdytim
  BY DEF BoundaryInForce
<1>1. Phase = "solve"
  BY DEF Phase
<1>2. CASE Clock + Step < job.timax
  BY <1>1, <1>2 DEF BdyInv, PhaseInv, InForce
<1>3. CASE ~ (Clock + Step < job.timax)
  <2> SUFFICES ASSUME KTau(1) > job.ktaur
               PROVE  bdy.tbdybe < Clock /\ Clock - Step < bdy.bdytim
    BY <1>3
  <2>1. nml \in Namelists
    BY DEF TInv, SetsTyped
  <2>2. job.ktaur \in Nat /\ KTau(1) \in Nat /\ Clock \in Nat /\ Step \in Nat \ {0}
    BY <1>1, <2>1, TimeTyped, RunNumbers DEF BdyInv, PhaseInv
  <2>3. WasInForce
    BY <1>1, <1>3, <2>2 DEF BdyInv, PhaseInv
  <2>4. bdy.tbdybe \in Int
    <3>1. CASE bdy = NoBdy
      BY <3>1 DEF NoBdy
    <3>2. CASE bdy # NoBdy
      <4>1. bdy.next - 1 \in Nat /\ bdy.tbdybe = Begins(bdy.next - 1)
        BY <2>1, <3>2, RunNumbers DEF BdyInv, BdyKnown
      <4> QED BY <2>1, <4>1, BeginsFacts
    <3> QED BY <3>1, <3>2
  <2> QED BY <2>2, <2>3, <2>4 DEF WasInForce
<1> QED BY <1>2, <1>3

LEMMA BdyInit == Init => BdyInv
<1> SUFFICES ASSUME Init
             PROVE  BdyInv
  OBVIOUS
<1>1. nml \in Namelists
  BY DEF Init
<1>2. /\ files = {} /\ pc = "down" /\ bdy = NoBdy
      /\ mem = [p \in Proc |-> [d \in Dom |-> Zero]]
  BY DEF Init
<1>3. Clocked
  BY <1>1, <1>2, RunNumbers DEF Clocked, Zero
<1>4. BdyKnown
  BY <1>1, <1>2, RunNumbers DEF BdyKnown, NoBdy
<1>5. PhaseInv
  BY <1>1, <1>2, RunNumbers DEF PhaseInv, Phase, KTau, Zero
<1> QED BY <1>2, <1>3, <1>4, <1>5 DEF BdyInv

\* Most steps are not about the coarse domain.
CoarseKept ==
  /\ \A p \in Proc : mem'[p][1].xtime = mem[p][1].xtime /\ mem'[p][1].ktau = mem[p][1].ktau
  /\ UNCHANGED <<nml, job, bdy>>

\* What is in files comes from memory, and there are only files of a program
\* that runs.
FilesGrow ==
  \A f \in files' : f \in files \/ (pc # "down" /\ \E p \in Proc : f.d = 1 => f.mem \in {mem[p][1], Zero})

LEMMA FilesKept ==
  ASSUME TInv, BdyInv, nml' = nml, FilesGrow
  PROVE  /\ \A f \in files' : f.d = 1 => f.mem.xtime = f.mem.ktau * Step
         /\ files' # {} => nml.bdyfirst <= 0
<1>1. nml \in Namelists
  BY DEF TInv, SetsTyped
<1>2. ASSUME NEW f \in files', f.d = 1
      PROVE  f.mem.xtime = f.mem.ktau * Step
  <2>1. CASE f \in files
    BY <1>2, <2>1 DEF BdyInv, Clocked
  <2>2. CASE f.mem = Zero
    BY <1>1, <2>2, RunNumbers DEF Zero
  <2>3. CASE \E p \in Proc : f.mem = mem[p][1]
    BY <2>3 DEF BdyInv, Clocked
  <2> QED BY <1>2, <2>1, <2>2, <2>3 DEF FilesGrow
<1> QED BY <1>2 DEF BdyInv, FilesGrow

LEMMA CoarseStays ==
  ASSUME TInv, BdyInv, CoarseKept, FilesGrow, pc # "down", Phase' = Phase
  PROVE  BdyInv'
<1>1. nml \in Namelists /\ Monitor \in Proc
  BY RunNumbers DEF TInv, SetsTyped
<1>2. /\ nml' = nml /\ job' = job /\ bdy' = bdy
      /\ Clock' = Clock /\ KTau(1)' = KTau(1) /\ Step' = Step
  BY <1>1 DEF CoarseKept, Clock, XTime, KTau, Step
<1>3. Clocked'
  BY <1>2, FilesKept DEF CoarseKept, BdyInv, Clocked
<1>4. BdyKnown'
  BY <1>2 DEF BdyInv, BdyKnown, Begins
<1>5. (InForce <=> InForce') /\ (WasInForce <=> WasInForce')
  BY <1>2 DEF InForce, WasInForce
<1>6. PhaseInv'
  BY <1>2, <1>5 DEF BdyInv, PhaseInv
<1>7. nml'.bdyfirst <= 0
  BY <1>2 DEF BdyInv
<1> QED BY <1>3, <1>4, <1>6, <1>7 DEF BdyInv

LEMMA GoneDown ==
  ASSUME TInv, BdyInv, GoDown, FilesGrow, nml' = nml
  PROVE  BdyInv'
<1>1. nml \in Namelists /\ Step' = Step /\ 1 \in Dom /\ Monitor \in Proc
  BY RunNumbers DEF TInv, SetsTyped, Step
<1>2. /\ bdy' = NoBdy /\ pc' = "down"
      /\ \A p \in Proc : mem'[p][1].xtime = 0 /\ mem'[p][1].ktau = 0
  BY <1>1 DEF GoDown, Zero
<1>3. Clocked'
  BY <1>1, <1>2, FilesKept, RunNumbers DEF Clocked
<1>4. BdyKnown'
  BY <1>1, <1>2, RunNumbers DEF BdyKnown, NoBdy
<1>5. PhaseInv'
  BY <1>1, <1>2 DEF PhaseInv, Phase, KTau
<1> QED BY <1>2, <1>3, <1>4, <1>5, FilesKept DEF BdyInv

LEMMA BdyStart ==
  ASSUME TInv, BdyInv, Start
  PROVE  BdyInv'
<1>1. /\ nml \in Namelists /\ Monitor \in Proc /\ nml.bdys \in Nat /\ 0 \in 0..nml.bdys
      /\ nml.bdyfrq \in Nat /\ nml.bdyfrq >= Step /\ Step \in Nat \ {0}
  BY RunNumbers DEF TInv, SetsTyped
<1>2. PICK k : k = BdyRecord(0, 0, 0, 0)
  OBVIOUS
<1>3. /\ pc = "down" /\ ~ BdyStops(k, 0)
      /\ \E t \in nml.timax : job' = [Dead EXCEPT !.timax = t]
      /\ bdy' = BdyRead(k) /\ pc' = "check" /\ back' = "loop"
      /\ UNCHANGED <<nml, files, mem>>
  BY <1>2 DEF Start, ChecksNests
<1>4. k \in 0..nml.bdys
  BY <1>1, <1>2, RecordFacts
<1>5. k \in Nat /\ k < nml.bdys /\ Begins(k) = 0
  BY <1>1, <1>3, <1>4 DEF BdyStops
<1>6. Begins(k + 1) = nml.bdyfrq /\ nml.bdyfirst <= 0
  BY <1>1, <1>5, BeginsFacts
<1>7. bdy' = [tbdybe |-> 0, bdytim |-> nml.bdyfrq, next |-> k + 1]
  BY <1>1, <1>3, <1>5 DEF BdyRead
<1>8. Clocked'
  BY <1>3 DEF BdyInv, Clocked, Step
<1>9. BdyKnown'
  <2>1. bdy'.next \in 0..nml.bdys /\ bdy'.next > 0 /\ bdy'.next - 1 = k
    BY <1>1, <1>5, <1>7
  <2>2. Begins(k)' = Begins(k) /\ Begins(k + 1)' = Begins(k + 1)
    BY <1>3 DEF Begins
  <2>3. bdy'.tbdybe = Begins(bdy.next - 1)' /\ bdy'.bdytim = Begins(bdy.next)'
    BY <1>3, <1>5, <1>6, <1>7, <2>1 DEF Begins
  <2> QED BY <1>3, <2>1, <2>3 DEF BdyKnown
<1>10. KTau(1)' = 0 /\ Clock' = 0
  <2>1. KTau(1) = 0
    BY <1>3 DEF BdyInv, PhaseInv, Phase
  <2>2. Clock = 0 * Step
    BY <1>1, <2>1 DEF BdyInv, Clocked, Clock, XTime, KTau
  <2> QED BY <1>1, <1>3, <2>1, <2>2 DEF Clock, XTime, KTau
<1>11. Phase' = "loop"
  BY <1>3 DEF Phase
<1>12. job'.ktaur = 0 /\ job'.timax \in Nat
  <2>1. nml.timax \subseteq Nat
    BY <1>1, RunAssumption DEF NamelistOK
  <2> QED BY <1>3, <2>1 DEF Dead
<1>13. InForce'
  BY <1>1, <1>7, <1>10 DEF InForce
<1>14. PhaseInv'
  BY <1>10, <1>11, <1>12, <1>13 DEF PhaseInv
<1> QED BY <1>3, <1>6, <1>8, <1>9, <1>14 DEF BdyInv

LEMMA BdyRestart ==
  ASSUME TInv, BdyInv, NEW ixtimr \in Saved, NEW given \in SUBSET Nest, Restart(ixtimr, given)
  PROVE  BdyInv'
<1>1. nml \in Namelists /\ Monitor \in Proc /\ 1 \in Dom
  BY RunNumbers DEF TInv, SetsTyped
<1>2. PICK Was : Was = [p \in Proc |-> (CHOOSE f \in ToOpen(p, 1, ixtimr) : TRUE).mem]
  OBVIOUS
<1>3. /\ pc = "down" /\ Restartable(ixtimr, given)
      /\ mem' = [p \in Proc |-> [d \in Dom |->
                   IF d \in Corrected(given, Minutes(ixtimr))
                   THEN (CHOOSE f \in ToOpen(p, d, ixtimr) : TRUE).mem ELSE Zero]]
      /\ \E t \in nml.timax : job' = [timax |-> t, ifrest |-> TRUE, ixtimr |-> ixtimr,
           ktaur |-> (CHOOSE f \in ToOpen(Monitor, 1, ixtimr) : TRUE).mem.ktau]
      /\ UNCHANGED <<nml, files, bdy>>
      /\ \/ pc' = "check" /\ back' = "loop"
         \/ pc' = "loop"
  BY DEF Restart, ChecksNests
<1>4. \A p \in Proc : mem'[p][1] = Was[p]
  BY <1>1, <1>2, CorrectedDom, <1>3
<1>5. ASSUME NEW p \in Proc
      PROVE  Was[p] \in Clocks /\ Was[p].xtime = Was[p].ktau * Step
  <2>1. Readable(p, 1, ixtimr)
    BY <1>1, CorrectedDom, <1>3 DEF Restartable
  <2>2. PICK f : f = CHOOSE g \in ToOpen(p, 1, ixtimr) : TRUE
    OBVIOUS
  <2>3. Was[p] = f.mem
    BY <1>2, <2>2
  <2> QED BY <2>1, <2>2, OpenedFile, <2>3 DEF TInv, FilesTyped, BdyInv, Clocked
<1>6. Clocked'
  BY <1>3, <1>4, <1>5 DEF BdyInv, Clocked, Step
<1>7. BdyKnown'
  BY <1>3 DEF BdyInv, BdyKnown, PhaseInv, Phase
<1>8. job'.ktaur = Was[Monitor].ktau /\ job'.timax \in Nat /\ KTau(1)' = Was[Monitor].ktau
  <2>1. nml.timax \subseteq Nat
    BY <1>1, RunAssumption DEF NamelistOK
  <2> QED BY <1>1, <1>4, <1>2, <1>3, <2>1 DEF KTau
<1>9. PhaseInv'
  BY <1>3, <1>8, <1>1, <1>5 DEF PhaseInv, Clocks, Phase, BdyInv
<1>10. nml'.bdyfirst <= 0
  <2>1. files # {}
    BY DEF Saved
  <2> QED BY <1>3, <2>1 DEF BdyInv
<1> QED BY <1>6, <1>7, <1>9, <1>10 DEF BdyInv

LEMMA BdyReadBoundary ==
  ASSUME TInv, BdyInv, ReadBoundary
  PROVE  BdyInv'
<1>1. /\ nml \in Namelists /\ Monitor \in Proc /\ nml.bdys \in Nat
      /\ nml.bdyfrq \in Nat /\ nml.bdyfrq >= Step /\ Step \in Nat \ {0}
      /\ nml.bdyfirst \in Int
  BY RunNumbers DEF TInv, SetsTyped
<1>2. PICK x, n, r, k : /\ x = Clock /\ n = KTau(1) /\ r = job.ktaur
                        /\ k = BdyRecord(n, r, x, bdy.next)
  OBVIOUS
<1> DEFINE due == x + Step < job.timax /\ x >= bdy.bdytim
<1>3. /\ pc = "loop" /\ nml' = nml /\ files' = files
      /\ \/ GoDown
         \/ /\ ~ (due /\ BdyStops(k, x))
            /\ bdy' = (IF due THEN BdyRead(k) ELSE bdy)
            /\ pc' = "check" /\ back' = "solve"
            /\ UNCHANGED <<job, mem>>
  BY <1>2 DEF ReadBoundary, ChecksNests
<1>4. CASE GoDown
  <2>1. FilesGrow
    BY <1>3 DEF FilesGrow
  <2> QED BY <1>3, <1>4, <2>1, GoneDown
<1>5. CASE /\ ~ (due /\ BdyStops(k, x))
           /\ bdy' = (IF due THEN BdyRead(k) ELSE bdy)
           /\ pc' = "check" /\ back' = "solve"
           /\ UNCHANGED <<job, mem>>
  <2>1. Phase = "loop" /\ Phase' = "solve"
    BY <1>3, <1>5 DEF Phase
  <2>2. /\ x \in Nat /\ n \in Nat /\ r \in Nat /\ n >= r /\ job.timax \in Nat
        /\ bdy.next \in 0..nml.bdys /\ nml.bdyfirst <= 0
    BY <1>2, <1>3, <2>1, TimeTyped, RunNumbers, <1>1 DEF BdyInv, PhaseInv, BdyKnown
  <2>3. /\ Clock' = x /\ KTau(1)' = n /\ Step' = Step /\ job' = job
        /\ \A j : Begins(j)' = Begins(j)
    BY <1>2, <1>3, <1>5 DEF Clock, KTau, XTime, Step, Begins
  <2>4. IF n = r THEN bdy = NoBdy \/ InForce ELSE WasInForce
    BY <1>2, <2>1 DEF BdyInv, PhaseInv
  <2>5. Clocked'
    BY <1>3, <1>5, <2>3 DEF BdyInv, Clocked
  <2>6. /\ BdyKnown' /\ bdy'.tbdybe \in Int /\ bdy'.bdytim \in Int
        /\ IF x + Step < job.timax THEN bdy'.tbdybe <= x /\ x < bdy'.bdytim
           ELSE n # r => WasInForce'
    <3>1. bdy # NoBdy => /\ bdy.next \in Nat \ {0} /\ bdy.next - 1 \in Nat
                         /\ bdy.tbdybe = Begins(bdy.next - 1)
                         /\ bdy.bdytim = Begins(bdy.next)
      BY <1>1, <2>2 DEF BdyInv, BdyKnown
    <3>2. bdy.tbdybe \in Int /\ bdy.bdytim \in Int
      <4>1. CASE bdy = NoBdy
        BY <4>1 DEF NoBdy
      <4>2. CASE bdy # NoBdy
        BY <1>1, <3>1, <4>2, BeginsFacts
      <4> QED BY <4>1, <4>2
    <3>3. CASE ~ due
      <4>1. bdy' = bdy
        BY <1>5, <3>3
      <4>2. BdyKnown'
        BY <1>3, <2>3, <4>1 DEF BdyInv, BdyKnown
      <4>3. WasInForce => WasInForce'
        BY <1>2, <2>3, <4>1 DEF WasInForce
      <4>4. ASSUME x + Step < job.timax
            PROVE  bdy.tbdybe <= x /\ x < bdy.bdytim
        <5>1. x < bdy.bdytim
          BY <2>2, <3>2, <3>3, <4>4
        <5>2. bdy # NoBdy
          BY <2>2, <5>1 DEF NoBdy
        <5> QED BY <1>1, <1>2, <2>2, <2>4, <3>2, <5>1, <5>2 DEF InForce, WasInForce
      <4> QED BY <2>4, <3>2, <4>1, <4>2, <4>3, <4>4
    <3>4. CASE due
      <4>1. bdy' = BdyRead(k) /\ x + Step < job.timax /\ x >= bdy.bdytim /\ ~ BdyStops(k, x)
        BY <1>5, <3>4
      <4>2. /\ k \in Nat /\ k < nml.bdys /\ Begins(k) <= x /\ x < Begins(k + 1)
        <5>1. CASE n = r
          <6>1. bdy = NoBdy /\ bdy.next = 0
            <7>1. ~ InForce
              BY <1>2, <2>2, <3>2, <4>1 DEF InForce
            <7> QED BY <2>4, <5>1, <7>1 DEF NoBdy
          <6>2. /\ k \in 0..nml.bdys
                /\ k = nml.bdys \/ ~ (Begins(k) < x /\ Begins(k + 1) <= x)
                /\ \A j \in 0..nml.bdys : j < k => Begins(j + 1) <= x
            BY <1>1, <1>2, <2>2, <5>1, <6>1, RecordFacts
          <6>3. k \in Nat /\ k < nml.bdys /\ ~ (Begins(k) < x /\ Begins(k + 1) <= x)
            BY <1>1, <4>1, <6>2 DEF BdyStops
          <6>4. /\ Begins(k) \in Int /\ Begins(k + 1) = Begins(k) + nml.bdyfrq
                /\ Begins(0) = nml.bdyfirst
            BY <1>1, <6>3, BeginsFacts
          <6>5. Begins(k) <= x
            <7>1. CASE k = 0
              BY <1>1, <2>2, <6>4, <7>1
            <7>2. CASE k # 0
              <8>1. k - 1 \in 0..nml.bdys /\ k - 1 < k /\ (k - 1) + 1 = k
                BY <1>1, <6>3, <7>2
              <8> QED BY <6>2, <8>1
            <7> QED BY <7>1, <7>2
          <6> QED BY <1>1, <2>2, <6>3, <6>4, <6>5
        <5>2. CASE n # r
          <6>1. WasInForce
            BY <2>4, <5>2
          <6>2. bdy # NoBdy
            BY <1>1, <1>2, <2>2, <6>1 DEF WasInForce, NoBdy
          <6>3. n \notin {0, r}
            BY <2>2, <5>2
          <6>4. k = bdy.next
            BY <1>2, <6>3 DEF BdyRecord
          <6>5. k \in Nat /\ k < nml.bdys
            BY <1>1, <2>2, <4>1, <6>4 DEF BdyStops
          <6>6. Begins(k) \in Int /\ Begins(k + 1) = Begins(k) + nml.bdyfrq
            BY <1>1, <6>5, BeginsFacts
          <6>7. Begins(k) <= x /\ x - Step < Begins(k)
            BY <1>2, <3>1, <4>1, <6>1, <6>2, <6>4 DEF WasInForce
          <6> QED BY <1>1, <2>2, <6>5, <6>6, <6>7
        <5> QED BY <5>1, <5>2
      <4>3. Begins(k) \in Int /\ Begins(k + 1) = Begins(k) + nml.bdyfrq
        BY <1>1, <4>2, BeginsFacts
      <4>4. bdy' = [tbdybe |-> Begins(k), bdytim |-> Begins(k + 1), next |-> k + 1]
        BY <4>1, <4>3 DEF BdyRead
      <4>5. BdyKnown'
        <5>1. /\ bdy'.next \in 0..nml.bdys /\ bdy'.next > 0 /\ bdy'.next - 1 = k
              /\ bdy'.next = k + 1
          BY <1>1, <4>2, <4>4
        <5>2. bdy'.tbdybe = Begins(bdy.next - 1)' /\ bdy'.bdytim = Begins(bdy.next)'
          BY <1>3, <4>4, <5>1 DEF Begins
        <5> QED BY <1>3, <5>1, <5>2 DEF BdyKnown
      <4> QED BY <1>1, <4>1, <4>2, <4>3, <4>4, <4>5
    <3> QED BY <3>3, <3>4
  <2>7. PhaseInv'
    <3>1. Clock' + Step' < job'.timax => InForce'
      BY <2>3, <2>6 DEF InForce
    <3> QED BY <1>2, <2>1, <2>2, <2>3, <2>6, <3>1 DEF PhaseInv
  <2>8. nml'.bdyfirst <= 0
    BY <1>3, <2>2
  <2> QED BY <2>5, <2>6, <2>7, <2>8 DEF BdyInv
<1> QED BY <1>3, <1>4, <1>5

\* Nothing but files' is new where memory and boundaries are left alone.
LEMMA SameFiles ==
  ASSUME files' = files
  PROVE  FilesGrow
BY DEF FilesGrow

\* While nests are checked.
LEMMA SamePhase ==
  ASSUME TInv, pc = "check", NextCheck, back' = back
  PROVE  Phase' = Phase /\ pc # "down"
<1> QED BY DEF NextCheck, Phase, TInv, SetsTyped

LEMMA BdyChecks ==
  ASSUME TInv, BdyInv, CheckSkips \/ Deactivate \/ Activate
  PROVE  BdyInv'
<1>1. \A p \in Proc : mem'[p][1].xtime = mem[p][1].xtime /\ mem'[p][1].ktau = mem[p][1].ktau
  <2>1. CASE mem' = mem
    BY <2>1
  <2>2. CASE Deactivate /\ mem' # mem
    <3>1. PICK n : n = Suffix(check, mem[Monitor][check].itap)
      OBVIOUS
    <3> QED BY RunNumbers, <2>2 DEF TInv, MemTyped, Deactivate, SetsTyped
  <2>3. CASE Activate
    BY <2>3, RunNumbers DEF Activate, TInv, MemTyped, SetsTyped
  <2> QED BY <2>1, <2>2, <2>3 DEF CheckSkips
<1> QED BY <1>1, SamePhase, SameFiles, CoarseStays DEF CheckSkips, Deactivate, Activate, CoarseKept

LEMMA BdySolve ==
  ASSUME TInv, BdyInv, SolveCoarse
  PROVE  BdyInv'
<1>1. nml \in Namelists /\ Monitor \in Proc /\ 1 \in Dom /\ Step \in Nat \ {0} /\ DtMin[1] = Step
  BY RunNumbers, DtMinFacts DEF TInv, SetsTyped
<1>2. /\ pc = "solve" /\ Solved(1) /\ pc' \in {"nests", "end"}
      /\ UNCHANGED <<nml, files, job, bdy>>
  BY DEF SolveCoarse
<1>3. ASSUME NEW p \in Proc
      PROVE  /\ mem'[p][1].ktau = mem[p][1].ktau + 1
             /\ mem'[p][1].xtime = (mem[p][1].ktau + 1) * Step
             /\ mem[p][1].ktau \in Nat /\ mem[p][1].xtime = mem[p][1].ktau * Step
  <2>1. mem[p] \in [Dom -> Clocks] /\ mem[p][1] \in Clocks
    BY <1>1 DEF TInv, MemTyped
  <2>2. PICK m, k, t : m = mem[p] /\ k = m[1].ktau + 1 /\ t = 0 + (m[1].ktau + 1) * DtMin[1]
    OBVIOUS
  <2>3. mem'[p] = [m EXCEPT ![1].ktau = k, ![1].xtime = t]
    BY <1>2, <2>1, <2>2 DEF Solved, Clocks
  <2>4. mem'[p][1].ktau = k /\ mem'[p][1].xtime = t
    BY <1>1, <2>1, <2>2, <2>3 DEF Clocks
  <2>5. mem[p][1].ktau \in Nat
    BY <2>1 DEF Clocks
  <2>6. t = (m[1].ktau + 1) * Step
    BY <1>1, <2>2, <2>5
  <2>7. mem[p][1].xtime = mem[p][1].ktau * Step
    BY DEF BdyInv, Clocked
  <2> QED BY <2>2, <2>4, <2>5, <2>6, <2>7
<1>4. Phase = "solve" /\ Phase' = "stepped"
  BY <1>2 DEF Phase
<1>5. PICK x, n : x = Clock /\ n = KTau(1)
  OBVIOUS
<1>6. x \in Nat /\ n \in Nat /\ x = n * Step
  BY <1>1, <1>3, <1>5, TimeTyped DEF Clock, XTime, KTau
<1>7. KTau(1)' = n + 1 /\ Clock' = x + Step /\ Step' = Step
  <2>1. (n + 1) * Step = n * Step + Step
    BY <1>1, <1>6
  <2> QED BY <1>1, <1>2, <1>3, <1>5, <1>6, <2>1 DEF Clock, XTime, KTau, Step
<1>8. Clocked'
  BY <1>2, <1>3, <1>7 DEF BdyInv, Clocked
<1>9. BdyKnown'
  BY <1>2 DEF BdyInv, BdyKnown, Begins
<1>10. PhaseInv'
  <2>1. job.ktaur \in Nat /\ job.timax \in Nat /\ n >= job.ktaur
    BY <1>4, <1>5 DEF BdyInv, PhaseInv
  <2>2. x + Step < job.timax => InForce
    BY <1>4, <1>5 DEF BdyInv, PhaseInv
  <2>3. n + 1 # job.ktaur /\ n + 1 >= job.ktaur
    BY <1>6, <2>1
  <2>4. x + Step < job.timax => WasInForce'
    <3>1. bdy' = bdy
      BY <1>2
    <3>2. Clock' - Step' = x
      BY <1>1, <1>6, <1>7
    <3>3. WasInForce' <=> (bdy'.tbdybe <= Clock' - Step' /\ Clock' - Step' < bdy'.bdytim)
      BY DEF WasInForce
    <3>4. WasInForce' <=> (bdy.tbdybe <= x /\ x < bdy.bdytim)
      BY ONLY <3>1, <3>2, <3>3
    <3> QED BY <1>5, <2>2, <3>4 DEF InForce
  <2> QED BY <1>2, <1>4, <1>7, <2>1, <2>3, <2>4 DEF PhaseInv
<1> QED BY <1>2, <1>8, <1>9, <1>10 DEF BdyInv

LEMMA BdyNests ==
  ASSUME TInv, BdyInv, SolveNest \/ NextTurn \/ FeedBack
  PROVE  BdyInv'
<1>1. \A p \in Proc : mem'[p][1] = mem[p][1]
  <2>1. CASE mem' = mem
    BY <2>1
  <2>2. CASE SolveNest
    <3>1. PICK d : d = Least(Waiting)
      OBVIOUS
    <3>2. Waiting # {} /\ Solved(d)
      BY <2>2, <3>1 DEF SolveNest
    <3>3. d # 1
      BY <3>1, <3>2, LeastDomain DEF Waiting, Children, TInv, SetsTyped
    <3> QED BY RunNumbers, <3>2, <3>3 DEF Solved, TInv, MemTyped, SetsTyped
  <2> QED BY <2>1, <2>2 DEF NextTurn, FeedBack
<1> QED BY <1>1, SameFiles, CoarseStays DEF Phase, SolveNest, NextTurn, FeedBack, CoarseKept

LEMMA BdyOutput ==
  ASSUME TInv, BdyInv, Output \/ WriteOutput
  PROVE  BdyInv'
<1>1. nml \in Namelists /\ 1 \in Dom /\ Monitor \in Proc
  BY RunNumbers DEF TInv, SetsTyped
<1>2. /\ pc \in {"end", "output"} /\ pc' = "output"
      /\ UNCHANGED <<nml, files, job, bdy>>
  BY DEF Output, WriteOutput
<1>3. \A p \in Proc : mem[p] \in [Dom -> Clocks] /\ mem[p][1] \in Clocks
  BY <1>1 DEF TInv, MemTyped
<1>4. \A p \in Proc : mem'[p][1].xtime = mem[p][1].xtime /\ mem'[p][1].ktau = mem[p][1].ktau
  <2>1. CASE Output
    <3>1. PICK now : mem' = [p \in Proc |->
                       [d \in Dom |-> IF d \in now
                                      THEN [mem[p][d] EXCEPT !.xtime = mem[p][1].xtime]
                                      ELSE mem[p][d]]]
      BY <2>1 DEF Output
    <3>2. ASSUME NEW p \in Proc
          PROVE  mem'[p][1] = [mem[p][1] EXCEPT !.xtime = mem[p][1].xtime] \/ mem'[p][1] = mem[p][1]
      BY <1>1, <3>1
    <3> QED BY <1>3, <3>2 DEF Clocks
  <2>2. CASE WriteOutput
    <3>1. PICK d : d = Least(outs)
      OBVIOUS
    <3>2. outs # {} /\ mem' = [mem EXCEPT ![Monitor][d].itap = Suffix(d, @)]
      BY <2>2, <3>1 DEF WriteOutput
    <3>3. d \in Dom
      <4>1. outs \in SUBSET Dom
        BY DEF TInv, SetsTyped
      <4> QED BY <3>1, <3>2, <4>1, LeastDomain
    <3>4. PICK c, n : c = mem[Monitor][d] /\ n = Suffix(d, c.itap)
      OBVIOUS
    <3>5. mem' = [mem EXCEPT ![Monitor] = [mem[Monitor] EXCEPT ![d] = [c EXCEPT !.itap = n]]]
      <4>1. mem' = [mem EXCEPT ![Monitor] = [mem[Monitor] EXCEPT ![d] =
                      [mem[Monitor][d] EXCEPT !.itap = Suffix(d, mem[Monitor][d].itap)]]]
        BY <3>2
      <4> QED BY <3>4, <4>1
    <3>6. c \in Clocks
      BY <1>1, <3>3, <3>4 DEF TInv, MemTyped
    <3>7. PICK e : e = [c EXCEPT !.itap = n]
      OBVIOUS
    <3>8. e.xtime = c.xtime /\ e.ktau = c.ktau
      BY <3>6, <3>7 DEF Clocks
    <3>9. \A p \in Proc : mem'[p][1] = IF p = Monitor /\ d = 1 THEN e ELSE mem[p][1]
      BY <1>1, <1>3, <3>3, <3>5, <3>7 DEF TInv, MemTyped
    <3> QED BY <3>4, <3>8, <3>9
  <2> QED BY <2>1, <2>2
<1>5. CoarseKept
  BY <1>2, <1>4 DEF CoarseKept
<1>6. Phase' = Phase /\ pc # "down"
  BY <1>2 DEF Phase
<1> QED BY <1>2, <1>5, <1>6, SameFiles, CoarseStays

LEMMA BdySave ==
  ASSUME TInv, BdyInv, NEW p \in Proc, Save(p)
  PROVE  BdyInv'
<1>1. /\ pc = "output" /\ UNCHANGED <<nml, job, bdy, mem, pc>>
      /\ files' = files \/ files' = SaveFile(p, Least(saving[p]), TRUE)
  BY DEF Save
<1>2. FilesGrow
  <2>1. ASSUME NEW f \in files', f \notin files
        PROVE  f.d = 1 => f.mem = mem[p][1]
    BY <1>1, <2>1 DEF SaveFile, Overwritten
  <2> QED BY <1>1, <2>1 DEF FilesGrow
<1>3. CoarseKept
  BY <1>1 DEF CoarseKept
<1> QED BY <1>2, <1>3, <1>1, CoarseStays DEF Phase

LEMMA BdyNextStep ==
  ASSUME TInv, BdyInv, NextStep
  PROVE  BdyInv'
<1>1. /\ pc = "output" /\ UNCHANGED <<nml, files>>
      /\ \/ GoDown
         \/ Clock < job.timax /\ pc' = "loop" /\ UNCHANGED <<job, mem, bdy>>
  BY DEF NextStep
<1>2. CASE GoDown
  BY <1>1, <1>2, SameFiles, GoneDown
<1>3. CASE Clock < job.timax /\ pc' = "loop" /\ UNCHANGED <<job, mem, bdy>>
  <2>1. Phase = "stepped" /\ Phase' = "loop"
    BY <1>1, <1>3 DEF Phase
  <2>2. /\ Clock' = Clock /\ KTau(1)' = KTau(1) /\ Step' = Step /\ job' = job
        /\ WasInForce' <=> WasInForce
    BY <1>1, <1>3 DEF Clock, KTau, XTime, Step, WasInForce
  <2>3. PhaseInv'
    BY <1>3, <2>1, <2>2 DEF BdyInv, PhaseInv
  <2>4. Clocked' /\ BdyKnown'
    BY <1>1, <1>3 DEF BdyInv, Clocked, BdyKnown, Begins, Step
  <2>5. nml'.bdyfirst <= 0
    BY <1>1 DEF BdyInv
  <2> QED BY <2>3, <2>4, <2>5 DEF BdyInv
<1> QED BY <1>1, <1>2, <1>3

LEMMA BdyNext ==
  ASSUME TInv, BdyInv, [Next]_vars
  PROVE  BdyInv'
<1>1. CASE Start
  BY <1>1, BdyStart
<1>2. CASE RestartAny
  BY <1>2, BdyRestart DEF RestartAny, Givens
<1>3. CASE ReadBoundary
  BY <1>3, BdyReadBoundary
<1>4. CASE CheckSkips \/ Deactivate \/ Activate
  BY <1>4, BdyChecks
<1>5. CASE SolveCoarse
  BY <1>5, BdySolve
<1>6. CASE SolveNest \/ NextTurn \/ FeedBack
  BY <1>6, BdyNests
<1>7. CASE Output \/ WriteOutput
  BY <1>7, BdyOutput
<1>8. CASE \E p \in Proc : Save(p)
  BY <1>8, BdySave
<1>9. CASE NextStep
  BY <1>9, BdyNextStep
<1>10. CASE Crash
  BY <1>10, CrashFacts, GoneDown DEF FilesGrow, Crash
<1>11. CASE Over \/ UNCHANGED vars
  <2>1. UNCHANGED vars
    BY <1>11 DEF Over
  <2>2. /\ Phase' = Phase /\ (WasInForce' <=> WasInForce) /\ (InForce' <=> InForce)
        /\ Clock' = Clock /\ KTau(1)' = KTau(1) /\ Step' = Step
    BY <2>1 DEF Phase, WasInForce, InForce, Clock, KTau, XTime, Step, vars, running
  <2> QED BY <2>1, <2>2 DEF BdyInv, Clocked, BdyKnown, Begins, PhaseInv, vars, running
<1> QED BY <1>1, <1>2, <1>3, <1>4, <1>5, <1>6, <1>7, <1>8, <1>9, <1>10, <1>11 DEF Next

\* SOLVE never runs with boundary tendencies of another period: for any
\* namelist, and after any crash and restart, the record in force is that of
\* the time of the step, but for the last step of a run, which reads none.
THEOREM BoundariesOfTheTime == Spec => []BoundaryInForce
<1>1. Init => TInv /\ BdyInv
  BY TypesInit, BdyInit
<1>2. TInv /\ BdyInv /\ [Next]_vars => (TInv /\ BdyInv)'
  BY TypesNext, BdyNext
<1>3. TInv /\ BdyInv => BoundaryInForce
  BY BdyInvInForce
<1> QED BY <1>1, <1>2, <1>3, PTL DEF Spec

-------------------------------------------------------------------------------
(* Coarse steps, minutes and the times of restart files *)

LEMMA DivBounds ==
  ASSUME NEW x \in Nat, NEW y \in Nat \ {0}
  PROVE  /\ x \div y \in Nat
         /\ (x \div y) * y <= x
         /\ x < (x \div y) * y + y
OBVIOUS

LEMMA NintBounds ==
  ASSUME NEW a \in Nat, NEW b \in Nat \ {0}
  PROVE  /\ Nint(a, b) \in Nat
         /\ 2 * (Nint(a, b) * b) <= 2 * a + b
         /\ 2 * a < 2 * (Nint(a, b) * b) + b
<1> DEFINE q == (2 * a + b) \div (2 * b)
<1>1. 2 * a + b \in Nat /\ 2 * b \in Nat \ {0}
  OBVIOUS
<1>2. q \in Nat /\ q * (2 * b) <= 2 * a + b /\ 2 * a + b < q * (2 * b) + 2 * b
  BY <1>1, DivBounds
<1>3. Nint(a, b) = q
  BY DEF Nint
<1> HIDE DEF q
<1>4. q * b \in Nat
  BY <1>2
<1> QED BY <1>2, <1>3, <1>4

\* Multiples of the same number are apart by it.
LEMMA StepsApart ==
  ASSUME NEW b \in Nat \ {0}, NEW i \in Nat, NEW j \in Nat
  PROVE  /\ i * b \in Nat /\ j * b \in Nat
         /\ i < j => i * b + b <= j * b
         /\ i <= j <=> i * b <= j * b
         /\ i * b < j * b => i < j
         /\ (i + 1) * b = i * b + b
<1>1. i * b \in Nat /\ j * b \in Nat /\ (i + 1) * b = i * b + b
  OBVIOUS
<1>2. i < j => i * b + b <= j * b
  <2> SUFFICES ASSUME i < j
               PROVE  i * b + b <= j * b
    OBVIOUS
  <2>1. PICK n \in Nat : j = i + 1 + n
    <3> QED OBVIOUS
  <2> QED BY <1>1, <2>1
<1>3. j < i => j * b + b <= i * b
  <2> SUFFICES ASSUME j < i
               PROVE  j * b + b <= i * b
    OBVIOUS
  <2>1. PICK n \in Nat : i = j + 1 + n
    OBVIOUS
  <2> QED BY <1>1, <2>1
<1> DEFINE x == i * b
           y == j * b
<1>4. x \in Nat /\ y \in Nat /\ (i < j => x + b <= y) /\ (j < i => y + b <= x) /\ (i = j => x = y)
  BY <1>1, <1>2, <1>3
<1> HIDE DEF x, y
<1> QED BY <1>1, <1>2, <1>4 DEF x, y

LEMMA NintOrder ==
  ASSUME NEW a \in Nat, NEW c \in Nat, NEW b \in Nat \ {0}
  PROVE  /\ a <= c => Nint(a, b) <= Nint(c, b)
         /\ a + b <= c => Nint(a, b) < Nint(c, b)
         /\ Nint(a, b) < Nint(c, b) => a < c
<1> DEFINE m == Nint(a, b)
           n == Nint(c, b)
<1>1. /\ m \in Nat /\ 2 * (m * b) <= 2 * a + b /\ 2 * a < 2 * (m * b) + b
      /\ n \in Nat /\ 2 * (n * b) <= 2 * c + b /\ 2 * c < 2 * (n * b) + b
  BY NintBounds
<1> HIDE DEF m, n
<1> DEFINE x == m * b
           y == n * b
<1>2. /\ x \in Nat /\ 2 * x <= 2 * a + b /\ 2 * a < 2 * x + b
      /\ y \in Nat /\ 2 * y <= 2 * c + b /\ 2 * c < 2 * y + b
      /\ (n < m => y + b <= x) /\ (m = n => x = y)
  BY <1>1, StepsApart
<1> HIDE DEF x, y
<1>3. a <= c => m <= n
  BY <1>1, <1>2
<1>4. a + b <= c => m < n
  BY <1>1, <1>2
<1>5. m < n => a < c
  <2>1. c <= a => n <= m
    <3> HIDE DEF m, n
    <3> QED BY <1>1, <1>2, StepsApart DEF x, y
  <2> QED BY <1>1, <2>1
<1> QED BY <1>3, <1>4, <1>5 DEF m, n

LEMMA UpwardsFacts ==
  ASSUME NEW t \in Nat, NEW b \in Nat \ {0}
  PROVE  /\ \E k \in Nat : Upwards(t, b) = k * b
         /\ Upwards(t, b) \in Nat /\ t <= Upwards(t, b) /\ Upwards(t, b) < t + b
         /\ \A j \in Nat : t <= j * b <=> Upwards(t, b) <= j * b
<1> DEFINE x == t + b - 1
           q == x \div b
<1>1. x \in Nat /\ x = t + b - 1
  OBVIOUS
<1> HIDE DEF x
<1>2. q \in Nat /\ q * b <= x /\ x < q * b + b
  BY <1>1, DivBounds
<1>3. Upwards(t, b) = q * b
  BY DEF Upwards, q, x
<1> HIDE DEF q
<1>4. ASSUME NEW j \in Nat
      PROVE  t <= j * b <=> q * b <= j * b
  <2> DEFINE y == j * b
             z == q * b
  <2>1. /\ y \in Nat /\ z \in Nat /\ (y < z => y + b <= z) /\ t <= z /\ z < t + b
    BY <1>1, <1>2, StepsApart
  <2> HIDE DEF y, z
  <2>2. t <= y <=> z <= y
    BY <2>1
  <2> QED BY <2>2 DEF y, z
<1> QED BY <1>2, <1>3, <1>1, <1>4

LEMMA DtThird ==
  ASSUME nml \in Namelists
  PROVE  \A d \in Nest : 3 * DtMin[d] = DtMin[Mother(d)]
<1>1. PICK dt \in [Dom -> 1..Step] :
        dt[1] = Step /\ \A d \in Nest : 3 * dt[d] = dt[Mother(d)]
  <2>1. NamelistOK(nml)
    BY RunAssumption
  <2> QED BY <2>1 DEF NamelistOK, Step, Mother
<1>2. DtMin[1] = dt[1]
  BY <1>1, DtMinFacts
<1> DEFINE T == {d \in Dom : DtMin[d] # dt[d]}
<1>3. T = {}
  <2> SUFFICES ASSUME T # {}
               PROVE  FALSE
    OBVIOUS
  <2>1. T \in SUBSET Nat
    BY DEF Dom
  <2>2. PICK d : d = Least(T)
    OBVIOUS
  <2>3. d \in T /\ \A e \in T : d <= e
    BY <2>1, <2>2, LeastOf
  <2>4. d \in Dom /\ DtMin[d] # dt[d]
    BY <2>3
  <2>5. d # 1
    BY <1>2, <2>4
  <2>6. Mother(d) \notin T
    <3>1. d \in Int
      BY <2>4 DEF Dom
    <3> QED BY <2>3, <2>4, <2>5, RunNumbers, <3>1
  <2>7. DtMin[d] = (3 * dt[d]) \div 3
    BY <1>1, <2>4, <2>5, RunNumbers, <2>6, DtMinFacts
  <2>8. dt[d] \in Nat
    BY RunNumbers, <2>4
  <2> HIDE DEF T
  <2>9. PICK x \in Nat : x = dt[d]
    BY <2>8
  <2> QED BY <2>4, <2>7, <2>9
<1> QED BY <1>1, <1>3, RunNumbers

\* What stays as long as the namelist does.
LEMMA NamelistKept ==
  ASSUME nml' = nml
  PROVE  /\ Step' = Step /\ DtMin' = DtMin
         /\ \A d : /\ Mother(d)' = Mother(d) /\ XStNes(d)' = XStNes(d) /\ XEnNes(d)' = XEnNes(d)
                   /\ ActTime(d)' = ActTime(d) /\ DeactTime(d)' = DeactTime(d)
<1>1. Step' = Step
  BY DEF Step
<1> QED BY <1>1 DEF ActTime, DeactTime, Mother, XStNes, XEnNes, DtMin, Step

\* An even nest begins with a coarse step; so do all mothers.
Even(d) == XStNes(d) % Step = 0

LEMMA EvenUpwards ==
  ASSUME NEW t \in Nat, NEW b \in Nat \ {0}, t % b = 0
  PROVE  Upwards(t, b) = t
<1>1. PICK q \in Nat : q = t \div b
  BY DivBounds
<1>2. t = q * b
  BY <1>1
<1>3. t <= q * b
  BY <1>2
<1>4. Upwards(t, b) <= q * b /\ t <= Upwards(t, b) /\ Upwards(t, b) \in Nat
  BY <1>3, UpwardsFacts
<1> QED BY <1>2, <1>4

LEMMA NestTimes ==
  ASSUME nml \in Namelists, NEW d \in Nest
  PROVE  /\ ActTime(d) \in Nat /\ DeactTime(d) \in Nat /\ XStNes(d) \in Nat /\ XEnNes(d) \in Nat
         /\ XStNes(d) <= ActTime(d) /\ ActTime(d) < XStNes(d) + Step
         /\ \E k \in Nat : ActTime(d) = k * Step
         /\ \E k \in Nat : DeactTime(d) = k * Step
         /\ \A j \in Nat : /\ XStNes(d) <= j * Step <=> ActTime(d) <= j * Step
                           /\ XEnNes(d) <= j * Step <=> DeactTime(d) <= j * Step
         /\ Even(d) => ActTime(d) = XStNes(d)
<1>1. NamelistOK(nml) /\ Step \in Nat \ {0} /\ d \in Dom /\ d # 1
  BY RunAssumption, RunNumbers DEF Nest
<1>2. XStNes(d) \in Nat /\ XEnNes(d) \in Nat
  BY <1>1 DEF NamelistOK, XStNes, XEnNes
<1> QED BY <1>2, EvenUpwards, <1>1, UpwardsFacts DEF ActTime, DeactTime, Even

\* A nest in a nest lives while its mother does, and she begins with a coarse
\* step.
LEMMA MotherTimes ==
  ASSUME nml \in Namelists, NEW d \in Nest, Mother(d) # 1
  PROVE  /\ Mother(d) \in Nest /\ XStNes(d) > 0 /\ Even(Mother(d))
         /\ XStNes(Mother(d)) <= XStNes(d) /\ XEnNes(d) <= XEnNes(Mother(d))
         /\ ActTime(Mother(d)) <= ActTime(d) /\ DeactTime(d) <= DeactTime(Mother(d))
<1>1. NamelistOK(nml) /\ Step \in Nat \ {0} /\ Mother(d) \in Dom /\ Mother(d) \in 1..(d - 1)
  BY RunAssumption, RunNumbers
<1>2. PICK m \in Nest : m = Mother(d)
  BY <1>1, RunNumbers DEF Nest
<1>3. m > 1
  BY <1>2, RunNumbers DEF Nest
<1>4. /\ XStNes(d) > 0 /\ XStNes(m) % Step = 0
      /\ XStNes(m) <= XStNes(d) /\ XEnNes(d) <= XEnNes(m)
  BY <1>1, <1>2, <1>3 DEF NamelistOK, XStNes, XEnNes, Mother, Step
<1>5. /\ \E k \in Nat : ActTime(d) = k * Step
      /\ \E k \in Nat : DeactTime(m) = k * Step
      /\ XStNes(d) <= ActTime(d) /\ XStNes(d) \in Nat /\ XEnNes(m) \in Nat /\ XEnNes(d) \in Nat
      /\ XStNes(m) \in Nat /\ ActTime(d) \in Nat /\ DeactTime(m) \in Nat
      /\ \A j \in Nat : XEnNes(m) <= j * Step <=> DeactTime(m) <= j * Step
      /\ \A j \in Nat : XEnNes(d) <= j * Step <=> DeactTime(d) <= j * Step
      /\ \A j \in Nat : XStNes(m) <= j * Step <=> ActTime(m) <= j * Step
  BY NestTimes
<1>6. ActTime(m) <= ActTime(d)
  <2>1. XStNes(m) <= ActTime(d)
    BY <1>4, <1>5
  <2> QED BY <1>5, <2>1
<1>7. DeactTime(d) <= DeactTime(m)
  <2>1. PICK k \in Nat : DeactTime(m) = k * Step
    BY <1>5
  <2>2. XEnNes(m) <= k * Step /\ k * Step \in Nat
    BY <1>5, <2>1
  <2>3. XEnNes(d) <= k * Step
    BY <1>4, <1>5, <2>2
  <2> QED BY <1>5, <2>1, <2>3
<1> QED BY <1>2, <1>4, <1>6, <1>7 DEF Even

-------------------------------------------------------------------------------
(* The times of restart files *)

LEMMA SaveNumbers ==
  ASSUME nml \in Namelists
  PROVE  /\ nml.savfrq \in Nat \ {0} /\ nml.savfrq >= Step + nml.minute
         /\ Step \in Nat \ {0} /\ nml.minute \in Nat \ {0} /\ nml.savfrq >= Step
         /\ nml.svlast \in BOOLEAN
<1>1. NamelistOK(nml)
  BY RunAssumption
<1> QED BY <1>1 DEF NamelistOK, Step

LEMMA SaveTime ==
  ASSUME nml \in Namelists, NEW t, SavesAt(nml, t)
  PROVE  /\ t \in Nat \ {0}
         /\ \E j \in Nat : t = j * Step
         /\ \E k \in Nat \ {0} : t = Nint(k * nml.savfrq, Step) * Step
<1> DEFINE F == nml.savfrq
<1>1. F \in Nat \ {0} /\ Step \in Nat \ {0} /\ F >= Step
  BY SaveNumbers
<1>2. PICK k \in 1..t : Nint(k * F, Step) * Step = t
  BY DEF SavesAt, Step
<1>3. k * F \in Nat \ {0}
  BY <1>1
<1>4. PICK j \in Nat : j = Nint(k * F, Step) /\ t = j * Step
  BY <1>2, <1>1, <1>3, NintBounds
<1>5. t \in Nat
  BY <1>1, <1>4
<1>6. t # 0
  BY <1>5
<1> QED BY <1>2, <1>4, <1>5, <1>6

\* Every multiple of SAVFRQ, rounded to a step, is such a time.
LEMMA SaveTimeOf ==
  ASSUME nml \in Namelists, NEW k \in Nat \ {0}, NEW j \in Nat, j = Nint(k * nml.savfrq, Step)
  PROVE  SavesAt(nml, j * Step) /\ j >= k
<1> DEFINE F == nml.savfrq
<1>1. F \in Nat \ {0} /\ Step \in Nat \ {0} /\ F >= Step
  BY SaveNumbers
<1>2. k * F \in Nat /\ k * Step \in Nat /\ k * Step <= k * F
  <2>1. PICK e \in Nat : F = Step + e
    <3>1. F - Step \in Nat /\ F = Step + (F - Step)
      BY <1>1
    <3> QED BY <3>1
  <2> QED BY <1>1, <2>1
<1>3. 2 * (k * F) < 2 * (j * Step) + Step
  BY <1>1, <1>2, NintBounds
<1>4. j >= k
  <2> DEFINE x == k * F
             y == j * Step
             z == k * Step
  <2> HIDE DEF x, y, z
  <2>1. ~ (j < k)
    BY <1>1, <1>2, <1>3, StepsApart
  <2> QED BY <2>1
<1>5. j * Step >= j /\ j * Step \in Nat
  <2>1. PICK s \in Nat : Step = s + 1
    BY <1>1
  <2>2. j * (s + 1) = j * s + j /\ j * s \in Nat
    BY ONLY <2>1, j \in Nat
  <2> QED BY <2>1, <2>2
<1> QED BY <1>4, <1>5 DEF SavesAt, Step

\* Two such times are further apart than SAVFRQ less a step, and have files of
\* different names.
LEMMA SavesApart ==
  ASSUME nml \in Namelists, NEW t, NEW u, SavesAt(nml, t), SavesAt(nml, u), t < u
  PROVE  /\ t + nml.savfrq - Step < u /\ t + nml.minute < u
         /\ Nint(t, nml.minute) < Nint(u, nml.minute)
<1> DEFINE F == nml.savfrq
           S == Step
<1>1. F \in Nat \ {0} /\ S \in Nat \ {0} /\ F >= S + nml.minute /\ nml.minute \in Nat \ {0}
  BY SaveNumbers
<1>2. t \in Nat /\ u \in Nat
  BY SaveTime
<1>3. PICK k \in Nat \ {0} : t = Nint(k * F, S) * S
  BY SaveTime
<1>4. PICK l \in Nat \ {0} : u = Nint(l * F, S) * S
  BY SaveTime
<1> HIDE DEF F, S
<1>5. Nint(k * F, S) < Nint(l * F, S)
  BY <1>1, <1>3, <1>4, NintBounds, StepsApart
<1>6. t + F - S < u
  <2> DEFINE x == k * F
             y == l * F
  <2>1. /\ x \in Nat /\ y \in Nat /\ 2 * t <= 2 * x + S /\ 2 * y < 2 * u + S /\ x + F <= y
    BY <1>1, <1>3, <1>4, NintBounds, <1>5, NintOrder, StepsApart
  <2> HIDE DEF x, y
  <2> QED BY <1>1, <1>2, <2>1
<1> QED BY <1>6, <1>1, <1>2, NintOrder DEF F, S

\* The next multiple that the steps have not reached.
LEMMA FirstAfterFacts ==
  ASSUME NEW frq \in Nat, NEW ktau \in Nat, Step \in Nat \ {0}, frq >= Step
  PROVE  \E k \in Nat \ {0} : FirstAfter(frq, ktau) = k * frq /\ Nint(k * frq, Step) > ktau
<1> DEFINE n == ktau * Step
           S == {k \in 1..n : Nint(k * frq, Step) <= ktau}
           c == Cardinality(S)
<1>1. n \in Nat
  OBVIOUS
<1> HIDE DEF n
<1>2. IsFiniteSet(1..n) /\ Cardinality(1..n) = n
  BY <1>1, FS_Interval
<1>3. S \subseteq 1..n
  OBVIOUS
<1>4. IsFiniteSet(S) /\ c \in Nat /\ c <= n
  BY <1>1, <1>2, <1>3, FS_Subset, FS_CardinalityType
<1>5. \A i \in Nat : i * frq \in Nat
  OBVIOUS
<1>6. ASSUME NEW i \in S, NEW j \in 1..i
      PROVE  j \in S
  <2>1. i \in Nat /\ j \in Nat /\ j <= i /\ j \in 1..n
    BY <1>1
  <2>2. Nint(j * frq, Step) <= Nint(i * frq, Step)
    BY <1>5, <2>1, StepsApart, NintOrder
  <2> QED BY <2>1, <2>2, <1>5, StepsApart, NintBounds
<1>7. c + 1 \notin S
  <2> SUFFICES ASSUME c + 1 \in S
               PROVE  FALSE
    OBVIOUS
  <2>1. Cardinality(1..(c + 1)) = c + 1
    <3> HIDE DEF c
    <3> QED BY <1>4, FS_Interval
  <2>2. Cardinality(1..(c + 1)) <= c
    BY <1>4, <1>6, FS_Subset
  <2> HIDE DEF c
  <2> QED BY <1>4, <2>1, <2>2
<1>8. Nint((c + 1) * frq, Step) > ktau
  <2>1. (c + 1) * frq \in Nat /\ Nint((c + 1) * frq, Step) \in Nat
    <3>1. c + 1 \in Nat
      BY <1>4
    <3> HIDE DEF c
    <3> QED BY <1>5, <3>1, NintBounds
  <2>2. CASE c + 1 \in 1..n
    BY <1>7, <2>1, <2>2
  <2>3. CASE c + 1 \notin 1..n
    <3>1. c = n
      <4> HIDE DEF c
      <4> QED BY <1>1, <1>4, <2>3
    <3>2. n >= ktau
      <4>1. PICK s \in Nat : Step = s + 1
        <5> QED OBVIOUS
      <4> QED BY <4>1 DEF n
    <3>3. (c + 1) * frq >= (ktau + 1) * Step /\ (ktau + 1) * Step \in Nat
      <4>1. PICK e \in Nat : frq = Step + e
        OBVIOUS
      <4>2. PICK q \in Nat : q = c + 1 /\ q >= ktau + 1
        <5> HIDE DEF c
        <5> QED BY <1>1, <3>1, <3>2
      <4> HIDE DEF c
      <4> QED BY <4>2, StepsApart, <4>1
    <3> DEFINE x == (c + 1) * frq
               y == (ktau + 1) * Step
    <3>4. x \in Nat /\ y \in Nat /\ y <= x
      BY <2>1, <3>3
    <3> HIDE DEF x
    <3>5. Nint(y, Step) >= ktau + 1 /\ Nint(y, Step) \in Nat
      <4>1. PICK m \in Nat : m = Nint(y, Step) /\ 2 * y < 2 * (m * Step) + Step
        BY <3>4, NintBounds
      <4>2. m < ktau + 1 => m * Step + Step <= y
        BY StepsApart
      <4> HIDE DEF y
      <4> QED BY <3>4, <4>1, <4>2, StepsApart
    <3>6. Nint(x, Step) \in Nat
      BY <3>4, NintBounds
    <3> HIDE DEF y
    <3> QED BY <3>4, NintOrder, <3>5, <3>6 DEF x
  <2> QED BY <2>2, <2>3
<1>9. PICK q \in Nat \ {0} : q = c + 1
  <2>1. c + 1 \in Nat \ {0}
    <3> HIDE DEF c
    <3> QED BY <1>4
  <2> QED BY <2>1
<1>10. frq * q = q * frq
  BY <1>9
<1> QED BY <1>8, <1>9, <1>10 DEF FirstAfter, n

-------------------------------------------------------------------------------
(* Nests and their steps *)

\* Whether nest d takes part in the coarse step of time t.
TakesPart(d, t) == ActTime(d) <= t /\ t < DeactTime(d)

\* The nests are those of the time, as far as CHKNST has been called for them:
\* before, a nest that takes part may only be missing at its first step, and
\* one that does not may be left at its end.
Settled(d, t) == d \in active <=> TakesPart(d, t)
Unsettled(d) ==
  /\ d \in active => ActTime(d) <= Clock /\ Clock <= DeactTime(d)
  /\ ActTime(d) < Clock /\ Clock < DeactTime(d) => d \in active
NestsOfTheTime ==
  \A d \in Nest :
    /\ pc = "loop" => Unsettled(d)
    /\ pc = "check" => IF d < check THEN Settled(d, Clock) ELSE Unsettled(d)
    /\ pc = "solve" => Settled(d, Clock)
    /\ pc \in {"nests", "end", "output"} => Settled(d, Clock - Step)

\* The mother of an active nest is active, or has just ended, as the nest will.
Reckons(d) == \A p \in Proc : Reckoned(p, d) = Clock
MotherThere(d) ==
  \/ Mother(d) \in active
  \/ /\ pc = "check" /\ Mother(d) < check /\ check <= d
     /\ Reckons(Mother(d)) /\ XTime(Mother(d)) = Clock
MothersThere == \A d \in active \ {1} : MotherThere(d)

\* The clock of a nest that is not active is not within its time.
ClocksStopped ==
  \A d \in Nest \ active : Even(d) => XTime(d) = 0 \/ XTime(d) >= XEnNes(d)

\* XTIME of a nest tells its steps, from when it should have begun or did.
ClockOf(d, m) ==
  \/ m.xtime = XStNes(d) + m.ktau * DtMin[d]
  \/ m.xtime = ActTime(d) + m.ktau * DtMin[d]
ClocksOfNests == \A p \in Proc : \A d \in active \ {1} : ClockOf(d, mem[p][d])

\* The calls in progress are for one nest in another.
CallsInOrder ==
  \A i \in 1..Len(frames) : \A j \in 1..Len(frames) :
    i < j => frames[i].mother < frames[j].mother

StepsCounted ==
  /\ \A p \in Proc : mem[p][1].ktau = KTau(1)
  /\ pc = "nests" => \A p \in Proc : \A d \in active \ {1} : Reckoned(p, d) = Expected(p, d)
  /\ pc # "nests" => \A d \in active \ {1} : Reckons(d)

AllGone == pc = "down" => active = {} /\ \A p \in Proc : \A d \in Dom : mem[p][d] = Zero

RunInv ==
  /\ AllGone /\ NestsOfTheTime /\ MothersThere /\ ClocksStopped /\ ClocksOfNests
  /\ CallsInOrder /\ StepsCounted

-------------------------------------------------------------------------------

LEMMA CoarseTime ==
  ASSUME TInv, BdyInv, StepsCounted
  PROVE  /\ nml \in Namelists /\ Step \in Nat \ {0} /\ KTau(1) \in Nat /\ Clock \in Nat
         /\ Clock = KTau(1) * Step
         /\ \A p \in Proc : /\ mem[p][1].xtime = Clock /\ mem[p][1].ktau = KTau(1)
                            /\ Reckoned(p, 1) = Clock
<1>1. nml \in Namelists /\ Step \in Nat \ {0} /\ Monitor \in Proc /\ 1 \in Dom
  BY RunNumbers DEF TInv, SetsTyped
<1>2. KTau(1) \in Nat /\ Clock \in Nat
  BY <1>1, TimeTyped
<1>3. \A p \in Proc : mem[p][1].xtime = mem[p][1].ktau * Step
  BY DEF BdyInv, Clocked
<1>4. \A p \in Proc : mem[p][1].ktau = KTau(1)
  BY DEF StepsCounted
<1>5. Clock = KTau(1) * Step
  BY <1>1, <1>3, <1>4 DEF Clock, XTime
<1>6. \A p \in Proc : mem[p][1].xtime = Clock
  BY <1>3, <1>4, <1>5
<1>7. ASSUME NEW p \in Proc
      PROVE  Reckoned(p, 1) = Clock
  <2>1. ActTime(1) = 0 /\ DtMin[1] = Step
    BY <1>1, DtMinFacts DEF ActTime
  <2>2. Reckoned(p, 1) = 0 + KTau(1) * Step
    BY <1>4, <2>1 DEF Reckoned
  <2> QED BY <1>2, <1>5, <2>2
<1> QED BY <1>1, <1>2, <1>4, <1>5, <1>6, <1>7

LEMMA NestTyped ==
  ASSUME TInv, NEW p \in Proc, NEW d \in Dom
  PROVE  /\ mem[p][d].ktau \in Nat /\ mem[p][d].xtime \in Nat /\ mem[p][d].itap \in Nat
         /\ DtMin[d] \in Nat /\ ActTime(d) \in Nat
         /\ Reckoned(p, d) = ActTime(d) + mem[p][d].ktau * DtMin[d] /\ Reckoned(p, d) \in Nat
<1>1. nml \in Namelists
  BY DEF TInv, SetsTyped
<1>2. mem[p][d] \in Clocks
  BY DEF TInv, MemTyped
<1>3. DtMin[d] \in Nat
  BY <1>1, DtMinFacts
<1>4. ActTime(d) \in Nat
  <2>1. CASE d = 1
    BY <2>1 DEF ActTime
  <2>2. CASE d # 1
    BY <1>1, <2>2, NestTimes, RunNumbers
  <2> QED BY <2>1, <2>2
<1> QED BY <1>2, <1>3, <1>4 DEF Clocks, Reckoned

\* The clock of an active nest that begins with a coarse step is right.
LEMMA EvenClock ==
  ASSUME TInv, ClocksOfNests, NEW p \in Proc, NEW d \in active \ {1}, Even(d)
  PROVE  mem[p][d].xtime = Reckoned(p, d)
<1> QED BY RunNumbers, NestTimes DEF ClockOf, Reckoned, ClocksOfNests, TInv, SetsTyped

\* Where the steps stay as they are, and the clocks.
TimesKept ==
  /\ nml' = nml
  /\ \A p \in Proc : \A d \in Dom :
       mem'[p][d].ktau = mem[p][d].ktau /\ mem'[p][d].xtime = mem[p][d].xtime

LEMMA TimesStay ==
  ASSUME nml \in Namelists, TimesKept
  PROVE  /\ \A d \in Dom : XTime(d)' = XTime(d) /\ KTau(d)' = KTau(d)
         /\ Clock' = Clock
         /\ \A d \in Dom : \A p \in Proc : Reckoned(p, d)' = Reckoned(p, d)
         /\ \A d \in Dom : Reckons(d)' <=> Reckons(d)
<1> QED BY RunNumbers, NamelistKept DEF Reckons, TimesKept, Reckoned, XTime, KTau, Clock

LEMMA RunMoves ==
  ASSUME TInv, RunInv, TimesKept, pc \notin {"nests", "down"}, pc' \notin {"nests", "down"},
         active' = active, frames' = frames, NestsOfTheTime', MothersThere'
  PROVE  RunInv'
<1>1. nml \in Namelists /\ nml' = nml /\ Nest \subseteq Dom /\ active \subseteq Dom /\ 1 \in Dom
  BY RunNumbers DEF TInv, SetsTyped, TimesKept
<1>2. DtMin' = DtMin /\ Step' = Step
      /\ \A d : XStNes(d)' = XStNes(d) /\ XEnNes(d)' = XEnNes(d) /\ ActTime(d)' = ActTime(d)
  BY <1>1, NamelistKept
<1>3. ClocksStopped'
  <2>1. \A d \in Nest : XTime(d)' = XTime(d)
    BY <1>1, TimesStay
  <2> QED BY <1>2, <2>1 DEF RunInv, ClocksStopped, Even
<1>4. ClocksOfNests'
  <2>1. \A p \in Proc : \A d \in active \ {1} :
          mem'[p][d].ktau = mem[p][d].ktau /\ mem'[p][d].xtime = mem[p][d].xtime
    BY <1>1 DEF TimesKept
  <2> QED BY <1>2, <2>1 DEF RunInv, ClocksOfNests, ClockOf
<1>5. CallsInOrder'
  BY DEF RunInv, CallsInOrder
<1>6. StepsCounted'
  <2>1. KTau(1)' = KTau(1) /\ \A d \in active : Reckons(d)' <=> Reckons(d)
    BY <1>1, TimesStay
  <2>2. \A p \in Proc : mem'[p][1].ktau = mem[p][1].ktau
    BY <1>1 DEF TimesKept
  <2> QED BY <2>1, <2>2 DEF RunInv, StepsCounted
<1>7. AllGone'
  BY DEF AllGone
<1> QED BY <1>3, <1>4, <1>5, <1>6, <1>7 DEF RunInv

-------------------------------------------------------------------------------
(* CHKNST *)

LEMMA CoarseMultiple ==
  ASSUME TInv, BdyInv, StepsCounted, NEW d \in Nest
  PROVE  /\ XStNes(d) <= Clock <=> ActTime(d) <= Clock
         /\ Clock < XEnNes(d) <=> Clock < DeactTime(d)
         /\ XEnNes(d) <= Clock <=> DeactTime(d) <= Clock
<1> QED BY CoarseTime, NestTimes

\* A nest begins and ends at its time, although CHKNST goes by its mother's
\* clock; a nest whose mother has just ended ends too.
LEMMA CheckedNest ==
  ASSUME TInv, BdyInv, RunInv, pc = "check", check \in Nest
  PROVE  /\ Ends(check) <=> check \in active /\ DeactTime(check) <= Clock
         /\ Begun(check) <=> check \notin active /\ TakesPart(check, Clock)
         /\ Begun(check) => ActTime(check) = Clock
         /\ check \in active /\ ~ Ends(check) => Mother(check) \in active
         /\ Begun(check) => Mother(check) \in active
         /\ Mother(check) \in active =>
              \A p \in Proc : mem[p][Mother(check)].xtime = Clock
<1> DEFINE d == check
           m == Mother(check)
<1>1. /\ nml \in Namelists /\ d \in Nest /\ d \in Dom /\ m \in Dom /\ m \in 1..(d - 1) /\ d # 1
      /\ Monitor \in Proc /\ Clock \in Nat /\ d \in Nat
  BY CoarseTime, RunNumbers DEF RunInv, TInv, SetsTyped, Nest, Dom
<1>2. Unsettled(d)
  BY <1>1 DEF RunInv, NestsOfTheTime
<1>3. /\ XStNes(d) <= Clock <=> ActTime(d) <= Clock
      /\ Clock < XEnNes(d) <=> Clock < DeactTime(d)
      /\ XEnNes(d) <= Clock <=> DeactTime(d) <= Clock
  BY <1>1, CoarseMultiple DEF RunInv
<1>4. /\ ActTime(d) \in Nat /\ DeactTime(d) \in Nat /\ XEnNes(d) \in Nat /\ XStNes(d) \in Nat
  BY <1>1, NestTimes
<1>5. m \in active => \A p \in Proc : mem[p][m].xtime = Clock
  <2> SUFFICES ASSUME m \in active, NEW p \in Proc
               PROVE  mem[p][m].xtime = Clock
    OBVIOUS
  <2>1. CASE m = 1
    BY <2>1, CoarseTime DEF RunInv
  <2>2. CASE m # 1
    <3>1. Even(m)
      BY <1>1, <2>2, MotherTimes
    <3>2. mem[p][m].xtime = Reckoned(p, m)
      BY <2>2, <3>1, EvenClock DEF RunInv
    <3>3. Reckons(m)
      BY <2>2 DEF RunInv, StepsCounted
    <3> QED BY <3>2, <3>3 DEF Reckons
  <2> QED BY <2>1, <2>2
<1>6. CASE XTime(m) = Clock /\ m \in active
  BY <1>1, <1>2, <1>3, <1>4, <1>5, <1>6 DEF Ends, Begun, TakesPart, Unsettled
<1>7. CASE m \notin active
  <2>1. m \in Nest /\ m # 1
    <3>1. m # 1
      BY <1>7 DEF TInv, SetsTyped
    <3> QED BY <1>1, <3>1, MotherTimes
  <2>2. /\ Even(m) /\ XStNes(d) > 0 /\ XEnNes(d) <= XEnNes(m)
        /\ ActTime(m) <= ActTime(d) /\ DeactTime(d) <= DeactTime(m)
    BY <1>1, <2>1, MotherTimes
  <2>3. /\ ActTime(m) \in Nat /\ DeactTime(m) \in Nat /\ XEnNes(m) \in Nat
    BY <1>1, <2>1, NestTimes
  <2>4. ~ TakesPart(m, Clock)
    <3>1. m < check
      BY <1>1
    <3> QED BY <1>7, <2>1, <3>1 DEF RunInv, NestsOfTheTime, Settled
  <2>5. ~ TakesPart(d, Clock)
    BY <1>1, <1>4, <2>2, <2>3, <2>4 DEF TakesPart
  <2>6. XTime(m) = 0 \/ XTime(m) >= XEnNes(m)
    BY <1>7, <2>1, <2>2 DEF RunInv, ClocksStopped
  <2>7. XTime(m) \in Nat
    BY <1>1, TimeTyped
  <2>8. ~ Begun(d)
    <3>1. XTime(m) = 0 => ~ (XStNes(d) <= XTime(m))
      BY <1>4, <2>2
    <3>2. XTime(m) >= XEnNes(m) => ~ (XTime(m) < XEnNes(d))
      BY <1>4, <2>2, <2>3, <2>7
    <3> QED BY <2>6, <3>1, <3>2 DEF Begun
  <2>9. CASE d \in active
    <3>1. XTime(m) = Clock
      BY <1>1, <1>7, <2>9 DEF RunInv, MothersThere, MotherThere
    <3>2. ActTime(d) <= Clock
      BY <1>2, <2>9 DEF Unsettled
    <3>3. DeactTime(d) <= Clock
      BY <1>1, <1>4, <2>5, <3>2 DEF TakesPart
    <3>4. Ends(d)
      BY <1>3, <2>9, <3>1, <3>3 DEF Ends
    <3> QED BY <1>7, <2>8, <2>9, <3>3, <3>4
  <2>10. CASE d \notin active
    <3>1. ~ Ends(d)
      BY <2>10 DEF Ends
    <3> QED BY <1>7, <2>5, <2>8, <2>10, <3>1
  <2> QED BY <2>9, <2>10
<1> QED BY <1>1, <1>5, <1>6, <1>7 DEF XTime

\* CHKNST for one nest is done, and the nest is settled.
LEMMA NextNest ==
  ASSUME TInv, BdyInv, RunInv, pc = "check", NextCheck, TimesKept \/ Clock' = Clock,
         nml' = nml, back' = back,
         \A e \in Nest : e # check => (e \in active' <=> e \in active),
         check \in Nest => (check \in active' <=> TakesPart(check, Clock))
  PROVE  NestsOfTheTime'
<1>1. /\ nml \in Namelists /\ Clock \in Nat /\ MaxNes \in Nat \ {0} /\ check \in 2..(MaxNes + 1)
      /\ back \in {"loop", "solve"} /\ Nest = 2..MaxNes
  BY CoarseTime, RunNumbers DEF RunInv, TInv, SetsTyped, Nest
<1>2. Clock' = Clock
  BY <1>1, TimesStay
<1>3. \A e : /\ ActTime(e)' = ActTime(e) /\ DeactTime(e)' = DeactTime(e)
  BY NamelistKept
<1>4. \A e \in Nest : e <= check => (e \in active' <=> TakesPart(e, Clock))
  <2> SUFFICES ASSUME NEW e \in Nest, e <= check
               PROVE  e \in active' <=> TakesPart(e, Clock)
    OBVIOUS
  <2>1. CASE e = check
    BY <2>1
  <2>2. CASE e # check
    <3>1. e < check
      BY <1>1, <2>2
    <3> QED BY <2>2, <3>1 DEF RunInv, NestsOfTheTime, Settled
  <2> QED BY <2>1, <2>2
<1>5. CASE check < MaxNes
  <2>1. check' = check + 1 /\ pc' = "check"
    BY <1>5 DEF NextCheck
  <2>2. ASSUME NEW e \in Nest, e < check + 1
        PROVE  Settled(e, Clock)'
    <3>1. e <= check
      BY <1>1, <2>2
    <3> QED BY <1>2, <1>3, <1>4, <3>1 DEF Settled, TakesPart
  <2>3. ASSUME NEW e \in Nest, ~ (e < check + 1)
        PROVE  Unsettled(e)'
    <3>1. e # check /\ ~ (e < check)
      BY <1>1, <2>3
    <3>2. Unsettled(e)
      BY <3>1 DEF RunInv, NestsOfTheTime
    <3> QED BY <1>2, <1>3, <3>1, <3>2 DEF Unsettled
  <2> QED BY <2>1, <2>2, <2>3 DEF NestsOfTheTime
<1>6. CASE ~ (check < MaxNes)
  <2>1. pc' \in {"loop", "solve"}
    BY <1>1, <1>6 DEF NextCheck
  <2>2. ASSUME NEW e \in Nest
        PROVE  Settled(e, Clock)' /\ Unsettled(e)'
    <3>1. e <= check
      BY <1>1, <1>6
    <3>2. e \in active' <=> TakesPart(e, Clock)
      BY <1>4, <3>1
    <3>3. ActTime(e) \in Nat /\ DeactTime(e) \in Nat
      BY <1>1, NestTimes
    <3> QED BY <1>1, <1>2, <1>3, <3>2, <3>3 DEF Settled, Unsettled, TakesPart
  <2> QED BY <2>1, <2>2 DEF NestsOfTheTime
<1> QED BY <1>5, <1>6

\* The mothers of the nests yet to be checked.
LEMMA MotherStays ==
  ASSUME TInv, BdyInv, RunInv, pc = "check", NextCheck, nml' = nml, Clock' = Clock,
         NEW e \in Nest, e \in active, check \in Nest => e # check,
         \A p \in Proc : Mother(e) # check =>
           /\ mem'[p][Mother(e)].ktau = mem[p][Mother(e)].ktau
           /\ mem'[p][Mother(e)].xtime = mem[p][Mother(e)].xtime,
         Mother(e) \in active => Mother(e) \in active'
  PROVE  MotherThere(e)'
<1>1. /\ nml \in Namelists /\ Monitor \in Proc /\ MaxNes \in Nat /\ check \in 2..(MaxNes + 1)
      /\ Mother(e) \in 1..(e - 1) /\ e \in 2..MaxNes /\ e # 1 /\ Mother(e) \in Nat
      /\ Nest = 2..MaxNes
  BY RunNumbers DEF TInv, SetsTyped, Nest
<1>2. /\ Mother(e)' = Mother(e) /\ \A d : ActTime(d)' = ActTime(d)
      /\ DtMin' = DtMin
  BY NamelistKept
<1>3. MotherThere(e)
  BY <1>1 DEF RunInv, MothersThere
<1>4. CASE Mother(e) \in active
  BY <1>2, <1>4 DEF MotherThere
<1>5. CASE Mother(e) \notin active
  <2>1. /\ Mother(e) < check /\ check <= e /\ Reckons(Mother(e)) /\ XTime(Mother(e)) = Clock
    BY <1>3, <1>5 DEF MotherThere
  <2>2. check < e /\ check < MaxNes /\ Mother(e) # check
    BY <1>1, <2>1
  <2>3. check' = check + 1 /\ pc' = "check"
    BY <2>2 DEF NextCheck
  <2>4. XTime(Mother(e))' = Clock'
    BY <1>1, <1>2, <2>1, <2>2 DEF XTime
  <2>5. Reckons(Mother(e))'
    BY <1>2, <2>1, <2>2 DEF Reckons, Reckoned
  <2>6. Mother(e) < check + 1 /\ check + 1 <= e
    BY <1>1, <2>1, <2>2
  <2> QED BY <1>2, <2>3, <2>4, <2>5, <2>6 DEF MotherThere
<1> QED BY <1>4, <1>5

\* Counting output files leaves the clocks.
LEMMA CountKeeps ==
  ASSUME TInv, nml' = nml, NEW d \in Dom,
         mem' = [mem EXCEPT ![Monitor][d].itap = Suffix(d, @)]
  PROVE  TimesKept
<1>1. PICK m, c : m = mem[Monitor] /\ c = m[d]
  OBVIOUS
<1>2. PICK e : e = [c EXCEPT !.itap = Suffix(d, c.itap)]
  OBVIOUS
<1> QED BY RunNumbers, <1>1, <1>2 DEF TimesKept, TInv, MemTyped, Clocks, SetsTyped

\* Nothing is left of a program that is gone.
LEMMA RunDown ==
  ASSUME nml \in Namelists, nml' = nml, pc' = "down", active' = {}, frames' = <<>>,
         mem' = [p \in Proc |-> [d \in Dom |-> Zero]]
  PROVE  RunInv'
<1>1. Monitor \in Proc /\ 1 \in Dom /\ Nest \subseteq Dom
  BY RunNumbers
<1>2. AllGone' /\ NestsOfTheTime' /\ MothersThere' /\ ClocksOfNests' /\ CallsInOrder'
  BY <1>1 DEF AllGone, NestsOfTheTime, MothersThere, ClocksOfNests, CallsInOrder
<1>3. ClocksStopped'
  BY <1>1 DEF ClocksStopped, XTime, Zero
<1>4. StepsCounted'
  BY <1>1 DEF StepsCounted, KTau
<1> QED BY <1>2, <1>3, <1>4 DEF RunInv

LEMMA RunInit == Init => RunInv
<1> SUFFICES ASSUME Init
             PROVE  RunInv
  OBVIOUS
<1>1. nml \in Namelists /\ Monitor \in Proc /\ 1 \in Dom /\ Nest \subseteq Dom
  BY RunNumbers DEF Init
<1>2. pc = "down" /\ active = {} /\ frames = <<>> /\ mem = [p \in Proc |-> [d \in Dom |-> Zero]]
  BY DEF Init
<1>3. AllGone /\ NestsOfTheTime /\ MothersThere /\ ClocksOfNests /\ CallsInOrder
  BY <1>1, <1>2 DEF AllGone, NestsOfTheTime, MothersThere, ClocksOfNests, CallsInOrder
<1>4. ClocksStopped
  BY <1>1, <1>2 DEF ClocksStopped, XTime, Zero
<1>5. StepsCounted
  BY <1>1, <1>2 DEF StepsCounted, KTau
<1> QED BY <1>3, <1>4, <1>5 DEF RunInv

LEMMA RunStart ==
  ASSUME TInv, BdyInv, RunInv, Start
  PROVE  RunInv'
<1>1. nml \in Namelists /\ Monitor \in Proc /\ 1 \in Dom /\ Nest \subseteq Dom /\ 1 \notin Nest
  BY RunNumbers DEF TInv, SetsTyped
<1>2. /\ pc = "down" /\ active' = {1} /\ pc' = "check" /\ check' = 2 /\ frames' = frames
      /\ mem' = mem /\ nml' = nml
  BY DEF Start, ChecksNests
<1>3. \A p \in Proc : \A d \in Dom : mem[p][d] = Zero
  BY <1>2 DEF RunInv, AllGone
<1>4. Clock' = 0
  BY <1>1, <1>2, <1>3 DEF Clock, XTime, Zero
<1>5. NestsOfTheTime'
  <2> SUFFICES ASSUME NEW d \in Nest
               PROVE  ~ (d < 2) /\ Unsettled(d)'
    BY <1>2 DEF NestsOfTheTime
  <2>1. ~ (d < 2)
    BY <1>1, RunNumbers DEF Nest
  <2>2. ActTime(d) \in Nat /\ ActTime(d)' = ActTime(d)
    BY <1>1, <1>2, NestTimes, NamelistKept
  <2>3. d \notin active'
    BY <1>1, <1>2
  <2> QED BY <1>4, <2>1, <2>2, <2>3 DEF Unsettled
<1>6. MothersThere' /\ ClocksOfNests' /\ AllGone'
  BY <1>2 DEF MothersThere, ClocksOfNests, AllGone
<1>7. ClocksStopped'
  BY <1>1, <1>2, <1>3 DEF ClocksStopped, XTime, Zero
<1>8. StepsCounted'
  BY <1>1, <1>2, <1>3 DEF StepsCounted, KTau
<1>9. CallsInOrder'
  BY <1>2 DEF RunInv, CallsInOrder
<1> QED BY <1>5, <1>6, <1>7, <1>8, <1>9 DEF RunInv

\* Outside CHKNST, mothers of active nests are active.
LEMMA MothersActive ==
  ASSUME MothersThere, pc # "check", NEW d \in active \ {1}
  PROVE  Mother(d) \in active
BY DEF MothersThere, MotherThere

LEMMA MothersActiveNext ==
  ASSUME nml' = nml, active' = active, MothersThere, pc # "check"
  PROVE  MothersThere'
<1> QED BY NamelistKept, MothersActive DEF MothersThere, MotherThere

LEMMA RunReadBoundary ==
  ASSUME TInv, BdyInv, RunInv, ReadBoundary
  PROVE  RunInv'
<1>1. /\ nml \in Namelists /\ pc = "loop" /\ nml' = nml /\ Nest \subseteq Dom
      /\ \A d \in Nest : ~ (d < 2)
  BY RunNumbers DEF ReadBoundary, TInv, SetsTyped, Nest
<1>2. CASE GoDown
  BY <1>1, <1>2, RunDown DEF GoDown
<1>3. CASE ~ GoDown
  <2>1. pc' = "check" /\ check' = 2 /\ mem' = mem /\ active' = active /\ frames' = frames
    BY <1>3 DEF ReadBoundary, ChecksNests
  <2>2. TimesKept
    BY <1>1, <2>1 DEF TimesKept
  <2>3. NestsOfTheTime'
    <3>1. \A d \in Nest : Unsettled(d)
      BY <1>1 DEF RunInv, NestsOfTheTime
    <3>2. Clock' = Clock /\ \A d : ActTime(d)' = ActTime(d) /\ DeactTime(d)' = DeactTime(d)
      BY <1>1, <2>2, TimesStay, NamelistKept
    <3>3. \A d \in Nest : Unsettled(d)'
      BY <2>1, <3>1, <3>2 DEF Unsettled
    <3> QED BY <1>1, <2>1, <3>3 DEF NestsOfTheTime
  <2>4. MothersThere'
    BY <1>1, <2>1, MothersActiveNext DEF RunInv
  <2> QED BY <1>1, <2>1, <2>2, <2>3, <2>4, RunMoves
<1> QED BY <1>2, <1>3

LEMMA RunCheckSkips ==
  ASSUME TInv, BdyInv, RunInv, CheckSkips
  PROVE  RunInv'
<1>1. /\ nml \in Namelists /\ pc = "check" /\ NextCheck /\ pc' \in {"check", "loop", "solve"}
      /\ UNCHANGED <<nml, mem, active, frames, back>>
      /\ check \in Nest => ~ Ends(check) /\ ~ Begun(check)
      /\ active \subseteq Dom /\ Nest = Dom \ {1}
  BY RunNumbers DEF CheckSkips, TInv, SetsTyped, NextCheck
<1>2. TimesKept /\ Clock' = Clock
  BY <1>1, TimesStay DEF TimesKept
<1>3. check \in Nest => /\ check \in active' <=> TakesPart(check, Clock)
                        /\ check \in active => Mother(check) \in active
  <2> SUFFICES ASSUME check \in Nest
               PROVE  /\ check \in active <=> TakesPart(check, Clock)
                      /\ check \in active => Mother(check) \in active
    BY <1>1
  <2>1. /\ check \in active => ~ (DeactTime(check) <= Clock)
        /\ check \notin active => ~ TakesPart(check, Clock)
        /\ check \in active => Mother(check) \in active
    BY <1>1, CheckedNest
  <2>2. Unsettled(check)
    <3>1. check \in Nat
      BY RunNumbers DEF Nest
    <3>2. ~ (check < check)
      BY <3>1
    <3> QED BY <1>1, <3>2 DEF RunInv, NestsOfTheTime
  <2>3. Clock \in Nat /\ DeactTime(check) \in Nat
    BY <1>1, CoarseTime, NestTimes DEF RunInv
  <2> QED BY <2>1, <2>2, <2>3 DEF Unsettled, TakesPart
<1>4. NestsOfTheTime'
  BY <1>1, <1>2, <1>3, NextNest
<1>5. MothersThere'
  <2> SUFFICES ASSUME NEW e \in active \ {1}
               PROVE  MotherThere(e)'
    BY <1>1 DEF MothersThere
  <2>1. CASE check \in Nest /\ e = check
    <3>1. Mother(e)' = Mother(e)
      BY <1>1, NamelistKept
    <3> QED BY <1>1, <1>3, <2>1, <3>1 DEF MotherThere
  <2>2. CASE ~ (check \in Nest /\ e = check)
    <3>1. e \in Nest
      BY <1>1
    <3> QED BY <1>1, <1>2, <2>2, <3>1, MotherStays
  <2> QED BY <2>1, <2>2
<1> QED BY <1>1, <1>2, <1>4, <1>5, RunMoves

LEMMA RunDeactivate ==
  ASSUME TInv, BdyInv, RunInv, Deactivate
  PROVE  RunInv'
<1>1. PICK d : d = check
  OBVIOUS
<1>2. /\ nml \in Namelists /\ Monitor \in Proc /\ pc = "check" /\ NextCheck
      /\ pc' \in {"check", "loop", "solve"} /\ d \in Nest /\ Ends(d)
      /\ active' = active \ {d} /\ UNCHANGED <<nml, frames, back>>
      /\ mem' = mem \/ mem' = [mem EXCEPT ![Monitor][d].itap = Suffix(d, @)]
      /\ active \subseteq Dom /\ Nest = Dom \ {1} /\ d \in Dom /\ d # 1
      /\ MaxNes \in Nat /\ Nest = 2..MaxNes
  BY <1>1, RunNumbers DEF Deactivate, TInv, SetsTyped, NextCheck, Nest
<1>3. TimesKept
  <2>1. mem' = mem => TimesKept
    BY <1>2 DEF TimesKept
  <2> QED BY <1>2, <2>1, CountKeeps
<1>4. /\ Clock' = Clock /\ \A e \in Dom : XTime(e)' = XTime(e)
      /\ \A e \in Dom : Reckons(e)' <=> Reckons(e)
      /\ KTau(1)' = KTau(1)
  BY <1>2, <1>3, TimesStay, RunNumbers
<1>5. d \in active /\ DeactTime(d) <= Clock
  BY <1>1, <1>2, CheckedNest
<1>6. Clock \in Nat /\ DeactTime(d) \in Nat /\ XEnNes(d) \in Nat
  BY <1>2, CoarseTime, NestTimes DEF RunInv
<1>7. XEnNes(d) <= Clock
  BY <1>2, <1>5, CoarseMultiple DEF RunInv
<1>8. Even(d) => XTime(d) = Clock
  <2> SUFFICES ASSUME Even(d)
               PROVE  XTime(d) = Clock
    OBVIOUS
  <2>1. mem[Monitor][d].xtime = Reckoned(Monitor, d)
    BY <1>2, <1>5, EvenClock DEF RunInv
  <2>2. Reckons(d)
    BY <1>2, <1>5 DEF RunInv, StepsCounted
  <2> QED BY <1>2, <2>1, <2>2 DEF Reckons, XTime
<1>9. NestsOfTheTime'
  <2>1. d \notin active' /\ ~ TakesPart(d, Clock)
    BY <1>2, <1>5, <1>6 DEF TakesPart
  <2> QED BY <1>1, <1>2, <1>3, <2>1, NextNest
<1>10. MothersThere'
  <2> SUFFICES ASSUME NEW e \in active, e # 1, e # d
               PROVE  MotherThere(e)'
    BY <1>2 DEF MothersThere
  <2>1. e \in Nest /\ Mother(e) \in Dom /\ Mother(e)' = Mother(e) /\ Mother(e) \in 1..(e - 1)
    BY <1>2, RunNumbers, NamelistKept
  <2>2. CASE Mother(e) = d
    <3>1. d < e /\ d + 1 <= e /\ d < MaxNes /\ d < d + 1
      BY <1>2, <2>1, <2>2
    <3>2. check' = d + 1 /\ pc' = "check"
      BY <1>1, <1>2, <3>1 DEF NextCheck
    <3>3. Even(d)
      BY <1>2, <2>1, <2>2, MotherTimes
    <3>4. Reckons(d)' /\ XTime(d)' = Clock'
      BY <1>2, <1>4, <1>5, <1>8, <3>3 DEF RunInv, StepsCounted
    <3> QED BY <2>1, <2>2, <3>1, <3>2, <3>4 DEF MotherThere
  <2>3. CASE Mother(e) # d
    <3>1. Mother(e) \in active => Mother(e) \in active'
      BY <1>2, <2>3
    <3>2. \A p \in Proc : /\ mem'[p][Mother(e)].ktau = mem[p][Mother(e)].ktau
                          /\ mem'[p][Mother(e)].xtime = mem[p][Mother(e)].xtime
      BY <1>3, <2>1 DEF TimesKept
    <3> QED BY <1>1, <1>2, <1>4, <2>1, <3>1, <3>2, MotherStays
  <2> QED BY <2>2, <2>3
<1>11. /\ DtMin' = DtMin /\ Step' = Step
      /\ \A e : XStNes(e)' = XStNes(e) /\ XEnNes(e)' = XEnNes(e) /\ ActTime(e)' = ActTime(e)
  BY <1>2, NamelistKept
<1>12. ClocksStopped'
  <2> SUFFICES ASSUME NEW e \in Nest, e \notin active', Even(e)
               PROVE  XTime(e) = 0 \/ XTime(e) >= XEnNes(e)
    BY <1>2, <1>4, <1>11 DEF ClocksStopped, Even
  <2>1. CASE e = d
    BY <1>6, <1>7, <1>8, <2>1
  <2>2. CASE e # d
    BY <1>2, <2>2 DEF RunInv, ClocksStopped
  <2> QED BY <2>1, <2>2
<1>13. ClocksOfNests'
  <2>1. \A p \in Proc : \A e \in active \ {1} :
          mem'[p][e].ktau = mem[p][e].ktau /\ mem'[p][e].xtime = mem[p][e].xtime
    BY <1>2, <1>3 DEF TimesKept
  <2> QED BY <1>2, <1>11, <2>1 DEF RunInv, ClocksOfNests, ClockOf
<1>14. CallsInOrder' /\ AllGone'
  BY <1>2 DEF RunInv, CallsInOrder, AllGone
<1>15. StepsCounted'
  <2>1. \A p \in Proc : mem'[p][1].ktau = mem[p][1].ktau
    BY <1>2, <1>3, RunNumbers DEF TimesKept
  <2>2. \A e \in active \ {1} : Reckons(e)'
    BY <1>2, <1>4 DEF RunInv, StepsCounted
  <2> QED BY <1>2, <1>4, <2>1, <2>2 DEF RunInv, StepsCounted
<1> QED BY <1>9, <1>10, <1>12, <1>13, <1>14, <1>15 DEF RunInv

LEMMA RunActivate ==
  ASSUME TInv, BdyInv, RunInv, Activate
  PROVE  RunInv'
<1>1. PICK d, m : d = check /\ m = Mother(check)
  OBVIOUS
<1>2. /\ nml \in Namelists /\ Monitor \in Proc /\ pc = "check" /\ NextCheck
      /\ pc' \in {"check", "loop", "solve"} /\ d \in Nest /\ Begun(d)
      /\ active' = active \union {d} /\ UNCHANGED <<nml, frames, back>>
      /\ active \subseteq Dom /\ Nest = Dom \ {1} /\ d \in Dom /\ d # 1 /\ m \in Dom
      /\ m \in 1..(d - 1) /\ m # d /\ 1 \in Dom
  BY <1>1, RunNumbers DEF Activate, TInv, SetsTyped, NextCheck, Nest
<1>3. /\ d \notin active /\ TakesPart(d, Clock) /\ ActTime(d) = Clock /\ m \in active
      /\ \A p \in Proc : mem[p][m].xtime = Clock
  BY <1>1, <1>2, CheckedNest
<1>4. /\ \A p \in Proc : mem'[p][d].ktau = 0 /\ mem'[p][d].xtime = Clock
      /\ \A p \in Proc : \A e \in Dom : e # d => mem'[p][e] = mem[p][e]
  <2>1. PICK n : n = [p \in Proc |-> [ktau |-> 0, xtime |-> mem[p][m].xtime,
                        itap |-> IF p = Monitor THEN Suffix(d, mem[Monitor][m].itap)
                                 ELSE mem[p][m].itap]]
    OBVIOUS
  <2>2. mem' = [p \in Proc |-> [mem[p] EXCEPT ![d] = n[p]]]
    BY <1>1, <2>1 DEF Activate
  <2>3. \A p \in Proc : n[p].ktau = 0 /\ n[p].xtime = mem[p][m].xtime
    BY <2>1
  <2>4. \A p \in Proc : mem[p] \in [Dom -> Clocks]
    BY DEF TInv, MemTyped
  <2> QED BY <1>2, <1>3, <2>2, <2>3, <2>4
<1>5. /\ DtMin' = DtMin /\ Step' = Step
      /\ \A e : /\ XStNes(e)' = XStNes(e) /\ XEnNes(e)' = XEnNes(e) /\ ActTime(e)' = ActTime(e)
                /\ Mother(e)' = Mother(e)
  BY <1>2, NamelistKept
<1>6. Clock' = Clock /\ KTau(1)' = KTau(1) /\ \A e \in Dom : e # d => XTime(e)' = XTime(e)
  BY <1>2, <1>4 DEF Clock, XTime, KTau
<1>7. \A e \in Dom : e # d => (Reckons(e)' <=> Reckons(e))
  BY <1>4, <1>5, <1>6 DEF Reckons, Reckoned
<1>8. NestsOfTheTime'
  BY <1>1, <1>2, <1>3, <1>6, NextNest
<1>9. MothersThere'
  <2> SUFFICES ASSUME NEW e \in active', e # 1
               PROVE  MotherThere(e)'
    BY DEF MothersThere
  <2>1. CASE e = d
    BY <1>1, <1>2, <1>3, <1>5, <2>1 DEF MotherThere
  <2>2. CASE e # d
    <3>1. e \in active /\ e \in Nest /\ Mother(e) \in Dom
      BY <1>2, <2>2, RunNumbers
    <3>2. \A p \in Proc : Mother(e) # check =>
            /\ mem'[p][Mother(e)].ktau = mem[p][Mother(e)].ktau
            /\ mem'[p][Mother(e)].xtime = mem[p][Mother(e)].xtime
      BY <1>1, <1>4, <3>1
    <3>3. (check \in Nest => e # check) /\ (Mother(e) \in active => Mother(e) \in active')
      BY <1>1, <1>2, <2>2
    <3> QED BY <1>2, <1>6, <3>1, <3>2, <3>3, MotherStays
  <2> QED BY <2>1, <2>2
<1>10. ClocksStopped'
  <2> SUFFICES ASSUME NEW e \in Nest, e \notin active', Even(e)
               PROVE  XTime(e)' = 0 \/ XTime(e)' >= XEnNes(e)
    BY <1>2, <1>5 DEF ClocksStopped, Even
  <2>1. e # d /\ e \notin active /\ XTime(e)' = XTime(e)
    BY <1>2, <1>6
  <2> QED BY <2>1 DEF RunInv, ClocksStopped
<1>11. ClocksOfNests'
  <2> SUFFICES ASSUME NEW p \in Proc, NEW e \in active', e # 1
               PROVE  ClockOf(e, mem[p][e])'
    BY DEF ClocksOfNests
  <2>1. CASE e = d
    <3>1. DtMin[d] \in Nat /\ Clock \in Nat /\ ActTime(d) = Clock
      BY <1>2, <1>3, DtMinFacts, CoarseTime DEF RunInv
    <3>2. mem'[p][d].xtime = ActTime(d) + mem'[p][d].ktau * DtMin[d]
      BY <1>1, <1>4, <3>1
    <3> QED BY <1>5, <2>1, <3>2 DEF ClockOf
  <2>2. CASE e # d
    <3>1. e \in active /\ mem'[p][e] = mem[p][e]
      BY <1>2, <1>4, <2>2
    <3>2. ClockOf(e, mem[p][e])
      BY <2>2, <3>1 DEF RunInv, ClocksOfNests
    <3> QED BY <1>5, <3>1, <3>2 DEF ClockOf
  <2> QED BY <2>1, <2>2
<1>12. CallsInOrder' /\ AllGone'
  BY <1>2 DEF RunInv, CallsInOrder, AllGone
<1>13. StepsCounted'
  <2>1. \A p \in Proc : mem'[p][1] = mem[p][1]
    BY <1>2, <1>4
  <2>2. Reckons(d)'
    <3>1. DtMin[d] \in Nat /\ Clock \in Nat
      BY <1>2, DtMinFacts, CoarseTime DEF RunInv
    <3>2. \A p \in Proc : ActTime(d) + mem'[p][d].ktau * DtMin[d] = Clock
      BY <1>3, <1>4, <3>1
    <3> QED BY <1>2, <1>5, <1>6, <3>2 DEF Reckons, Reckoned
  <2>3. \A e \in active' \ {1} : Reckons(e)'
    BY <1>2, <1>7, <2>2 DEF RunInv, StepsCounted
  <2> QED BY <1>2, <1>6, <2>1, <2>3 DEF RunInv, StepsCounted
<1> QED BY <1>8, <1>9, <1>10, <1>11, <1>12, <1>13 DEF RunInv

-------------------------------------------------------------------------------
(* SOLVE and the calls for nests *)

CallOf(fr, m) == {i \in 1..Len(fr) : fr[i].mother = m}
TurnsOf(f, d) == IF d <= f.last THEN f.nn ELSE f.nn - 1

\* What the number of steps of nest d amounts to, when r is what those of its
\* mother amount to.
Due(fr, d, r) ==
  IF CallOf(fr, Mother(d)) = {} THEN r
  ELSE r - DtMin[Mother(d)]
       + TurnsOf(fr[CHOOSE i \in CallOf(fr, Mother(d)) : TRUE], d) * DtMin[d]

Increasing(fr) ==
  \A i \in 1..Len(fr) : \A j \in 1..Len(fr) : i < j => fr[i].mother < fr[j].mother

LEMMA ExpectedDue ==
  /\ \A p, d : Expected(p, d) = Due(frames, d, Reckoned(p, Mother(d)))
  /\ nml' = nml => \A p, d : Expected(p, d)' = Due(frames', d, Reckoned(p, Mother(d))')
<1>1. \A p, d : Expected(p, d) = Due(frames, d, Reckoned(p, Mother(d)))
  BY DEF Expected, Due, InCall, CallOf, TurnsOf
<1>2. ASSUME nml' = nml
      PROVE  \A p, d : Expected(p, d)' = Due(frames', d, Reckoned(p, Mother(d))')
  <2>1. DtMin' = DtMin /\ \A d : Mother(d)' = Mother(d)
    BY <1>2, NamelistKept
  <2> SUFFICES ASSUME NEW p, NEW d
               PROVE  Expected(p, d)' = Due(frames', d, Reckoned(p, Mother(d))')
    OBVIOUS
  <2>2. PICK m : m = Mother(d) /\ m = Mother(d)'
    BY <2>1
  <2>3. InCall(m)' = CallOf(frames', m)
    BY DEF InCall, CallOf
  <2>4. PICK c : c = CallOf(frames', m)
    OBVIOUS
  <2>5. PICK f : f = frames'[CHOOSE i \in c : TRUE]
    OBVIOUS
  <2>6. Reckoned(p, Mother(d))' = Reckoned(p, m)'
    BY <2>2
  <2>7. Expected(p, d)' = IF c = {} THEN Reckoned(p, m)'
                          ELSE Reckoned(p, m)' - DtMin[m] + TurnsOf(f, d) * DtMin[d]
    BY <2>1, <2>2, <2>3, <2>4, <2>5 DEF Expected, TurnsOf
  <2>8. Due(frames', d, Reckoned(p, m)') = IF c = {} THEN Reckoned(p, m)'
          ELSE Reckoned(p, m)' - DtMin[m] + TurnsOf(f, d) * DtMin[d]
    BY <2>2, <2>4, <2>5 DEF Due
  <2> QED BY <2>6, <2>7, <2>8
<1> QED BY <1>1, <1>2

LEMMA DueOne ==
  ASSUME NEW fr, Increasing(fr), Len(fr) \in Nat, \A i \in 1..Len(fr) : fr[i].mother \in Int,
         NEW d, NEW r, NEW i \in 1..Len(fr), fr[i].mother = Mother(d)
  PROVE  Due(fr, d, r) = r - DtMin[Mother(d)] + TurnsOf(fr[i], d) * DtMin[d]
<1>1. \A j \in CallOf(fr, Mother(d)) : j = i
  <2> SUFFICES ASSUME NEW j \in 1..Len(fr), fr[j].mother = fr[i].mother, j # i
               PROVE  FALSE
    BY DEF CallOf
  <2> QED BY DEF Increasing
<1> QED BY <1>1 DEF Due, CallOf

LEMMA DueNone ==
  ASSUME NEW fr, NEW d, NEW r, \A i \in 1..Len(fr) : fr[i].mother # Mother(d)
  PROVE  Due(fr, d, r) = r
BY DEF Due, CallOf

\* Steps of one domain.
LEMMA SolvedSteps ==
  ASSUME TInv, NEW d \in Dom, Solved(d), nml' = nml
  PROVE  /\ \A p \in Proc : /\ mem'[p][d].ktau = mem[p][d].ktau + 1
                            /\ mem'[p][d].xtime = (IF d = 1 THEN 0 ELSE XStNes(d))
                                                  + (mem[p][d].ktau + 1) * DtMin[d]
         /\ \A p \in Proc : \A e \in Dom : e # d => mem'[p][e] = mem[p][e]
         /\ \A p \in Proc : Reckoned(p, d)' = Reckoned(p, d) + DtMin[d]
         /\ \A p \in Proc : \A e \in Dom : e # d => Reckoned(p, e)' = Reckoned(p, e)
<1>1. PICK t : t = [p \in Proc |-> (IF d = 1 THEN 0 ELSE XStNes(d)) + (mem[p][d].ktau + 1) * DtMin[d]]
  OBVIOUS
<1>2. \A p \in Proc : /\ mem'[p][d].ktau = mem[p][d].ktau + 1
                      /\ mem'[p][d].xtime = t[p]
                      /\ \A e \in Dom : e # d => mem'[p][e] = mem[p][e]
  <2> SUFFICES ASSUME NEW p \in Proc
               PROVE  /\ mem'[p][d].ktau = mem[p][d].ktau + 1
                      /\ mem'[p][d].xtime = t[p]
                      /\ \A e \in Dom : e # d => mem'[p][e] = mem[p][e]
    OBVIOUS
  <2>1. PICK m : m = mem[p]
    OBVIOUS
  <2> QED BY <2>1, <1>1 DEF Clocks, Solved, TInv, MemTyped
<1>3. ASSUME NEW p \in Proc
      PROVE  Reckoned(p, d)' = Reckoned(p, d) + DtMin[d]
  <2>1. PICK k, b, a : k = mem[p][d].ktau /\ b = DtMin[d] /\ a = ActTime(d)
    OBVIOUS
  <2> QED BY <2>1, NestTyped, <1>2, NamelistKept DEF Reckoned
<1> QED BY <1>1, <1>2, <1>3, NamelistKept DEF Reckoned

\* The clocks of nests when one domain has made a step.
LEMMA SolvedClocks ==
  ASSUME TInv, RunInv, NEW d \in active, Solved(d), UNCHANGED <<nml, active>>
  PROVE  ClocksOfNests' /\ ClocksStopped'
<1>1. nml \in Namelists /\ active \subseteq Dom /\ Monitor \in Proc /\ Nest = Dom \ {1}
      /\ d \in Dom
  BY RunNumbers DEF TInv, SetsTyped
<1>2. /\ DtMin' = DtMin /\ Step' = Step
      /\ \A e : XStNes(e)' = XStNes(e) /\ XEnNes(e)' = XEnNes(e) /\ ActTime(e)' = ActTime(e)
  BY NamelistKept
<1>3. ClocksOfNests'
  <2> SUFFICES ASSUME NEW p \in Proc, NEW e \in active, e # 1
               PROVE  ClockOf(e, mem[p][e])'
    BY DEF ClocksOfNests
  <2>1. CASE e = d
    BY <1>2, <1>1, <2>1, SolvedSteps DEF ClockOf
  <2>2. CASE e # d
    BY <1>2, <1>1, <2>2, SolvedSteps DEF ClockOf, RunInv, ClocksOfNests
  <2> QED BY <2>1, <2>2
<1>4. ClocksStopped'
  BY <1>2, <1>1, SolvedSteps DEF RunInv, ClocksStopped, Even, XTime
<1> QED BY <1>3, <1>4

LEMMA ChildrenOfCoarse ==
  ASSUME TInv, MothersThere, pc # "check", Children(1) = {}
  PROVE  active \ {1} = {}
<1>1. SUFFICES ASSUME active \ {1} # {}
               PROVE  FALSE
  OBVIOUS
<1>2. PICK d : d = Least(active \ {1})
  OBVIOUS
<1>3. d \in active \ {1} /\ \A e \in active \ {1} : d <= e
  BY RunNumbers, <1>1, <1>2, LeastOf DEF TInv, SetsTyped, Dom
<1>4. Mother(d) \in active /\ Mother(d) \in 1..(d - 1) /\ d \in Nat
  BY <1>3, MothersActive, RunNumbers DEF TInv, SetsTyped, Dom
<1>5. Mother(d) # 1
  BY <1>3 DEF Children
<1>6. d <= Mother(d)
  BY <1>3, <1>4, <1>5
<1> QED BY <1>4, <1>6

\* While nests are solved, and until output is due, their settling stays.
LEMMA SettlingKept ==
  ASSUME nml' = nml, active' = active, Clock' = Clock, pc \in {"nests", "end"},
         pc' \in {"nests", "end", "output"}, NestsOfTheTime
  PROVE  NestsOfTheTime'
<1> QED BY NamelistKept DEF NestsOfTheTime, Settled, TakesPart

LEMMA RunSolveCoarse ==
  ASSUME TInv, BdyInv, RunInv, SolveCoarse
  PROVE  RunInv'
<1>1. /\ nml \in Namelists /\ Monitor \in Proc /\ 1 \in Dom /\ pc = "solve" /\ Solved(1)
      /\ frames' = Calls(1) /\ pc' = (IF Calls(1) = <<>> THEN "end" ELSE "nests")
      /\ UNCHANGED <<nml, active>>
      /\ active \subseteq Dom /\ Nest = Dom \ {1} /\ 1 \in active /\ Step \in Nat \ {0}
  BY RunNumbers DEF SolveCoarse, TInv, SetsTyped
<1>2. /\ DtMin' = DtMin /\ Step' = Step
      /\ \A e : /\ ActTime(e)' = ActTime(e) /\ DeactTime(e)' = DeactTime(e)
                /\ Mother(e)' = Mother(e)
  BY <1>1, NamelistKept
<1>3. /\ KTau(1) \in Nat /\ Clock \in Nat /\ Clock = KTau(1) * Step
      /\ \A p \in Proc : mem[p][1].ktau = KTau(1)
  BY CoarseTime DEF RunInv
<1>4. /\ \A p \in Proc : mem'[p][1].ktau = mem[p][1].ktau + 1
      /\ \A p \in Proc : mem'[p][1].xtime = 0 + (mem[p][1].ktau + 1) * DtMin[1]
      /\ \A p \in Proc : \A e \in Dom : e # 1 => mem'[p][e] = mem[p][e]
      /\ \A p \in Proc : Reckoned(p, 1)' = Reckoned(p, 1) + DtMin[1]
      /\ \A p \in Proc : \A e \in Dom : e # 1 => Reckoned(p, e)' = Reckoned(p, e)
  BY <1>1, SolvedSteps
<1>5. DtMin[1] = Step
  BY <1>1, DtMinFacts
<1>6. Clock' = Clock + Step /\ Clock' - Step = Clock
  <2>1. mem'[Monitor][1].xtime = (KTau(1) + 1) * Step
    BY <1>1, <1>3, <1>4, <1>5
  <2>2. (KTau(1) + 1) * Step = KTau(1) * Step + Step
    BY <1>1, <1>3
  <2>3. Clock' = Clock + Step
    BY <1>3, <2>1, <2>2 DEF Clock, XTime
  <2> QED BY <1>1, <1>3, <2>3
<1>7. KTau(1)' = KTau(1) + 1 /\ \A p \in Proc : mem'[p][1].ktau = KTau(1)'
  BY <1>1, <1>3, <1>4 DEF KTau
<1>8. NestsOfTheTime'
  <2>1. \A d \in Nest : Settled(d, Clock)
    BY <1>1 DEF RunInv, NestsOfTheTime
  <2>2. \A d \in Nest : Settled(d, Clock - Step)'
    BY <1>1, <1>2, <1>6, <2>1 DEF Settled, TakesPart
  <2>3. pc' \in {"nests", "end", "output"}
    BY <1>1
  <2> QED BY <2>2, <2>3 DEF NestsOfTheTime
<1>9. MothersThere'
  BY <1>1, MothersActiveNext DEF RunInv
<1>10. ClocksOfNests' /\ ClocksStopped'
  BY <1>1, SolvedClocks
<1>11. Len(Calls(1)) \in 0..1 /\ \A i \in 1..Len(Calls(1)) : Calls(1)[i] = [mother |-> 1, nn |-> 1, last |-> 0]
  <2>1. CASE Children(1) = {}
    BY <2>1 DEF Calls
  <2>2. CASE Children(1) # {}
    BY <2>2 DEF Calls
  <2> QED BY <2>1, <2>2
<1>12. CallsInOrder'
  <2>1. \A i, j \in 1..Len(Calls(1)) : ~ (i < j)
    BY <1>11
  <2> QED BY <1>1, <2>1 DEF CallsInOrder
<1>13. StepsCounted'
  <2>1. CASE Calls(1) = <<>>
    <3>1. Children(1) = {}
      BY <2>1 DEF Calls
    <3>2. active \ {1} = {}
      BY <1>1, <3>1, ChildrenOfCoarse DEF RunInv
    <3> QED BY <1>1, <1>7, <2>1, <3>2 DEF StepsCounted
  <2>2. CASE Calls(1) # <<>>
    <3>1. PICK fr : fr = Calls(1) /\ fr = frames'
      BY <1>1
    <3>2. Len(fr) = 1 /\ fr[1] = [mother |-> 1, nn |-> 1, last |-> 0]
      BY <2>2, <3>1 DEF Calls
    <3>3. Increasing(fr) /\ \A i \in 1..Len(fr) : fr[i].mother \in Int /\ i = 1
      BY <3>2 DEF Increasing
    <3>4. ASSUME NEW p \in Proc, NEW e \in active, e # 1
          PROVE  Reckoned(p, e)' = Expected(p, e)'
      <4>1. e \in Dom /\ e \in Nest /\ Mother(e) \in Dom /\ DtMin[e] \in Nat /\ e > 0 /\ e \in Nat
        <5>1. e \in Dom /\ e \in Nest
          BY <1>1, <3>4
        <5>2. e > 0 /\ e \in Nat
          BY <5>1 DEF Dom
        <5> QED BY <1>1, <5>1, <5>2, DtMinFacts, RunNumbers
      <4>2. Reckoned(p, e)' = Reckoned(p, e) /\ Reckoned(p, e) = Clock
        BY <1>1, <1>4, <3>4, <4>1 DEF RunInv, StepsCounted, Reckons
      <4>3. Expected(p, e)' = Due(fr, e, Reckoned(p, Mother(e))')
        BY <1>1, <3>1, ExpectedDue
      <4>4. CASE Mother(e) = 1
        <5>1. PICK r : r = Reckoned(p, 1)'
          OBVIOUS
        <5>2. r = Clock + Step
          BY <1>4, <1>5, <5>1, CoarseTime DEF RunInv
        <5>3. Due(fr, e, r) = r - DtMin[1] + TurnsOf(fr[1], e) * DtMin[e]
          BY <3>2, <3>3, <4>4, DueOne
        <5>4. TurnsOf(fr[1], e) = 0
          BY <3>2, <4>1 DEF TurnsOf
        <5>5. Due(fr, e, r) = Clock
          BY <1>1, <1>3, <1>5, <4>1, <5>2, <5>3, <5>4
        <5>6. Reckoned(p, Mother(e))' = r
          BY <1>2, <4>4, <5>1
        <5> QED BY <4>2, <4>3, <5>5, <5>6
      <4>5. CASE Mother(e) # 1
        <5>1. Mother(e) \in active
          BY <1>1, <3>4, MothersActive DEF RunInv
        <5>2. Reckoned(p, Mother(e)) = Clock
          BY <1>1, <4>5, <5>1 DEF RunInv, StepsCounted, Reckons
        <5>3. PICK m : m = Mother(e) /\ m = Mother(e)'
          BY <1>2
        <5>4. Reckoned(p, Mother(e))' = Reckoned(p, m)'
          BY <5>3
        <5>5. Reckoned(p, m)' = Clock
          BY <1>4, <4>1, <4>5, <5>2, <5>3
        <5>6. Due(fr, e, Clock) = Clock
          BY <3>2, <3>3, <4>5, DueNone
        <5> QED BY <4>2, <4>3, <5>4, <5>5, <5>6
      <4> QED BY <4>4, <4>5
    <3>5. pc' = "nests"
      BY <1>1, <2>2
    <3> QED BY <1>1, <1>7, <3>4, <3>5 DEF StepsCounted
  <2> QED BY <2>1, <2>2
<1>14. AllGone'
  BY <1>1 DEF AllGone
<1> QED BY <1>8, <1>9, <1>10, <1>12, <1>13, <1>14 DEF RunInv

\* The calls when nest d has been solved, and those for nests in it begin.
Pushed(n, d) == [frames EXCEPT ![n].last = d] \o Calls(d)
CallPushed(n, d, u) ==
  /\ \A i \in 1..n : u[i].mother = frames[i].mother
  /\ \A i \in 1..n : i # n => u[i] = frames[i]
  /\ u[n].nn = frames[n].nn /\ u[n].last = d
  /\ Children(d) = {} => Len(u) = n
  /\ Children(d) # {} => /\ Len(u) = n + 1
                         /\ u[n + 1] = [mother |-> d, nn |-> 1, last |-> 0]
                         /\ n + 1 \in 1..Len(u)
  /\ \A i \in 1..n : i \in 1..Len(u)
LEMMA PushedCall ==
  ASSUME TInv, pc = "nests", NEW d \in active, NEW n, n = Len(frames), NEW u, u = Pushed(n, d)
  PROVE  CallPushed(n, d, u)
<1>1. /\ nml \in Namelists /\ n \in Nat \ {0} /\ n \in 1..n /\ frames \in Seq(Frame)
      /\ d \in 0..MaxNes /\ d \in Dom /\ MaxNes \in Nat
  <2>1. nml \in Namelists /\ MaxNes \in Nat /\ d \in Dom
    BY RunNumbers DEF TInv, SetsTyped
  <2>2. d \in 0..MaxNes
    BY <2>1 DEF Dom
  <2> QED BY <2>1, <2>2, TopFacts DEF TInv, FramesTyped
<1>2. frames[n] \in Frame
  BY <1>1
<1>3. PICK f : f = [frames[n] EXCEPT !.last = d]
  OBVIOUS
<1>4. f \in Frame /\ f.mother = frames[n].mother /\ f.nn = frames[n].nn /\ f.last = d
  BY <1>1, <1>2, <1>3 DEF Frame
<1>5. PICK t : t = [frames EXCEPT ![n] = f]
  OBVIOUS
<1>6. t \in Seq(Frame) /\ Len(t) = n /\ \A i \in 1..n : t[i] = IF i = n THEN f ELSE frames[i]
  BY <1>1, <1>4, <1>5
<1>7. u = t \o Calls(d)
  BY <1>3, <1>5 DEF Pushed
<1>8. CASE Children(d) = {}
  <2>1. Calls(d) = <<>> /\ Len(Calls(d)) = 0
    BY <1>8 DEF Calls
  <2>2. u = t
    BY <1>6, <1>7, <2>1
  <2> QED BY <1>1, <1>4, <1>6, <1>8, <2>1, <2>2 DEF CallPushed
<1>9. CASE Children(d) # {}
  <2>1. PICK c : c = [mother |-> d, nn |-> 1, last |-> 0]
    OBVIOUS
  <2>2. c \in Frame
    <3>1. 1 \in Nat /\ 0 \in 0..MaxNes
      BY <1>1
    <3> QED BY <1>1, <2>1, <3>1 DEF Frame
  <2>3. Calls(d) = <<c>> /\ Len(Calls(d)) = 1
    BY <1>9, <2>1 DEF Calls
  <2>4. PICK s : s = <<c>>
    OBVIOUS
  <2>5. s \in Seq(Frame) /\ Len(s) = 1 /\ s[1] = c
    BY <2>2, <2>4
  <2>6. u = t \o s
    BY <1>7, <2>3, <2>4
  <2>7. /\ Len(u) = Len(t) + Len(s)
        /\ \A i \in 1..(Len(t) + Len(s)) : u[i] = IF i <= Len(t) THEN t[i] ELSE s[i - Len(t)]
    <3>1. /\ Len(t \o s) = Len(t) + Len(s)
          /\ \A i \in 1..(Len(t) + Len(s)) :
               (t \o s)[i] = IF i <= Len(t) THEN t[i] ELSE s[i - Len(t)]
      BY <1>6, <2>5, ConcatProperties
    <3> QED BY <2>6, <3>1
  <2>8. Len(u) = n + 1 /\ u[n + 1] = c /\ \A i \in 1..n : u[i] = t[i] /\ i \in 1..Len(u)
    BY <1>1, <1>6, <2>5, <2>7
  <2> QED BY <1>1, <1>4, <1>6, <1>9, <2>1, <2>3, <2>8 DEF CallPushed
<1> QED BY <1>8, <1>9

LEMMA RunSolveNest ==
  ASSUME TInv, BdyInv, RunInv, SolveNest
  PROVE  RunInv'
<1>1. /\ nml \in Namelists /\ Monitor \in Proc /\ 1 \in Dom /\ pc = "nests" /\ Waiting # {}
      /\ UNCHANGED <<nml, active, pc>>
      /\ active \subseteq Dom /\ Nest = Dom \ {1} /\ 1 \in active /\ Dom \subseteq Nat
  <2>1. Dom \subseteq Nat
    BY DEF Dom
  <2>2. nml \in Namelists /\ pc = "nests" /\ Waiting # {} /\ UNCHANGED <<nml, active, pc>>
        /\ active \subseteq Dom /\ 1 \in active
    BY DEF SolveNest, TInv, SetsTyped
  <2> QED BY <2>1, <2>2, RunNumbers
<1>2. PICK d, n, m, u : /\ d = Least(Waiting) /\ n = Len(frames) /\ m = frames[n].mother
                        /\ u = [frames EXCEPT ![n].last = d] \o Calls(d)
  OBVIOUS
<1>3. Solved(d) /\ frames' = u
  BY <1>2 DEF SolveNest
<1>4. /\ Waiting \subseteq active \ {1} /\ d \in Waiting /\ \A e \in Waiting : d <= e
      /\ Waiting = {e \in active \ {1} : Mother(e) = m /\ e > frames[n].last}
  <2>1. Waiting = {e \in active \ {1} : Mother(e) = m /\ e > frames[n].last}
    BY <1>2 DEF Waiting, Children, Top
  <2>2. Waiting \in SUBSET Nat
    BY <1>1, <2>1
  <2> QED BY <1>1, <1>2, <2>1, <2>2, LeastOf
<1>5. /\ d \in active /\ d # 1 /\ d \in Nest /\ d \in Dom /\ d \in Nat /\ Mother(d) = m
      /\ d > frames[n].last /\ m \in 1..(d - 1) /\ DtMin[d] \in Nat /\ m # d /\ m \in Dom
  <2>1. d \in active /\ d # 1 /\ d \in Nest /\ d \in Dom /\ d \in Nat /\ Mother(d) = m
        /\ d > frames[n].last
    BY <1>1, <1>4
  <2>2. m \in 1..(d - 1) /\ DtMin[d] \in Nat /\ m \in Dom
    BY <1>1, <2>1, RunNumbers, DtMinFacts
  <2> QED BY <2>1, <2>2
<1>6. /\ n \in Nat \ {0} /\ n \in 1..n
      /\ \A i \in 1..n : frames[i].mother \in Nat /\ frames[i].nn \in 1..3
      /\ frames[n].last \in Nat
  <2>1. n \in Nat \ {0} /\ n \in 1..n /\ frames \in Seq(Frame)
    BY <1>1, <1>2, TopFacts DEF TInv, FramesTyped
  <2>2. frames[n] \in Frame
    BY <1>2, <2>1
  <2>3. \A i \in 1..n : frames[i].mother \in Nat /\ frames[i].nn \in 1..3
    <3> SUFFICES ASSUME NEW i \in 1..n
                 PROVE  frames[i].mother \in Nat /\ frames[i].nn \in 1..3
      OBVIOUS
    <3>1. frames[i].mother \in active /\ frames[i].nn \in 1..3
      BY <1>2, <2>1 DEF TInv, FramesTyped
    <3> QED BY <1>1, <3>1
  <2>4. frames[n].last \in Nat
    BY <1>1, <2>2, RunNumbers DEF Frame
  <2> QED BY <2>1, <2>3, <2>4
<1>7. Increasing(frames)
  BY DEF RunInv, CallsInOrder, Increasing
<1>8. /\ Len(u) \in Nat
      /\ \A i \in 1..n : u[i].mother = frames[i].mother
      /\ \A i \in 1..n : i # n => u[i] = frames[i]
      /\ u[n].nn = frames[n].nn /\ u[n].last = d
      /\ Children(d) = {} => Len(u) = n
      /\ Children(d) # {} => /\ Len(u) = n + 1 /\ n + 1 \in 1..Len(u)
                             /\ u[n + 1] = [mother |-> d, nn |-> 1, last |-> 0]
      /\ \A i \in 1..n : i \in 1..Len(u)
  <2>1. CallPushed(n, d, u)
    <3>1. /\ pc = "nests" /\ d \in active /\ n = Len(frames)
          /\ u = Pushed(n, d)
      BY <1>1, <1>2, <1>5 DEF Pushed
    <3> QED BY <3>1, PushedCall
  <2> QED BY <1>6, <2>1 DEF CallPushed
<1>9. \A i \in 1..n : frames[i].mother <= m /\ frames[i].mother # d
  <2> SUFFICES ASSUME NEW i \in 1..n
               PROVE  frames[i].mother <= m /\ frames[i].mother # d
    OBVIOUS
  <2>1. i = n \/ i < n
    BY <1>6
  <2>2. frames[i].mother <= m
    BY <1>2, <1>6, <1>7, <2>1 DEF Increasing
  <2> QED BY <1>5, <1>6, <2>2
<1>10. \A i \in 1..Len(u) : i \in 1..n \/ (i = n + 1 /\ u[i].mother = d /\ Children(d) # {})
  BY <1>6, <1>8
<1>11. Increasing(u) /\ Len(u) \in Nat /\ \A i \in 1..Len(u) : u[i].mother \in Int
  <2>1. \A i \in 1..Len(u) : u[i].mother \in Int
    BY <1>5, <1>6, <1>8, <1>10
  <2>2. ASSUME NEW i \in 1..Len(u), NEW j \in 1..Len(u), i < j
        PROVE  u[i].mother < u[j].mother
    <3>1. i \in 1..n
      BY <1>6, <1>10, <2>2
    <3>2. CASE j \in 1..n
      BY <1>2, <1>7, <1>8, <2>2, <3>1, <3>2 DEF Increasing
    <3>3. CASE j \notin 1..n
      <4>1. u[j].mother = d /\ u[i].mother = frames[i].mother
        BY <1>8, <1>10, <3>1, <3>3
      <4> QED BY <1>5, <1>6, <1>9, <3>1, <4>1
    <3> QED BY <3>2, <3>3
  <2> QED BY <1>8, <2>1, <2>2 DEF Increasing
<1>12. /\ \A p \in Proc : \A e \in Dom : e # d => mem'[p][e] = mem[p][e]
       /\ \A p \in Proc : Reckoned(p, d)' = Reckoned(p, d) + DtMin[d]
       /\ \A p \in Proc : \A e \in Dom : e # d => Reckoned(p, e)' = Reckoned(p, e)
  BY <1>1, <1>3, <1>5, SolvedSteps
<1>13. Clock' = Clock /\ KTau(1)' = KTau(1)
  BY <1>1, <1>5, <1>12 DEF Clock, XTime, KTau
<1>14. \A e : Mother(e)' = Mother(e)
  BY <1>1, NamelistKept
<1>15. ASSUME NEW p \in Proc, NEW e \in active, e # 1
       PROVE  Reckoned(p, e)' = Expected(p, e)'
  <2>1. e \in Dom /\ e \in Nest /\ e \in Nat /\ e > 0
    BY <1>1, <1>15, RunNumbers DEF Nest
  <2>2. PICK me, r, r1 : /\ me = Mother(e) /\ me = Mother(e)'
                         /\ r = Reckoned(p, me) /\ r1 = Reckoned(p, me)'
    BY <1>14
  <2>3. me \in Dom /\ DtMin[me] \in Nat /\ r \in Nat /\ DtMin[e] \in Nat
    BY <1>1, <2>1, <2>2, RunNumbers, NestTyped
  <2>4. Reckoned(p, e) = Due(frames, e, r)
    BY <1>1, <1>15, <2>2, ExpectedDue DEF RunInv, StepsCounted
  <2>5. Expected(p, e)' = Due(u, e, r1)
    <3>1. Reckoned(p, Mother(e))' = r1
      BY <2>2
    <3> QED BY <1>1, <1>3, <3>1, ExpectedDue
  <2>6. me # d => r1 = r
    BY <1>12, <2>2, <2>3
  <2>7. e # d => Reckoned(p, e)' = Reckoned(p, e)
    BY <1>12, <2>1
  <2>8. me = m => /\ Due(frames, e, r) = r - DtMin[me] + TurnsOf(frames[n], e) * DtMin[e]
                  /\ Due(u, e, r1) = r1 - DtMin[me] + TurnsOf(u[n], e) * DtMin[e]
    <3> SUFFICES ASSUME me = m
                 PROVE  /\ Due(frames, e, r) = r - DtMin[me] + TurnsOf(frames[n], e) * DtMin[e]
                        /\ Due(u, e, r1) = r1 - DtMin[me] + TurnsOf(u[n], e) * DtMin[e]
      OBVIOUS
    <3>1. n \in 1..Len(u) /\ u[n].mother = m
      BY <1>2, <1>6, <1>8
    <3>2. Due(u, e, r1) = r1 - DtMin[me] + TurnsOf(u[n], e) * DtMin[e]
      BY <1>11, <2>2, <3>1, DueOne
    <3>3. Len(frames) \in Nat /\ \A i \in 1..Len(frames) : frames[i].mother \in Int
      BY <1>2, <1>6
    <3>4. Due(frames, e, r) = r - DtMin[me] + TurnsOf(frames[n], e) * DtMin[e]
      BY <1>2, <1>6, <1>7, <2>2, <3>3, DueOne
    <3> QED BY <3>2, <3>4
  <2>9. CASE e = d
    <3>1. me = m /\ me # d
      BY <1>5, <2>2, <2>9
    <3>2. TurnsOf(frames[n], e) = frames[n].nn - 1 /\ TurnsOf(u[n], e) = frames[n].nn
      BY <1>5, <1>6, <1>8, <2>9 DEF TurnsOf
    <3>3. PICK x, z, b : x = frames[n].nn /\ z = DtMin[e] /\ b = DtMin[me]
      OBVIOUS
    <3>4. x \in Nat /\ z \in Nat /\ b \in Nat
      BY <1>6, <2>3, <3>3
    <3>5. (r - b + (x - 1) * z) + z = r - b + x * z
      BY <2>3, <3>4
    <3>6. Reckoned(p, e)' = Reckoned(p, e) + z
      BY <1>12, <2>9, <3>3
    <3> QED BY <2>4, <2>5, <2>6, <2>8, <3>1, <3>2, <3>3, <3>5, <3>6
  <2>10. CASE e # d /\ me = m
    <3>1. TurnsOf(u[n], e) = TurnsOf(frames[n], e)
      <4>1. e <= frames[n].last \/ d < e
        <5>1. e > frames[n].last => e \in Waiting
          BY <1>4, <1>15, <2>2, <2>10
        <5>2. e \in Waiting => d <= e
          BY <1>4
        <5> QED BY <1>5, <1>6, <2>1, <2>10, <5>1, <5>2
      <4>2. CASE e <= frames[n].last
        <5>1. e <= d
          BY <1>5, <1>6, <2>1, <4>2
        <5> QED BY <1>8, <4>2, <5>1 DEF TurnsOf
      <4>3. CASE d < e
        <5>1. ~ (e <= d) /\ ~ (e <= frames[n].last)
          BY <1>5, <1>6, <2>1, <4>3
        <5> QED BY <1>8, <5>1 DEF TurnsOf
      <4> QED BY <4>1, <4>2, <4>3
    <3>2. r1 = r
      BY <1>5, <2>6, <2>10
    <3>3. Due(u, e, r1) = Due(frames, e, r)
      BY <2>8, <2>10, <3>1, <3>2
    <3> QED BY <2>4, <2>5, <2>7, <2>10, <3>3
  <2>11. CASE me = d
    <3>1. e # d
      BY <1>5, <2>2, <2>11
    <3>2. e \in Children(d)
      BY <1>15, <2>2, <2>11 DEF Children
    <3>3. Len(u) = n + 1 /\ u[n + 1] = [mother |-> d, nn |-> 1, last |-> 0] /\ n + 1 \in 1..Len(u)
      BY <1>6, <1>8, <3>2
    <3>4. Due(u, e, r1) = r1 - DtMin[d] + TurnsOf(u[n + 1], e) * DtMin[e]
      <4>1. u[n + 1].mother = Mother(e)
        BY <2>2, <2>11, <3>3
      <4>2. Due(u, e, r1) = r1 - DtMin[Mother(e)] + TurnsOf(u[n + 1], e) * DtMin[e]
        BY <1>11, <3>3, <4>1, DueOne
      <4> QED BY <2>2, <2>11, <4>2
    <3>5. TurnsOf(u[n + 1], e) = 0
      BY <2>1, <3>3 DEF TurnsOf
    <3>6. r1 = r + DtMin[d]
      BY <1>12, <2>2, <2>11
    <3>7. Due(u, e, r1) = r
      BY <1>5, <2>3, <3>4, <3>5, <3>6
    <3>8. Due(frames, e, r) = r
      BY <1>2, <1>9, <2>2, <2>11, DueNone
    <3> QED BY <2>4, <2>5, <2>7, <3>1, <3>7, <3>8
  <2>12. CASE e # d /\ me # m /\ me # d
    <3>1. Due(u, e, r) = Due(frames, e, r)
      <4>1. CASE \E i \in 1..n : frames[i].mother = me
        <5>1. PICK i \in 1..n : frames[i].mother = me
          BY <4>1
        <5>2. i # n /\ u[i] = frames[i] /\ i \in 1..Len(u) /\ i \in 1..Len(frames)
          BY <1>2, <1>8, <2>12, <5>1
        <5>3. Due(u, e, r) = r - DtMin[me] + TurnsOf(u[i], e) * DtMin[e]
          BY <1>11, <2>2, <5>1, <5>2, DueOne
        <5>4. Len(frames) \in Nat /\ \A j \in 1..Len(frames) : frames[j].mother \in Int
          BY <1>2, <1>6
        <5>5. Due(frames, e, r) = r - DtMin[me] + TurnsOf(frames[i], e) * DtMin[e]
          BY <1>7, <2>2, <5>1, <5>2, <5>4, DueOne
        <5> QED BY <5>2, <5>3, <5>5
      <4>2. CASE ~ \E i \in 1..n : frames[i].mother = me
        <5>1. Due(frames, e, r) = r
          BY <1>2, <2>2, <4>2, DueNone
        <5>2. \A i \in 1..Len(u) : u[i].mother # me
          BY <1>8, <1>10, <2>12, <4>2
        <5>3. Due(u, e, r) = r
          BY <2>2, <5>2, DueNone
        <5> QED BY <5>1, <5>3
      <4> QED BY <4>1, <4>2
    <3> QED BY <2>4, <2>5, <2>6, <2>7, <2>12, <3>1
  <2> QED BY <2>9, <2>10, <2>11, <2>12
<1>16. StepsCounted'
  <2>1. \A p \in Proc : mem'[p][1] = mem[p][1]
    BY <1>1, <1>5, <1>12
  <2> QED BY <1>1, <1>13, <1>15, <2>1 DEF RunInv, StepsCounted
<1>17. NestsOfTheTime'
  BY <1>1, <1>13, SettlingKept DEF RunInv
<1>18. MothersThere'
  BY <1>1, MothersActiveNext DEF RunInv
<1>19. ClocksOfNests' /\ ClocksStopped'
  BY <1>1, <1>3, <1>5, SolvedClocks
<1>20. CallsInOrder' /\ AllGone'
  BY <1>1, <1>3, <1>11 DEF CallsInOrder, Increasing, AllGone
<1> QED BY <1>16, <1>17, <1>18, <1>19, <1>20 DEF RunInv

\* What a call that moves on, and leaves the steps made as they are, keeps.
LEMMA RunCallsKept ==
  ASSUME TInv, BdyInv, RunInv, pc = "nests", pc' \in {"nests", "end"},
         UNCHANGED <<nml, mem, active>>, Increasing(frames'),
         \A e \in active \ {1} : \A r \in Nat : Due(frames', e, r) = Due(frames, e, r),
         pc' = "end" => \A e \in active \ {1} : Reckons(e)
  PROVE  RunInv'
<1>1. nml \in Namelists /\ active \subseteq Dom /\ Nest = Dom \ {1} /\ 1 \in Dom
      /\ \A d \in Nest : Mother(d) \in Dom
  BY RunNumbers DEF TInv, SetsTyped
<1>2. TimesKept
  BY DEF TimesKept
<1>3. /\ \A d \in Dom : XTime(d)' = XTime(d) /\ KTau(d)' = KTau(d)
      /\ Clock' = Clock
      /\ \A d \in Dom : \A p \in Proc : Reckoned(p, d)' = Reckoned(p, d)
      /\ \A d \in Dom : Reckons(d)' <=> Reckons(d)
  BY <1>1, <1>2, TimesStay
<1>4. /\ \A d : /\ Mother(d)' = Mother(d) /\ XStNes(d)' = XStNes(d) /\ XEnNes(d)' = XEnNes(d)
                /\ ActTime(d)' = ActTime(d)
      /\ Step' = Step /\ DtMin' = DtMin
  BY NamelistKept
<1>5. NestsOfTheTime'
  BY <1>3, SettlingKept DEF RunInv
<1>6. MothersThere'
  BY MothersActiveNext DEF RunInv
<1>7. ClocksStopped'
  <2>1. \A d \in Nest : XTime(d)' = XTime(d)
    BY <1>1, <1>3
  <2> QED BY <1>4, <2>1 DEF RunInv, ClocksStopped, Even
<1>8. ClocksOfNests'
  BY <1>4 DEF RunInv, ClocksOfNests, ClockOf
<1>9. CallsInOrder' /\ AllGone'
  BY DEF CallsInOrder, Increasing, AllGone
<1>10. StepsCounted'
  <2>1. ASSUME NEW p \in Proc, NEW e \in active, e # 1
        PROVE  pc' = "nests" => Reckoned(p, e)' = Expected(p, e)'
    <3>1. e \in Nest /\ e \in Dom /\ Mother(e) \in Dom
      BY <1>1, <2>1
    <3>2. PICK m, r : m = Mother(e) /\ m = Mother(e)' /\ r = Reckoned(p, m)
      BY <1>4
    <3>3. r \in Nat /\ Reckoned(p, m)' = r
      BY <1>3, <3>1, <3>2, NestTyped
    <3>4. Expected(p, e)' = Due(frames', e, r)
      <4>1. Reckoned(p, Mother(e))' = r
        BY <3>2, <3>3
      <4> QED BY <4>1, ExpectedDue
    <3>5. Expected(p, e) = Due(frames, e, r)
      BY <3>2, ExpectedDue
    <3>6. Reckoned(p, e) = Expected(p, e)
      BY <2>1 DEF RunInv, StepsCounted
    <3>7. Reckoned(p, e)' = Reckoned(p, e)
      BY <1>3, <3>1
    <3> QED BY <2>1, <3>3, <3>4, <3>5, <3>6, <3>7
  <2>2. \A p \in Proc : mem'[p][1].ktau = KTau(1)'
    BY <1>1, <1>3 DEF RunInv, StepsCounted
  <2>3. pc' # "nests" => \A e \in active \ {1} : Reckons(e)'
    BY <1>1, <1>3
  <2> QED BY <2>1, <2>2, <2>3 DEF StepsCounted
<1> QED BY <1>5, <1>6, <1>7, <1>8, <1>9, <1>10 DEF RunInv

\* The call on top when all nests in it have made a step.
LEMMA TopDone ==
  ASSUME TInv, RunInv, pc = "nests", Waiting = {}
  PROVE  \E n \in Nat \ {0} :
           /\ n = Len(frames) /\ frames \in Seq(Frame) /\ Top = frames[n]
           /\ \A i \in 1..n : /\ frames[i].mother \in Int /\ frames[i].nn \in 1..3
                              /\ i < n => frames[i].mother < frames[n].mother
           /\ \A e \in active \ {1} : Mother(e) = frames[n].mother => e <= frames[n].last
           /\ Increasing(frames)
<1>1. nml \in Namelists /\ active \subseteq Dom /\ Dom \subseteq Nat /\ MaxNes \in Nat
  BY RunNumbers DEF TInv, SetsTyped, Dom
<1>2. PICK n : n = Len(frames)
  OBVIOUS
<1>3. n \in Nat \ {0} /\ frames \in Seq(Frame) /\ Top = frames[n] /\ n \in 1..n /\ Top \in Frame
  BY <1>2, TopFacts DEF TInv, FramesTyped, Top
<1>4. Increasing(frames)
  BY DEF RunInv, CallsInOrder, Increasing
<1>5. ASSUME NEW i \in 1..n
      PROVE  /\ frames[i].mother \in Int /\ frames[i].nn \in 1..3
             /\ i < n => frames[i].mother < frames[n].mother
  <2>1. frames[i].mother \in Int
    <3>1. PICK c : c = frames[i].mother
      OBVIOUS
    <3>2. c \in Nat
      BY <1>1, <1>2, <1>3, <3>1 DEF TInv, FramesTyped
    <3> QED BY <3>1, <3>2
  <2> QED BY <1>2, <1>3, <1>4, <2>1 DEF Increasing, TInv, FramesTyped
<1>6. ASSUME NEW e \in active \ {1}, Mother(e) = frames[n].mother
      PROVE  e <= frames[n].last
  <2>1. e \in Nat /\ Top.last \in Nat
    <3>1. e \in Dom
      BY <1>1
    <3> QED BY <1>1, <3>1, <1>3 DEF Frame
  <2> QED BY <1>3, <1>6, <2>1 DEF Waiting, Children
<1> QED BY <1>2, <1>3, <1>4, <1>5, <1>6

LEMMA RunNextTurn ==
  ASSUME TInv, BdyInv, RunInv, NextTurn
  PROVE  RunInv'
<1>1. /\ nml \in Namelists /\ pc = "nests" /\ Waiting = {} /\ active \subseteq Dom /\ 1 \in Dom
      /\ Nest = Dom \ {1} /\ Dom \subseteq Nat
      /\ UNCHANGED <<nml, pc, mem, active>>
  <2>1. Dom \subseteq Nat
    BY DEF Dom
  <2>2. /\ nml \in Namelists /\ pc = "nests" /\ Waiting = {} /\ active \subseteq Dom
        /\ UNCHANGED <<nml, pc, mem, active>>
    BY DEF NextTurn, TInv, SetsTyped
  <2> QED BY <2>1, <2>2, RunNumbers
<1>2. PICK n \in Nat \ {0} :
           /\ n = Len(frames) /\ frames \in Seq(Frame) /\ Top = frames[n]
           /\ \A i \in 1..n : /\ frames[i].mother \in Int /\ frames[i].nn \in 1..3
                              /\ i < n => frames[i].mother < frames[n].mother
           /\ \A e \in active \ {1} : Mother(e) = frames[n].mother => e <= frames[n].last
           /\ Increasing(frames)
  BY <1>1, TopDone
<1>3. PICK g, f : g = frames[n] /\ f = [g EXCEPT !.nn = @ + 1, !.last = 0]
  OBVIOUS
<1>4. g \in [mother : Dom, nn : Nat, last : 0..MaxNes] /\ g.nn \in 1..3 /\ n \in 1..n
  <2>1. n \in 1..n
    OBVIOUS
  <2>2. frames[n] \in Frame /\ frames[n].nn \in 1..3
    BY <1>2, <2>1
  <2> QED BY <1>3, <2>1, <2>2 DEF Frame
<1>5. f = [mother |-> g.mother, nn |-> g.nn + 1, last |-> 0]
  BY <1>3, <1>4
<1>6. f \in Frame
  <2>1. g.mother \in Dom /\ 0 \in 0..MaxNes /\ g.nn + 1 \in Nat
    BY <1>1, <1>4, RunNumbers
  <2> QED BY <1>5, <2>1 DEF Frame
<1>7. PICK t : t = frames' /\ t = [frames EXCEPT ![n] = f]
  BY <1>2, <1>3, <1>4 DEF NextTurn, Frame
<1>8. Len(t) = n /\ \A i \in 1..n : t[i] = IF i = n THEN f ELSE frames[i]
  BY <1>2, <1>4, <1>6, <1>7
<1>9. \A i \in 1..n : t[i].mother = frames[i].mother
  BY <1>3, <1>5, <1>8
<1>10. Increasing(t) /\ Len(t) \in Nat /\ \A i \in 1..Len(t) : t[i].mother \in Int
  BY <1>2, <1>8, <1>9 DEF Increasing
<1>11. ASSUME NEW e \in active \ {1}, NEW r \in Nat
       PROVE  Due(t, e, r) = Due(frames, e, r)
  <2>1. CASE \E i \in 1..n : frames[i].mother = Mother(e)
    <3>1. PICK i \in 1..n : frames[i].mother = Mother(e)
      BY <2>1
    <3>2. i \in 1..Len(t) /\ i \in 1..Len(frames) /\ t[i].mother = Mother(e)
      BY <1>2, <1>8, <1>9, <3>1
    <3>3. Due(t, e, r) = r - DtMin[Mother(e)] + TurnsOf(t[i], e) * DtMin[e]
      BY <1>10, <3>2, DueOne
    <3>4. Due(frames, e, r) = r - DtMin[Mother(e)] + TurnsOf(frames[i], e) * DtMin[e]
      <4>1. Len(frames) \in Nat /\ Increasing(frames)
            /\ \A j \in 1..Len(frames) : frames[j].mother \in Int
        BY <1>2
      <4> QED BY <3>1, <3>2, <4>1, DueOne
    <3>5. TurnsOf(t[i], e) = TurnsOf(frames[i], e)
      <4>1. CASE i = n
        <5>1. e <= frames[n].last /\ e \in Nat /\ e > 0
          <6>1. e \in Dom /\ e \in active \ {1}
            BY <1>1
          <6>2. e \in Nat /\ e > 0
            BY <6>1 DEF Dom
          <6> QED BY <1>2, <3>1, <4>1, <6>2
        <5>2. t[n] = f /\ ~ (e <= f.last) /\ f.nn - 1 = g.nn
          BY <1>4, <1>5, <1>8, <5>1
        <5> QED BY <1>3, <4>1, <5>1, <5>2 DEF TurnsOf
      <4>2. CASE i # n
        BY <1>8, <4>2 DEF TurnsOf
      <4> QED BY <4>1, <4>2
    <3> QED BY <3>3, <3>4, <3>5
  <2>2. CASE ~ \E i \in 1..n : frames[i].mother = Mother(e)
    <3>1. Due(frames, e, r) = r
      BY <1>2, <2>2, DueNone
    <3>2. Due(t, e, r) = r
      BY <1>8, <1>9, <2>2, DueNone
    <3> QED BY <3>1, <3>2
  <2> QED BY <2>1, <2>2
<1>12. Increasing(frames')
       /\ \A e \in active \ {1} : \A r \in Nat : Due(frames', e, r) = Due(frames, e, r)
  BY <1>7, <1>10, <1>11
<1>13. pc' \in {"nests", "end"} /\ pc' # "end"
  BY <1>1
<1> QED BY <1>1, <1>12, <1>13, RunCallsKept

\* When the calls are done, the nests have caught up with the coarse domain.
LEMMA CaughtUp ==
  ASSUME TInv, BdyInv, StepsCounted, MothersThere, pc # "check",
         \A p \in Proc : \A e \in active \ {1} : Reckoned(p, e) = Reckoned(p, Mother(e))
  PROVE  \A e \in active \ {1} : Reckons(e)
<1>1. nml \in Namelists /\ active \subseteq Dom /\ Nest = Dom \ {1} /\ Dom \subseteq Nat
      /\ \A d \in Nest : Mother(d) \in 1..(d - 1)
  BY RunNumbers DEF TInv, SetsTyped, Dom
<1>2. SUFFICES ASSUME NEW p \in Proc, NEW x \in active \ {1}, Reckoned(p, x) # Clock
               PROVE  FALSE
  BY DEF Reckons
<1>3. PICK late : late = {e \in active \ {1} : Reckoned(p, e) # Clock}
  OBVIOUS
<1>4. PICK e : e = Least(late)
  OBVIOUS
<1>5. e \in late /\ \A y \in late : e <= y
  BY <1>1, <1>2, <1>3, <1>4, LeastOf
<1>6. e \in active \ {1} /\ Reckoned(p, e) # Clock /\ e \in Nest /\ e \in Nat
  BY <1>1, <1>3, <1>5
<1>7. Mother(e) # 1
  BY <1>6, CoarseTime
<1>8. Mother(e) \in late
  BY <1>3, <1>1, <1>6, MothersActive, <1>7
<1>9. e <= Mother(e)
  BY <1>5, <1>8
<1> QED BY <1>6, <1>1, MothersActive, <1>9

LEMMA RunFeedBack ==
  ASSUME TInv, BdyInv, RunInv, FeedBack
  PROVE  RunInv'
<1>1. /\ nml \in Namelists /\ pc = "nests" /\ Waiting = {} /\ active \subseteq Dom
      /\ Nest = Dom \ {1} /\ Top.nn >= 3 /\ \A d \in Nest : Mother(d) \in Dom
      /\ UNCHANGED <<nml, mem, active>>
  BY RunNumbers DEF FeedBack, TInv, SetsTyped
<1>2. PICK n \in Nat \ {0} :
           /\ n = Len(frames) /\ frames \in Seq(Frame) /\ Top = frames[n]
           /\ \A i \in 1..n : /\ frames[i].mother \in Int /\ frames[i].nn \in 1..3
                              /\ i < n => frames[i].mother < frames[n].mother
           /\ \A e \in active \ {1} : Mother(e) = frames[n].mother => e <= frames[n].last
           /\ Increasing(frames)
  BY <1>1, TopDone
<1>3. pc' = (IF n = 1 THEN "end" ELSE pc) /\ frames' = SubSeq(frames, 1, n - 1)
  BY <1>2 DEF FeedBack, Front
<1>4. PICK t : t = frames'
  OBVIOUS
<1>5. Len(t) = n - 1 /\ Len(t) \in Nat /\ \A i \in 1..(n - 1) : t[i] = frames[i] /\ i \in 1..n /\ i < n
  BY <1>2, <1>3, <1>4
<1>6. Increasing(t) /\ \A i \in 1..Len(t) : t[i].mother \in Int
  BY <1>2, <1>5 DEF Increasing
<1>7. n \in 1..n /\ frames[n].nn = 3
  <2>1. n \in 1..n
    OBVIOUS
  <2> QED BY <1>1, <1>2, <2>1
<1>8. ASSUME NEW e \in active \ {1}, NEW r \in Nat
      PROVE  Due(t, e, r) = Due(frames, e, r)
  <2>1. CASE \E i \in 1..(n - 1) : frames[i].mother = Mother(e)
    <3>1. PICK i \in 1..(n - 1) : frames[i].mother = Mother(e)
      BY <2>1
    <3>2. i \in 1..Len(t) /\ i \in 1..Len(frames) /\ t[i] = frames[i]
      BY <1>2, <1>5, <3>1
    <3>3. Due(t, e, r) = r - DtMin[Mother(e)] + TurnsOf(t[i], e) * DtMin[e]
      <4>1. t[i].mother = Mother(e)
        BY <3>1, <3>2
      <4> QED BY <1>5, <1>6, <3>2, <4>1, DueOne
    <3>4. Due(frames, e, r) = r - DtMin[Mother(e)] + TurnsOf(frames[i], e) * DtMin[e]
      <4>1. Len(frames) \in Nat /\ Increasing(frames)
            /\ \A j \in 1..Len(frames) : frames[j].mother \in Int
        BY <1>2
      <4> QED BY <3>1, <3>2, <4>1, DueOne
    <3> QED BY <3>2, <3>3, <3>4
  <2>2. CASE ~ \E i \in 1..(n - 1) : frames[i].mother = Mother(e)
    <3>1. Due(t, e, r) = r
      <4>1. \A i \in 1..Len(t) : t[i].mother # Mother(e)
        BY <1>5, <2>2
      <4> QED BY <4>1, DueNone
    <3>2. CASE frames[n].mother = Mother(e)
      <4>1. Due(frames, e, r) = r - DtMin[Mother(e)] + TurnsOf(frames[n], e) * DtMin[e]
        <5>1. Len(frames) \in Nat /\ Increasing(frames) /\ n \in 1..Len(frames)
              /\ \A j \in 1..Len(frames) : frames[j].mother \in Int
          BY <1>2, <1>7
        <5> QED BY <3>2, <5>1, DueOne
      <4>2. TurnsOf(frames[n], e) = 3
        BY <1>2, <1>7, <3>2 DEF TurnsOf
      <4>3. 3 * DtMin[e] = DtMin[Mother(e)] /\ DtMin[Mother(e)] \in Nat
        <5>1. e \in Nest /\ Mother(e) \in Dom
          BY <1>1
        <5> QED BY <1>1, <5>1, DtThird, DtMinFacts
      <4> QED BY <3>1, <4>1, <4>2, <4>3
    <3>3. CASE frames[n].mother # Mother(e)
      <4>1. \A i \in 1..n : i \in 1..(n - 1) \/ i = n
        OBVIOUS
      <4>2. \A i \in 1..Len(frames) : frames[i].mother # Mother(e)
        BY <1>2, <2>2, <3>3, <4>1
      <4>3. Due(frames, e, r) = r
        BY <4>2, DueNone
      <4> QED BY <3>1, <4>3
    <3> QED BY <3>2, <3>3
  <2> QED BY <2>1, <2>2
<1>9. ASSUME n = 1
      PROVE  \A e \in active \ {1} : Reckons(e)
  <2>1. ASSUME NEW p \in Proc, NEW e \in active \ {1}
        PROVE  Reckoned(p, e) = Reckoned(p, Mother(e))
    <3>1. PICK r : r = Reckoned(p, Mother(e))
      OBVIOUS
    <3>2. r \in Nat
      <4>1. Mother(e) \in Dom
        BY <1>1
      <4> QED BY <3>1, <4>1, NestTyped
    <3>3. Due(t, e, r) = r
      <4>1. \A i \in 1..Len(t) : t[i].mother # Mother(e)
        BY <1>5, <1>9
      <4> QED BY <4>1, DueNone
    <3>4. Reckoned(p, e) = Due(frames, e, r)
      BY <1>1, <3>1, ExpectedDue DEF RunInv, StepsCounted
    <3> QED BY <1>8, <3>1, <3>2, <3>3, <3>4
  <2> QED BY <1>1, <2>1, CaughtUp DEF RunInv
<1>10. /\ pc' \in {"nests", "end"} /\ (pc' = "end" => \A e \in active \ {1} : Reckons(e))
      /\ Increasing(frames')
      /\ \A e \in active \ {1} : \A r \in Nat : Due(frames', e, r) = Due(frames, e, r)
  BY <1>1, <1>3, <1>4, <1>6, <1>8, <1>9
<1> QED BY <1>1, <1>10, RunCallsKept

\* The clocks of nests that give output are set to the coarse one.
LEMMA OutputSteps ==
  ASSUME TInv, BdyInv, StepsCounted, Output
  PROVE  /\ \A p \in Proc : \A d \in Dom :
              /\ mem'[p][d].ktau = mem[p][d].ktau
              /\ mem'[p][d].xtime = mem[p][d].xtime \/ (d \in active /\ mem'[p][d].xtime = Clock)
         /\ \A p \in Proc : mem'[p][1].xtime = mem[p][1].xtime
<1>1. PICK now : /\ now \subseteq active
                 /\ mem' = [p \in Proc |-> [d \in Dom |->
                              IF d \in now THEN [mem[p][d] EXCEPT !.xtime = mem[p][1].xtime]
                                           ELSE mem[p][d]]]
  BY DEF Output
<1>2. ASSUME NEW p \in Proc, NEW d \in Dom
      PROVE  /\ mem'[p][d].ktau = mem[p][d].ktau
             /\ mem'[p][d].xtime = mem[p][d].xtime \/ (d \in active /\ mem'[p][d].xtime = Clock)
  <2>1. PICK c : c = mem[p][d]
    OBVIOUS
  <2> QED BY <1>1, <2>1, CoarseTime DEF Clocks, TInv, MemTyped
<1>3. \A p \in Proc : mem'[p][1].xtime = mem[p][1].xtime
  <2>1. 1 \in Dom
    BY RunNumbers DEF TInv, SetsTyped
  <2> QED BY CoarseTime, <1>2, <2>1
<1> QED BY <1>2, <1>3

LEMMA RunOutput ==
  ASSUME TInv, BdyInv, RunInv, Output
  PROVE  RunInv'
<1>1. /\ nml \in Namelists /\ pc = "end" /\ pc' = "output" /\ active \subseteq Dom
      /\ Nest = Dom \ {1} /\ 1 \in Dom /\ Monitor \in Proc
      /\ UNCHANGED <<nml, active, frames>>
  BY RunNumbers DEF Output, TInv, SetsTyped
<1>2. /\ \A p \in Proc : \A d \in Dom :
           /\ mem'[p][d].ktau = mem[p][d].ktau
           /\ mem'[p][d].xtime = mem[p][d].xtime \/ (d \in active /\ mem'[p][d].xtime = Clock)
      /\ \A p \in Proc : mem'[p][1].xtime = mem[p][1].xtime
  BY OutputSteps DEF RunInv
<1>3. /\ \A d : /\ Mother(d)' = Mother(d) /\ XStNes(d)' = XStNes(d) /\ XEnNes(d)' = XEnNes(d)
                /\ ActTime(d)' = ActTime(d)
      /\ Step' = Step /\ DtMin' = DtMin
  BY <1>1, NamelistKept
<1>4. Clock' = Clock /\ KTau(1)' = KTau(1)
  BY <1>1, <1>2 DEF Clock, XTime, KTau
<1>5. \A p \in Proc : \A d \in Dom : Reckoned(p, d)' = Reckoned(p, d)
  BY <1>2, <1>3 DEF Reckoned
<1>6. \A d \in active \ {1} : \A p \in Proc : Reckoned(p, d) = Clock
  BY <1>1 DEF RunInv, StepsCounted, Reckons
<1>7. NestsOfTheTime'
  BY <1>1, <1>4, SettlingKept DEF RunInv
<1>8. MothersThere'
  BY <1>1, MothersActiveNext DEF RunInv
<1>9. ClocksStopped'
  <2>1. \A d \in Nest \ active : XTime(d)' = XTime(d)
    BY <1>1, <1>2 DEF XTime
  <2> QED BY <1>1, <1>3, <2>1 DEF RunInv, ClocksStopped, Even
<1>10. ClocksOfNests'
  <2>1. ASSUME NEW p \in Proc, NEW d \in active \ {1}
        PROVE  ClockOf(d, mem[p][d])'
    <3>1. d \in Dom
      BY <1>1
    <3>2. ClockOf(d, mem[p][d])
      BY DEF RunInv, ClocksOfNests
    <3>3. CASE mem'[p][d].xtime = mem[p][d].xtime
      BY <1>2, <1>3, <3>1, <3>2, <3>3 DEF ClockOf
    <3>4. CASE mem'[p][d].xtime = Clock
      <4>1. mem'[p][d].xtime = ActTime(d) + mem'[p][d].ktau * DtMin[d]
        BY <1>2, <1>6, <3>1, <3>4 DEF Reckoned
      <4> QED BY <1>3, <4>1 DEF ClockOf
    <3> QED BY <1>2, <3>1, <3>3, <3>4
  <2> QED BY <1>1, <2>1 DEF ClocksOfNests
<1>11. StepsCounted'
  <2>1. \A p \in Proc : mem'[p][1].ktau = KTau(1)'
    BY <1>1, <1>2, <1>4 DEF RunInv, StepsCounted
  <2>2. \A d \in active \ {1} : Reckons(d)'
    BY <1>1, <1>4, <1>5, <1>6 DEF Reckons
  <2> QED BY <1>1, <2>1, <2>2 DEF StepsCounted
<1>12. CallsInOrder' /\ AllGone'
  BY <1>1 DEF RunInv, CallsInOrder, AllGone
<1> QED BY <1>7, <1>8, <1>9, <1>10, <1>11, <1>12 DEF RunInv

LEMMA RunWriteOutput ==
  ASSUME TInv, BdyInv, RunInv, WriteOutput
  PROVE  RunInv'
<1>1. PICK d : d = Least(outs)
  OBVIOUS
<1>2. /\ pc = "output" /\ outs # {} /\ UNCHANGED <<nml, pc, active, frames, check>>
      /\ mem' = [mem EXCEPT ![Monitor][d].itap = Suffix(d, @)]
  BY <1>1 DEF WriteOutput
<1>3. d \in Dom
  BY <1>1, <1>2, LeastDomain DEF TInv, SetsTyped
<1>4. TimesKept
  BY <1>2, <1>3, CountKeeps
<1>5. NestsOfTheTime' /\ MothersThere'
  <2>1. Clock' = Clock
    BY <1>4, TimesStay DEF TInv, SetsTyped
  <2> QED BY <1>2, <2>1, NamelistKept, MothersActiveNext DEF RunInv, NestsOfTheTime, Settled, TakesPart
<1> QED BY <1>2, <1>4, <1>5, RunMoves

\* Where nothing of the model's clocks and nests changes.
LEMMA RunStays ==
  ASSUME TInv, BdyInv, RunInv, UNCHANGED <<nml, pc, mem, active, frames, check>>
  PROVE  RunInv'
<1>1. /\ \A d : /\ Mother(d)' = Mother(d) /\ XStNes(d)' = XStNes(d) /\ XEnNes(d)' = XEnNes(d)
                /\ ActTime(d)' = ActTime(d) /\ DeactTime(d)' = DeactTime(d)
      /\ Step' = Step /\ DtMin' = DtMin
  BY NamelistKept
<1>2. Clock' = Clock /\ \A d : XTime(d)' = XTime(d) /\ KTau(d)' = KTau(d)
  BY DEF Clock, XTime, KTau
<1>3. \A p, d : Reckoned(p, d)' = Reckoned(p, d)
  BY <1>1 DEF Reckoned
<1>4. NestsOfTheTime' /\ AllGone' /\ CallsInOrder'
  BY <1>1, <1>2 DEF RunInv, NestsOfTheTime, Unsettled, Settled, TakesPart, AllGone, CallsInOrder
<1>5. ClocksStopped' /\ ClocksOfNests'
  BY <1>1, <1>2 DEF RunInv, ClocksStopped, ClocksOfNests, Even, ClockOf
<1>6. \A d : Reckons(d)' <=> Reckons(d)
  BY <1>2, <1>3 DEF Reckons
<1>7. MothersThere'
  <2>1. ASSUME NEW d \in active \ {1}
        PROVE  MotherThere(d)'
    <3>1. PICK m : m = Mother(d) /\ m = Mother(d)'
      BY <1>1
    <3>2. MotherThere(d)
      BY DEF RunInv, MothersThere
    <3>3. Reckons(Mother(d))' <=> Reckons(m)
      BY <1>6, <3>1
    <3>4. XTime(Mother(d))' = XTime(m)
      BY <1>2, <3>1
    <3> QED BY <1>2, <3>1, <3>2, <3>3, <3>4 DEF MotherThere
  <2> QED BY <2>1 DEF MothersThere
<1>8. StepsCounted'
  <2>1. ASSUME NEW p \in Proc, NEW d \in active \ {1}, pc = "nests"
        PROVE  Reckoned(p, d)' = Expected(p, d)'
    <3>1. PICK m, r : m = Mother(d) /\ m = Mother(d)' /\ r = Reckoned(p, m)
      BY <1>1
    <3>2. Reckoned(p, Mother(d))' = r
      BY <1>3, <3>1
    <3>3. Expected(p, d)' = Due(frames, d, r) /\ Expected(p, d) = Due(frames, d, r)
      BY <3>1, <3>2, ExpectedDue
    <3>4. Reckoned(p, d) = Expected(p, d)
      BY <2>1 DEF RunInv, StepsCounted
    <3> QED BY <1>3, <3>3, <3>4
  <2> QED BY <1>2, <1>6, <2>1 DEF RunInv, StepsCounted
<1> QED BY <1>4, <1>5, <1>7, <1>8 DEF RunInv

LEMMA RunSave ==
  ASSUME TInv, BdyInv, RunInv, NEW p \in Proc, Save(p)
  PROVE  RunInv'
BY RunStays DEF Save

\* A step later, the nests are those of the time or about to be.
LEMMA SettledStep ==
  ASSUME TInv, BdyInv, StepsCounted, NEW d \in Nest, Settled(d, Clock - Step)
  PROVE  Unsettled(d)
<1>1. /\ nml \in Namelists /\ Step \in Nat \ {0} /\ KTau(1) \in Nat /\ Clock \in Nat
      /\ Clock = KTau(1) * Step
  BY CoarseTime
<1>2. ActTime(d) \in Nat /\ DeactTime(d) \in Nat
  BY <1>1, NestTimes
<1>3. PICK a \in Nat : ActTime(d) = a * Step
  BY <1>1, NestTimes
<1>4. PICK e \in Nat : DeactTime(d) = e * Step
  BY <1>1, NestTimes
<1>5. PICK k \in Nat : k = KTau(1)
  BY <1>1
<1>6. ActTime(d) < Clock => ActTime(d) <= Clock - Step
  <2>1. ActTime(d) < Clock => ActTime(d) + Step <= Clock
    <3>1. a * Step < k * Step => a < k
      BY <1>1, StepsApart
    <3> QED BY <1>1, <1>3, <1>5, <3>1, StepsApart
  <2> QED BY <1>1, <1>2, <2>1
<1>7. Clock - Step < DeactTime(d) => Clock <= DeactTime(d)
  <2>1. DeactTime(d) < Clock => DeactTime(d) + Step <= Clock
    <3>1. e * Step < k * Step => e < k
      BY <1>1, StepsApart
    <3> QED BY <1>1, <1>4, <1>5, <3>1, StepsApart
  <2> QED BY <1>1, <1>2, <2>1
<1> QED BY <1>1, <1>2, <1>6, <1>7 DEF Settled, TakesPart, Unsettled

LEMMA RunNextStep ==
  ASSUME TInv, BdyInv, RunInv, NextStep
  PROVE  RunInv'
<1>1. nml \in Namelists /\ pc = "output" /\ nml' = nml
  BY DEF NextStep, TInv, SetsTyped
<1>2. CASE GoDown
  BY <1>1, <1>2, RunDown DEF GoDown
<1>3. CASE pc' = "loop" /\ UNCHANGED <<mem, active, frames, check>>
  <2>1. TimesKept
    BY <1>1, <1>3 DEF TimesKept
  <2>2. Clock' = Clock
    BY <1>1, <2>1, TimesStay
  <2>3. \A d : ActTime(d)' = ActTime(d) /\ DeactTime(d)' = DeactTime(d)
    BY <1>1, NamelistKept
  <2>4. \A d \in Nest : Unsettled(d)
    BY <1>1, SettledStep DEF RunInv, NestsOfTheTime
  <2>5. NestsOfTheTime'
    BY <1>3, <2>2, <2>3, <2>4 DEF NestsOfTheTime, Unsettled
  <2>6. MothersThere'
    BY <1>1, <1>3, MothersActiveNext DEF RunInv
  <2> QED BY <1>1, <1>3, <2>1, <2>5, <2>6, RunMoves
<1> QED BY <1>2, <1>3 DEF NextStep

LEMMA RunCrash ==
  ASSUME TInv, Crash
  PROVE  RunInv'
BY RunDown DEF Crash, GoDown, TInv, SetsTyped

-------------------------------------------------------------------------------
(* Restart files *)

\* SAVTIM is a multiple of SAVFRQ, the first one that the steps have not
\* reached, and what is being saved is of such a time.
SavTimed ==
  pc # "down" =>
    /\ \E k \in Nat \ {0} : sav = k * nml.savfrq
    /\ KTau(1) < Nint(sav, Step) \/ (pc \in {"nests", "end"} /\ KTau(1) = Nint(sav, Step))
Saving == (\E p \in Proc : saving[p] # {}) => SavesAt(nml, Clock)

\* A restart file has the clock of its domain at a time of restart files, one
\* at which the domain took part.
FileOf(f, t) ==
  /\ SavesAt(nml, t)
  /\ f.name = (IF nml.svlast THEN 0 ELSE Nint(t, nml.minute))
  /\ ActTime(f.d) + f.mem.ktau * DtMin[f.d] = t
  /\ f.d \in Nest => ClockOf(f.d, f.mem) /\ ActTime(f.d) < t /\ t <= DeactTime(f.d)
FilesRight ==
  /\ \A f \in files : f.whole => \E t \in Nat : FileOf(f, t)
  /\ \A f \in files : \A g \in files : f.p = g.p /\ f.d = g.d /\ f.name = g.name => f = g
SavInv == SavTimed /\ Saving /\ FilesRight

LEMMA FileOfKept ==
  ASSUME nml' = nml, NEW f, NEW t
  PROVE  FileOf(f, t)' <=> FileOf(f, t)
<1> QED BY NamelistKept DEF FileOf, ClockOf

\* Files that are new are whole ones of a time, or not whole; each replaces
\* what has its name.
LEMMA FilesStay ==
  ASSUME FilesRight, nml' = nml,
         \A f \in files' : f \in files \/ (f.whole => \E t \in Nat : FileOf(f, t)),
         \A f \in files' : \A g \in files' :
           f.p = g.p /\ f.d = g.d /\ f.name = g.name => f = g \/ (f \in files /\ g \in files)
  PROVE  FilesRight'
<1>1. ASSUME NEW f \in files', f.whole
      PROVE  \E t \in Nat : FileOf(f, t)'
  <2>1. PICK t \in Nat : FileOf(f, t)
    BY <1>1 DEF FilesRight
  <2>2. FileOf(f, t)'
    BY <2>1, FileOfKept
  <2> QED BY <2>2
<1> QED BY <1>1 DEF FilesRight

LEMMA SavMoves ==
  ASSUME SavInv, pc # "down", UNCHANGED <<nml, files, sav, saving>>,
         KTau(1)' = KTau(1), Clock' = Clock, pc \in {"nests", "end"} => pc' \in {"nests", "end"}
  PROVE  SavInv'
<1>1. Step' = Step
  BY NamelistKept
<1>2. SavTimed'
  BY <1>1 DEF SavInv, SavTimed
<1>3. Saving'
  BY DEF SavInv, Saving
<1>4. FilesRight'
  BY FilesStay DEF SavInv
<1> QED BY <1>2, <1>3, <1>4 DEF SavInv

LEMMA SavDown ==
  ASSUME GoDown, FilesRight'
  PROVE  SavInv'
BY DEF GoDown, SavInv, SavTimed, Saving

LEMMA SavInit == Init => SavInv
BY DEF Init, SavInv, SavTimed, Saving, FilesRight

LEMMA SavStart ==
  ASSUME TInv, BdyInv, RunInv, SavInv, Start
  PROVE  SavInv'
<1>1. /\ pc = "down" /\ UNCHANGED <<nml, files, mem, saving>>
      /\ sav' = FirstAfter(nml.savfrq, 0)
  BY DEF Start
<1>2. KTau(1)' = 0
  BY RunNumbers, <1>1 DEF RunInv, AllGone, KTau, Zero, TInv, SetsTyped
<1>3. \E k \in Nat \ {0} : sav' = k * nml.savfrq /\ Nint(sav', Step) > 0
  <2>1. PICK k \in Nat \ {0} : FirstAfter(nml.savfrq, 0) = k * nml.savfrq /\ Nint(k * nml.savfrq, Step) > 0
    BY RunNumbers, SaveNumbers, FirstAfterFacts DEF TInv, SetsTyped
  <2> QED BY <1>1, <2>1
<1>4. Step' = Step
  BY <1>1, NamelistKept
<1>5. SavTimed'
  BY <1>1, <1>2, <1>3, <1>4 DEF SavTimed
<1>6. Saving'
  BY <1>1 DEF Saving, TInv, SetsTyped
<1>7. FilesRight'
  BY <1>1, FilesStay DEF SavInv
<1> QED BY <1>5, <1>6, <1>7 DEF SavInv

LEMMA SavSolveCoarse ==
  ASSUME TInv, BdyInv, RunInv, SavInv, SolveCoarse
  PROVE  SavInv'
<1>1. nml \in Namelists /\ Monitor \in Proc /\ 1 \in Dom /\ Step \in Nat \ {0}
  BY RunNumbers DEF TInv, SetsTyped
<1>2. /\ pc = "solve" /\ pc' \in {"nests", "end"} /\ UNCHANGED <<nml, files, sav, saving>>
      /\ Solved(1)
  BY DEF SolveCoarse
<1>3. KTau(1)' = KTau(1) + 1 /\ KTau(1) \in Nat
  BY <1>1, <1>2, SolvedSteps, TimeTyped DEF KTau
<1>4. PICK k \in Nat \ {0} : sav = k * nml.savfrq
  BY <1>2 DEF SavInv, SavTimed
<1>5. Nint(sav, Step) \in Nat
  <2>1. nml.savfrq \in Nat
    BY <1>1, SaveNumbers
  <2>2. sav \in Nat
    BY <1>4, <2>1
  <2> QED BY <1>1, <2>2, NintBounds
<1>6. KTau(1) < Nint(sav, Step)
  BY <1>2 DEF SavInv, SavTimed
<1>7. KTau(1)' < Nint(sav, Step) \/ KTau(1)' = Nint(sav, Step)
  BY <1>3, <1>5, <1>6
<1>8. Step' = Step
  BY <1>2, NamelistKept
<1>9. SavTimed'
  BY <1>2, <1>4, <1>7, <1>8 DEF SavTimed
<1>10. Saving'
  BY <1>2 DEF Saving, TInv, SetsTyped
<1>11. FilesRight'
  BY <1>2, FilesStay DEF SavInv
<1> QED BY <1>9, <1>10, <1>11 DEF SavInv

LEMMA SavOutput ==
  ASSUME TInv, BdyInv, RunInv, SavInv, Output
  PROVE  SavInv'
<1>1. nml \in Namelists /\ Monitor \in Proc /\ 1 \in Dom /\ Step \in Nat \ {0}
  BY RunNumbers DEF TInv, SetsTyped
<1>2. PICK due \in BOOLEAN : due <=> (KTau(1) >= Nint(sav, Step))
  OBVIOUS
<1>3. /\ pc = "end" /\ pc' = "output" /\ UNCHANGED <<nml, files>>
      /\ saving' = [p \in Proc |-> IF due THEN active ELSE {}]
      /\ sav' = IF due THEN sav + nml.savfrq ELSE sav
  BY <1>2 DEF Output
<1>4. /\ KTau(1) \in Nat /\ Clock = KTau(1) * Step
      /\ Clock' = Clock /\ KTau(1)' = KTau(1)
  <2>1. KTau(1) \in Nat /\ Clock = KTau(1) * Step
    BY CoarseTime DEF RunInv
  <2>2. \A p \in Proc : mem'[p][1].ktau = mem[p][1].ktau /\ mem'[p][1].xtime = mem[p][1].xtime
    BY <1>1, OutputSteps DEF RunInv
  <2> QED BY <1>1, <2>1, <2>2 DEF Clock, XTime, KTau
<1>5. PICK k \in Nat \ {0} : sav = k * nml.savfrq
  BY <1>3 DEF SavInv, SavTimed
<1>6. nml.savfrq \in Nat /\ nml.savfrq >= Step /\ sav \in Nat
  <2>1. nml.savfrq \in Nat /\ nml.savfrq >= Step
    BY <1>1, SaveNumbers
  <2> QED BY <1>5, <2>1
<1>7. Nint(sav, Step) \in Nat
  BY <1>1, <1>6, NintBounds
<1>8. Step' = Step /\ (KTau(1) < Nint(sav, Step) \/ KTau(1) = Nint(sav, Step))
  BY <1>3, NamelistKept DEF SavInv, SavTimed
<1>9. SavTimed'
  <2>1. CASE due
    <3>1. KTau(1) = Nint(sav, Step)
      BY <1>2, <1>4, <1>7, <1>8, <2>1
    <3>2. sav' = (k + 1) * nml.savfrq
      BY <1>3, <1>5, <1>6, <2>1
    <3>3. Nint(sav, Step) < Nint(sav', Step)
      <4>1. PICK s : s = sav'
        OBVIOUS
      <4>2. s \in Nat /\ sav + Step <= s
        BY <1>1, <1>3, <1>6, <2>1, <4>1
      <4> QED BY <1>1, <1>6, <4>1, <4>2, NintOrder
    <3>4. k + 1 \in Nat \ {0}
      OBVIOUS
    <3> QED BY <1>3, <1>4, <1>8, <3>1, <3>2, <3>3, <3>4 DEF SavTimed
  <2>2. CASE ~ due
    <3>1. KTau(1) < Nint(sav, Step)
      BY <1>2, <1>4, <1>7, <2>2
    <3> QED BY <1>3, <1>4, <1>5, <1>8, <2>2, <3>1 DEF SavTimed
  <2> QED BY <2>1, <2>2
<1>10. Saving'
  <2>1. CASE due
    <3>1. KTau(1) = Nint(k * nml.savfrq, Step)
      BY <1>2, <1>4, <1>5, <1>7, <1>8, <2>1
    <3>2. SavesAt(nml, KTau(1) * Step)
      BY <1>1, <1>4, <3>1, SaveTimeOf
    <3> QED BY <1>3, <1>4, <3>2 DEF Saving
  <2>2. CASE ~ due
    BY <1>3, <2>2 DEF Saving
  <2> QED BY <2>1, <2>2
<1>11. FilesRight'
  BY <1>3, FilesStay DEF SavInv
<1> QED BY <1>9, <1>10, <1>11 DEF SavInv

\* Most steps are not the coarse domain's.
LEMMA CoarseSteps ==
  ASSUME TInv, BdyInv, RunInv,
         CheckSkips \/ Deactivate \/ Activate \/ SolveNest \/ NextTurn \/ FeedBack \/ WriteOutput
  PROVE  KTau(1)' = KTau(1) /\ Clock' = Clock
<1>1. nml \in Namelists /\ Monitor \in Proc /\ 1 \in Dom /\ Nest = Dom \ {1} /\ active \subseteq Dom
  BY RunNumbers DEF TInv, SetsTyped
<1>2. SUFFICES /\ mem'[Monitor][1].ktau = mem[Monitor][1].ktau
               /\ mem'[Monitor][1].xtime = mem[Monitor][1].xtime
  BY DEF KTau, Clock, XTime
<1>3. CASE mem' = mem
  BY <1>3
<1>4. CASE Deactivate /\ mem' # mem
  <2>1. PICK d : d = check
    OBVIOUS
  <2>2. TimesKept
    BY <1>1, <1>4, <2>1, CountKeeps DEF Deactivate
  <2> QED BY <1>1, <2>2 DEF TimesKept
<1>5. CASE Activate
  BY <1>1, <1>5 DEF Activate, TInv, MemTyped
<1>6. CASE SolveNest
  <2>1. PICK d : d = Least(Waiting)
    OBVIOUS
  <2>2. d \in Dom /\ d # 1
    BY <2>1, <1>6, <1>1, LeastDomain DEF Waiting, Children, SolveNest
  <2> QED BY <1>1, <1>6, <2>1, <2>2, SolvedSteps DEF SolveNest
<1>7. CASE WriteOutput
  <2>1. PICK d : d = Least(outs)
    OBVIOUS
  <2>2. TimesKept
    BY <1>7, <2>1, <1>1, LeastDomain, CountKeeps DEF WriteOutput, TInv, SetsTyped
  <2> QED BY <1>1, <2>2 DEF TimesKept
<1> QED BY <1>3, <1>4, <1>5, <1>6, <1>7 DEF CheckSkips, NextTurn, FeedBack

LEMMA SavQuiet ==
  ASSUME TInv, BdyInv, RunInv, SavInv,
         CheckSkips \/ Deactivate \/ Activate \/ SolveNest \/ NextTurn \/ FeedBack \/ WriteOutput
  PROVE  SavInv'
<1>1. /\ pc # "down" /\ UNCHANGED <<nml, files, sav, saving>>
      /\ pc \in {"nests", "end"} => pc' \in {"nests", "end"}
  BY DEF CheckSkips, Deactivate, Activate, SolveNest, NextTurn, FeedBack, WriteOutput, NextCheck
<1>2. KTau(1)' = KTau(1) /\ Clock' = Clock
  BY CoarseSteps
<1> QED BY <1>1, <1>2, SavMoves

LEMMA SavReadBoundary ==
  ASSUME TInv, SavInv, ReadBoundary
  PROVE  SavInv'
<1>1. pc = "loop" /\ UNCHANGED <<nml, files>>
      /\ (GoDown \/ UNCHANGED <<mem, sav, saving>>)
  BY DEF ReadBoundary
<1>2. CASE GoDown
  <2>1. FilesRight'
    BY <1>1, FilesStay DEF SavInv
  <2> QED BY <1>2, <2>1, SavDown
<1>3. CASE UNCHANGED <<mem, sav, saving>>
  BY <1>1, <1>3, SavMoves DEF KTau, Clock, XTime
<1> QED BY <1>1, <1>2, <1>3

LEMMA SavNextStep ==
  ASSUME TInv, SavInv, NextStep
  PROVE  SavInv'
<1>1. pc = "output" /\ UNCHANGED <<nml, files>>
      /\ (GoDown \/ UNCHANGED <<mem, sav, saving>>)
  BY DEF NextStep
<1>2. CASE GoDown
  <2>1. FilesRight'
    BY <1>1, FilesStay DEF SavInv
  <2> QED BY <1>2, <2>1, SavDown
<1>3. CASE UNCHANGED <<mem, sav, saving>>
  BY <1>1, <1>3, SavMoves DEF KTau, Clock, XTime
<1> QED BY <1>1, <1>2, <1>3

\* Each processor saves the fields it has, which are of the time.
LEMMA SavedNow ==
  ASSUME TInv, BdyInv, RunInv, SavInv, pc = "output", NEW p \in Proc, NEW d \in active,
         SavesAt(nml, Clock), NEW f, f.d = d, f.name = SaveName, f.mem = mem[p][d]
  PROVE  FileOf(f, Clock) /\ Clock \in Nat
<1>1. /\ nml \in Namelists /\ Step \in Nat \ {0} /\ Clock \in Nat
      /\ active \subseteq Dom /\ Nest = Dom \ {1} /\ d \in Dom
      /\ \A q \in Proc : Reckoned(q, 1) = Clock
  BY CoarseTime, RunNumbers DEF TInv, SetsTyped, RunInv
<1>2. f.name = IF nml.svlast THEN 0 ELSE Nint(Clock, nml.minute)
  BY DEF SaveName
<1>3. Reckoned(p, d) = Clock
  <2>1. d # 1 => Reckoned(p, d) = Clock
    BY DEF RunInv, StepsCounted, Reckons
  <2> QED BY <1>1, <2>1
<1>4. ActTime(f.d) + f.mem.ktau * DtMin[f.d] = Clock
  BY <1>3 DEF Reckoned
<1>5. d \in Nest => ClockOf(d, mem[p][d]) /\ ActTime(d) < Clock /\ Clock <= DeactTime(d)
  <2> SUFFICES ASSUME d \in Nest
               PROVE  ClockOf(d, mem[p][d]) /\ ActTime(d) < Clock /\ Clock <= DeactTime(d)
    OBVIOUS
  <2>1. ClockOf(d, mem[p][d])
    BY <1>1 DEF RunInv, ClocksOfNests
  <2>2. Settled(d, Clock - Step)
    BY DEF RunInv, NestsOfTheTime
  <2>3. ActTime(d) <= Clock - Step /\ ActTime(d) \in Nat
    BY <1>1, <2>2, NestTimes DEF Settled, TakesPart
  <2>4. Clock <= DeactTime(d)
    BY <2>2, SettledStep DEF RunInv, Unsettled
  <2> QED BY <1>1, <2>1, <2>3, <2>4
<1> QED BY <1>1, <1>2, <1>4, <1>5 DEF FileOf

LEMMA SavSave ==
  ASSUME TInv, BdyInv, RunInv, SavInv, NEW p \in Proc, Save(p)
  PROVE  SavInv'
<1>1. PICK d : d = Least(saving[p])
  OBVIOUS
<1>2. /\ pc = "output" /\ saving[p] # {} /\ UNCHANGED <<nml, mem, pc, sav>>
      /\ saving' = [saving EXCEPT ![p] = @ \ {d}]
      /\ files' = files \/ files' = SaveFile(p, d, TRUE)
  BY <1>1 DEF Save
<1>3. d \in active
  <2>1. saving[p] \in SUBSET Dom /\ saving[p] \subseteq active
    BY DEF TInv, SetsTyped
  <2>2. d \in saving[p]
    BY <1>1, <1>2, <2>1, LeastDomain
  <2> QED BY <2>1, <2>2
<1>4. SavesAt(nml, Clock)
  BY <1>2 DEF SavInv, Saving
<1>5. Clock' = Clock /\ KTau(1)' = KTau(1) /\ Step' = Step
  BY <1>2 DEF Clock, XTime, KTau, Step
<1>6. SavTimed'
  BY <1>2, <1>5 DEF SavInv, SavTimed
<1>7. Saving'
  BY <1>2, <1>4, <1>5 DEF Saving
<1>8. FilesRight'
  <2>1. CASE files' = files
    BY <1>2, <2>1, FilesStay DEF SavInv
  <2>2. CASE files' = SaveFile(p, d, TRUE)
    <3>1. PICK n : n = [p |-> p, d |-> d, name |-> SaveName, whole |-> TRUE, mem |-> mem[p][d]]
      OBVIOUS
    <3>2. files' = Overwritten(p, d) \union {n}
      BY <2>2, <3>1 DEF SaveFile
    <3>3. n.p = p /\ n.d = d /\ n.name = SaveName /\ n.mem = mem[p][d]
      BY <3>1
    <3>4. \E t \in Nat : FileOf(n, t)
      BY <1>2, <1>3, <1>4, <3>3, SavedNow
    <3>5. \A f \in files' : f \in files \/ (f.whole => \E t \in Nat : FileOf(f, t))
      BY <3>2, <3>4 DEF Overwritten
    <3>6. \A f \in files' : \A g \in files' :
            f.p = g.p /\ f.d = g.d /\ f.name = g.name => f = g \/ (f \in files /\ g \in files)
      BY <3>2, <3>3 DEF Overwritten
    <3> QED BY <1>2, <3>5, <3>6, FilesStay DEF SavInv
  <2> QED BY <1>2, <2>1, <2>2
<1> QED BY <1>6, <1>7, <1>8 DEF SavInv

\* A crash leaves a torn file, if any, in place of the one of its name.
LEMMA SavCrash ==
  ASSUME TInv, SavInv, Crash
  PROVE  SavInv'
<1>1. GoDown /\ nml' = nml
  BY CrashFacts
<1>2. PICK torn : files' = {f \in files : ~ \E p \in torn : f.p = p /\ f.d = Least(saving[p])
                                                         /\ f.name = SaveName}
                           \union {[p |-> p, d |-> Least(saving[p]), name |-> SaveName,
                                    whole |-> FALSE, mem |-> Zero] : p \in torn}
  BY DEF Crash
<1>3. ASSUME NEW f \in files', NEW g \in files', f.p = g.p, f.d = g.d, f.name = g.name
      PROVE  f = g \/ (f \in files /\ g \in files)
  <2>1. \A h \in files' :
           \/ h \in files /\ ~ \E p \in torn : h.p = p /\ h.d = Least(saving[p]) /\ h.name = SaveName
           \/ \E p \in torn : h = [p |-> p, d |-> Least(saving[p]), name |-> SaveName,
                                   whole |-> FALSE, mem |-> Zero]
    BY <1>2
  <2>2. CASE \E p \in torn : f = [p |-> p, d |-> Least(saving[p]), name |-> SaveName,
                                  whole |-> FALSE, mem |-> Zero]
    <3>1. PICK p \in torn : f = [p |-> p, d |-> Least(saving[p]), name |-> SaveName,
                                 whole |-> FALSE, mem |-> Zero]
      BY <2>2
    <3>2. PICK q \in torn : g = [p |-> q, d |-> Least(saving[q]), name |-> SaveName,
                                 whole |-> FALSE, mem |-> Zero]
      BY <1>3, <2>1, <3>1
    <3> QED BY <3>1, <3>2, <1>3
  <2>3. CASE f \in files /\ ~ \E p \in torn : f.p = p /\ f.d = Least(saving[p])
                                              /\ f.name = SaveName
    <3>1. CASE g \in files
      BY <2>3, <3>1
    <3>2. CASE g \notin files
      <4>1. PICK q \in torn : g = [p |-> q, d |-> Least(saving[q]), name |-> SaveName,
                                   whole |-> FALSE, mem |-> Zero]
        BY <2>1, <3>2
      <4> QED BY <1>3, <2>3, <4>1
    <3> QED BY <3>1, <3>2
  <2> QED BY <2>1, <2>2, <2>3
<1>4. FilesRight'
  BY <1>1, <1>2, <1>3, FilesStay DEF SavInv
<1> QED BY <1>1, <1>4, SavDown

-------------------------------------------------------------------------------
(* Going on *)

\* No such time is that of the file of SVLAST, 0 minutes.
LEMMA SaveNamed ==
  ASSUME nml \in Namelists, NEW t, SavesAt(nml, t)
  PROVE  t \in Nat \ {0} /\ Nint(t, nml.minute) \in Nat \ {0}
<1>1. /\ nml.savfrq \in Nat \ {0} /\ nml.savfrq >= Step + nml.minute /\ Step \in Nat \ {0}
      /\ nml.minute \in Nat \ {0}
  BY SaveNumbers
<1>2. PICK k \in Nat \ {0} : t = Nint(k * nml.savfrq, Step) * Step
  BY SaveTime
<1>3. PICK x : x = k * nml.savfrq
  OBVIOUS
<1>4. x \in Nat /\ x >= nml.savfrq
  <2>1. PICK j \in Nat : k = j + 1
    OBVIOUS
  <2> QED BY <1>1, StepsApart, <1>3, <2>1
<1>5. t \in Nat /\ 2 * x < 2 * t + Step
  <2>1. Nint(x, Step) \in Nat /\ 2 * x < 2 * (Nint(x, Step) * Step) + Step
    BY <1>1, <1>4, NintBounds
  <2>2. PICK q : q = Nint(x, Step)
    OBVIOUS
  <2> QED BY <1>1, <2>1, <1>2, <1>3, <2>2
<1>6. t > nml.minute
  BY <1>1, <1>4, <1>5
<1>7. PICK n : n = Nint(t, nml.minute)
  OBVIOUS
<1>8. n \in Nat /\ 2 * t < 2 * (n * nml.minute) + nml.minute
  BY <1>1, <1>5, <1>7, NintBounds
<1> QED BY <1>1, <1>5, <1>6, <1>7, <1>8

\* The clock in a restart file may lag, of a nest that does not begin with a
\* coarse step.
LEMMA FileClock ==
  ASSUME TInv, BdyInv, NEW f \in files, NEW t, FileOf(f, t)
  PROVE  /\ f.mem.xtime \in Nat /\ t \in Nat /\ t - Step < f.mem.xtime /\ f.mem.xtime <= t
         /\ f.d = 1 => f.mem.xtime = t
         /\ f.mem.xtime # t => f.d \in Nest /\ ~ Even(f.d)
<1>1. /\ nml \in Namelists /\ Step \in Nat \ {0} /\ f.d \in Dom /\ Nest = Dom \ {1}
      /\ t \in Nat /\ f.mem \in Clocks
  BY SaveTime, RunNumbers DEF TInv, SetsTyped, FilesTyped, FileOf
<1>2. f.mem.xtime \in Nat /\ f.mem.ktau \in Nat
  BY <1>1 DEF Clocks
<1>3. CASE f.d = 1
  <2>1. ActTime(1) = 0 /\ DtMin[1] = Step
    BY <1>1, DtMinFacts DEF ActTime
  <2>2. 0 + f.mem.ktau * Step = t
    BY <1>3, <2>1 DEF FileOf
  <2>3. f.mem.xtime = f.mem.ktau * Step
    BY <1>3 DEF BdyInv, Clocked
  <2>4. f.mem.xtime = t
    BY <1>1, <1>2, <2>2, <2>3
  <2> QED BY <1>1, <1>2, <2>4
<1>4. CASE f.d # 1
  <2>1. f.d \in Nest
    BY <1>1, <1>4
  <2>2. PICK x, a, b : x = f.mem.ktau * DtMin[f.d] /\ a = ActTime(f.d) /\ b = XStNes(f.d)
    OBVIOUS
  <2>3. x \in Nat
    <3>1. DtMin[f.d] \in Nat
      BY <1>1, DtMinFacts
    <3> QED BY <1>2, <2>2, <3>1
  <2>4. a \in Nat /\ b \in Nat /\ b <= a /\ a < b + Step /\ (Even(f.d) => a = b)
    BY <1>1, <2>1, <2>2, NestTimes
  <2>5. a + x = t /\ (f.mem.xtime = b + x \/ f.mem.xtime = a + x)
    BY <2>1, <2>2 DEF FileOf, ClockOf
  <2> QED BY <1>1, <1>2, <1>4, <2>1, <2>3, <2>4, <2>5
<1> QED BY <1>3, <1>4

\* What is read has the time asked for, and there is no other such file.
LEMMA ReadFile ==
  ASSUME FilesRight, NEW p, NEW d, NEW ixtimr, Readable(p, d, ixtimr)
  PROVE  \E f \in files : /\ f = CHOOSE g \in ToOpen(p, d, ixtimr) : TRUE
                          /\ f.p = p /\ f.d = d /\ f.name \in {ixtimr, 0} /\ f.whole
                          /\ Nint(f.mem.xtime, nml.minute) = ixtimr
<1>1. PICK f \in ToOpen(p, d, ixtimr) : f.whole /\ Nint(f.mem.xtime, nml.minute) = ixtimr
  BY DEF Readable
<1>2. PICK name \in {ixtimr, 0} : ToOpen(p, d, ixtimr) = Named(p, d, name)
  BY DEF ToOpen
<1> QED BY <1>1, <1>2 DEF Named, FilesRight

\* Two files that are read at the same restart are of one time.
LEMMA SameTime ==
  ASSUME TInv, BdyInv, NEW f \in files, NEW g \in files, NEW t, NEW u, FileOf(f, t), FileOf(g, u),
         NEW ixtimr, f.name \in {ixtimr, 0}, g.d = 1, g.name \in {ixtimr, 0},
         Nint(f.mem.xtime, nml.minute) = ixtimr, Nint(g.mem.xtime, nml.minute) = ixtimr
  PROVE  t = u /\ Nint(u, nml.minute) = ixtimr
<1>1. /\ nml \in Namelists /\ Step \in Nat \ {0} /\ nml.minute \in Nat \ {0}
      /\ nml.savfrq \in Nat /\ nml.savfrq >= Step + nml.minute /\ nml.svlast \in BOOLEAN
  BY SaveNumbers DEF TInv, SetsTyped
<1>2. SavesAt(nml, t) /\ SavesAt(nml, u)
  BY DEF FileOf
<1>3. /\ f.mem.xtime \in Nat /\ t \in Nat /\ t - Step < f.mem.xtime /\ f.mem.xtime <= t
      /\ f.mem.xtime # t => f.d \in Nest /\ ~ Even(f.d)
  BY FileClock
<1>4. g.mem.xtime = u /\ u \in Nat
  BY FileClock
<1>5. Nint(u, nml.minute) = ixtimr
  BY <1>4
<1>6. t < u => Nint(t, nml.minute) < Nint(u, nml.minute) /\ t + nml.savfrq - Step < u
  BY <1>1, <1>2, SavesApart
<1>7. u < t => Nint(u, nml.minute) < Nint(t, nml.minute) /\ u + nml.savfrq - Step < t
  BY <1>1, <1>2, SavesApart
<1>8. Nint(t, nml.minute) \in Nat /\ Nint(u, nml.minute) \in Nat
  BY <1>1, <1>3, <1>4, NintBounds
<1>9. CASE Nint(t, nml.minute) = ixtimr
  BY <1>3, <1>4, <1>5, <1>6, <1>7, <1>8, <1>9
<1>10. CASE Nint(t, nml.minute) # ixtimr
  <2>1. nml.svlast
    <3>1. ~ nml.svlast => f.name = Nint(t, nml.minute)
      BY DEF FileOf
    <3>2. Nint(t, nml.minute) # 0
      BY <1>1, <1>2, SaveNamed
    <3> QED BY <1>10, <3>1, <3>2
  <2>2. f.mem.xtime # t
    BY <1>10
  <2>3. f.d \in Nest /\ XStNes(f.d) % Step # 0
    BY <1>3, <2>2 DEF Even
  <2>4. nml.savfrq >= 2 * Step + nml.minute
    <3>1. NamelistOK(nml)
      BY <1>1, RunAssumption
    <3> QED BY <2>1, <2>3, <3>1 DEF NamelistOK, Step, XStNes
  <2>5. PICK x, m, s : x = f.mem.xtime /\ m = nml.minute /\ s = Step
    OBVIOUS
  <2>6. x \in Nat /\ m \in Nat \ {0} /\ s \in Nat \ {0} /\ t - s < x /\ x <= t
    BY <1>1, <1>3, <2>5
  <2>7. Nint(x, m) = Nint(u, m)
    BY <1>5, <2>5
  <2>8. ~ t < u
    <3>1. x <= t => Nint(x, m) <= Nint(t, m)
      BY <1>3, <2>6, NintOrder
    <3>2. t < u => Nint(t, m) < Nint(u, m)
      BY <1>6, <2>5
    <3>3. Nint(x, m) \in Nat /\ Nint(t, m) \in Nat /\ Nint(u, m) \in Nat
      BY <1>3, <1>4, <2>6, NintBounds
    <3> QED BY <2>6, <2>7, <3>1, <3>2, <3>3
  <2>9. ~ u < t
    <3>1. u < t => u + m <= x
      BY <1>1, <1>3, <1>4, <1>7, <2>4, <2>5, <2>6
    <3>2. u + m <= x => Nint(u, m) < Nint(x, m)
      BY <1>4, <2>6, NintOrder
    <3>3. Nint(x, m) \in Nat /\ Nint(u, m) \in Nat
      BY <1>4, <2>6, NintBounds
    <3> QED BY <2>7, <3>1, <3>2, <3>3
  <2> QED BY <1>3, <1>4, <1>5, <2>8, <2>9
<1> QED BY <1>9, <1>10

\* INITSAV, which has the time in whole minutes, takes every nest that goes on.
LEMMA GoesOn ==
  ASSUME nml \in Namelists, NEW t, SavesAt(nml, t), NEW d \in Nest, NEW given,
         ActTime(d) < t, t < DeactTime(d)
  PROVE  d \in Corrected(given, Rounded(nml, t))
<1>1. /\ nml.minute \in Nat \ {0} /\ Step \in Nat \ {0} /\ t \in Nat
      /\ XStNes(d) \in Nat /\ XEnNes(d) \in Nat
      /\ ActTime(d) \in Nat /\ XStNes(d) <= ActTime(d)
  BY SaveNumbers, SaveTime, NestTimes
<1>2. t < XEnNes(d)
  <2>1. PICK j \in Nat : t = j * Step
    BY SaveTime
  <2>2. XEnNes(d) <= t <=> DeactTime(d) <= t
    BY <2>1, NestTimes
  <2> QED BY <1>1, <2>2, NestTimes
<1>3. PICK m, r, b, e : /\ m = nml.minute /\ r = Rounded(nml, t)
                        /\ b = XStNes(d) /\ e = XEnNes(d)
  OBVIOUS
<1>4. m \in Nat \ {0} /\ b \in Nat /\ e \in Nat /\ b < t /\ t < e
  BY <1>1, <1>2, <1>3
<1>5. r \in Nat /\ 2 * r <= 2 * t + m /\ 2 * t < 2 * r + m
  <2>1. PICK q : q = Nint(t, m)
    OBVIOUS
  <2>2. q \in Nat /\ 2 * (q * m) <= 2 * t + m /\ 2 * t < 2 * (q * m) + m
    BY <1>1, <1>4, <2>1, NintBounds
  <2>3. r = q * m
    BY <1>3, <2>1 DEF Rounded
  <2> QED BY <1>4, <2>2, <2>3
<1>6. /\ \A u \in (b + 1)..(b + 2 * m) : SavesAt(nml, u) => Rounded(nml, u) > b + m
      /\ \A u \in (e - m)..(e - 1) : SavesAt(nml, u) => Rounded(nml, u) < e
  <2>1. NamelistOK(nml)
    BY RunAssumption
  <2> QED BY <1>3, <2>1 DEF NamelistOK, XStNes, XEnNes
<1>7. r > b + m
  <2>1. CASE t <= b + 2 * m
    BY <1>3, <1>6, <1>1, <1>4, <2>1
  <2>2. CASE ~ (t <= b + 2 * m)
    BY <1>1, <1>4, <1>5, <2>2
  <2> QED BY <2>1, <2>2
<1>8. r < e
  <2>1. CASE t >= e - m
    <3> QED BY <1>3, <1>6, <1>1, <1>4, <2>1
  <2>2. CASE ~ (t >= e - m)
    BY <1>1, <1>4, <1>5, <2>2
  <2> QED BY <2>1, <2>2
<1> QED BY <1>3, <1>4, <1>5, <1>7, <1>8 DEF Corrected, Minutes

\* A nest is taken only with its mother.
LEMMA MothersTaken ==
  ASSUME nml \in Namelists, NEW given \in Givens, NEW r \in Nat, NEW d \in Nest,
         d \in Corrected(given, r)
  PROVE  Mother(d) \in Corrected(given, r)
<1>1. nml.minute \in Nat \ {0} /\ Nest = Dom \ {1} /\ Mother(d) \in Dom
      /\ XStNes(d) \in Nat /\ XEnNes(d) \in Nat
  BY RunNumbers, NestTimes
<1>2. PICK m, b, e : m = nml.minute /\ b = XStNes(d) /\ e = XEnNes(d)
  OBVIOUS
<1>3. Minutes(10) = 10 * m /\ Minutes(1) = 1 * m
  BY <1>2 DEF Minutes
<1>4. IF d \in given THEN ~ (r < b \/ r > e + 10 * m) ELSE r > b + 1 * m /\ r < e
  <2>1. d # 1
    BY <1>1
  <2> QED BY <1>2, <1>3, <2>1 DEF Corrected
<1>5. CASE Mother(d) = 1
  BY <1>5 DEF Corrected
<1>6. CASE Mother(d) # 1
  <2>1. Mother(d) \in Nest
    BY <1>1, <1>6
  <2>2. PICK mb, me : mb = XStNes(Mother(d)) /\ me = XEnNes(Mother(d))
    OBVIOUS
  <2>3. mb \in Nat /\ me \in Nat /\ mb <= b /\ e <= me
    BY <1>2, <1>6, <2>1, <2>2, MotherTimes, NestTimes
  <2>4. d \in given => Mother(d) \in given
    BY <1>6 DEF Givens
  <2>5. IF Mother(d) \in given THEN ~ (r < mb \/ r > me + 10 * m) ELSE r > mb + 1 * m /\ r < me
    BY <1>1, <1>2, <1>4, <2>3, <2>4
  <2> QED BY <1>3, <2>1, <2>2, <2>5 DEF Corrected
<1> QED BY <1>5, <1>6

LEMMA OneTime ==
  ASSUME TInv, BdyInv, SavInv, NEW ixtimr, NEW given, Restartable(ixtimr, given)
  PROVE  \E t \in Nat :
           /\ SavesAt(nml, t) /\ Nint(t, nml.minute) = ixtimr
           /\ \A p \in Proc : \A d \in Corrected(given, Minutes(ixtimr)) :
                \E f \in files : /\ f = CHOOSE g \in ToOpen(p, d, ixtimr) : TRUE
                                 /\ f.d = d /\ FileOf(f, t)
<1>1. nml \in Namelists /\ Monitor \in Proc /\ 1 \in Corrected(given, Minutes(ixtimr)) /\ FilesRight
  BY RunNumbers, CorrectedDom DEF TInv, SetsTyped, SavInv
<1>2. PICK g \in files : /\ g.d = 1 /\ g.name \in {ixtimr, 0} /\ g.whole
                         /\ Nint(g.mem.xtime, nml.minute) = ixtimr
  BY <1>1, ReadFile DEF Restartable
<1>3. PICK t \in Nat : FileOf(g, t)
  BY <1>1, <1>2 DEF FilesRight
<1>4. ASSUME NEW p \in Proc, NEW d \in Corrected(given, Minutes(ixtimr))
      PROVE  \E f \in files : /\ f = CHOOSE h \in ToOpen(p, d, ixtimr) : TRUE
                              /\ f.d = d /\ FileOf(f, t)
  <2>1. PICK f \in files : /\ f = CHOOSE h \in ToOpen(p, d, ixtimr) : TRUE
                           /\ f.d = d /\ f.name \in {ixtimr, 0} /\ f.whole
                           /\ Nint(f.mem.xtime, nml.minute) = ixtimr
    BY <1>1, ReadFile DEF Restartable
  <2>2. PICK u \in Nat : FileOf(f, u)
    BY <1>1, <2>1 DEF FilesRight
  <2>3. u = t
    BY <1>2, <1>3, <2>1, <2>2, SameTime
  <2> QED BY <2>1, <2>2, <2>3
<1> QED BY <1>3, <1>2, SameTime, <1>4 DEF FileOf

\* What all processors have after a restart: files of one time, of the domains
\* that go on.
Resumed(t, on) ==
  /\ t \in Nat /\ SavesAt(nml, t) /\ active' = on /\ on \subseteq Dom /\ 1 \in on
  /\ \A p \in Proc : \A d \in on :
       \E f \in files : f.d = d /\ mem'[p][d] = f.mem /\ FileOf(f, t)
  /\ \A p \in Proc : \A d \in Dom \ on : mem'[p][d] = Zero
LEMMA RestartState ==
  ASSUME TInv, BdyInv, SavInv, NEW ixtimr \in Saved, NEW given \in Givens, Restart(ixtimr, given)
  PROVE  \E t \in Nat :
           /\ Resumed(t, Corrected(given, Rounded(nml, t)))
           /\ Nint(t, nml.minute) = ixtimr
           /\ job'.ktaur = mem'[Monitor][1].ktau
           /\ sav' = FirstAfter(nml.savfrq, mem'[Monitor][1].ktau)
<1>1. nml \in Namelists /\ Monitor \in Proc
  BY RunNumbers DEF TInv, SetsTyped
<1>2. PICK on, was : /\ on = Corrected(given, Minutes(ixtimr))
                     /\ was = [p \in Proc |-> [d \in Dom |->
                                 (CHOOSE f \in ToOpen(p, d, ixtimr) : TRUE).mem]]
  OBVIOUS
<1>3. on \subseteq Dom /\ 1 \in on
  BY <1>1, <1>2, CorrectedDom
<1>4. \A p \in Proc : \A d \in on : was[p][d] = (CHOOSE f \in ToOpen(p, d, ixtimr) : TRUE).mem
  BY <1>2, <1>3
<1>5. /\ Restartable(ixtimr, given) /\ active' = on
      /\ \A p \in Proc : \A d \in Dom : mem'[p][d] = IF d \in on THEN was[p][d] ELSE Zero
      /\ job'.ktaur = was[Monitor][1].ktau
      /\ sav' = FirstAfter(nml.savfrq, was[Monitor][1].ktau)
  <2>1. 1 \in Dom
    BY <1>3
  <2> QED BY <1>1, <1>2, <2>1 DEF Restart
<1>6. PICK t \in Nat :
           /\ SavesAt(nml, t) /\ Nint(t, nml.minute) = ixtimr
           /\ \A p \in Proc : \A d \in on :
                \E f \in files : /\ f = CHOOSE g \in ToOpen(p, d, ixtimr) : TRUE
                                 /\ f.d = d /\ FileOf(f, t)
  BY <1>2, <1>5, OneTime
<1>7. Resumed(t, on)
  BY <1>3, <1>5, <1>6, <1>4 DEF Resumed
<1> QED BY <1>5, <1>6, <1>2, <1>1, <1>3, <1>7 DEF Minutes, Rounded

LEMMA RunRestart ==
  ASSUME TInv, BdyInv, RunInv, SavInv, NEW ixtimr \in Saved, NEW given \in Givens,
         Restart(ixtimr, given)
  PROVE  RunInv'
<1>1. /\ nml \in Namelists /\ Monitor \in Proc /\ 1 \in Dom /\ Nest = Dom \ {1}
      /\ Step \in Nat \ {0} /\ DtMin[1] = Step /\ nml.minute \in Nat \ {0}
  BY RunNumbers, DtMinFacts DEF TInv, SetsTyped
<1>2. /\ pc = "down" /\ frames' = frames /\ nml' = nml
      /\ pc' = "loop" \/ (pc' = "check" /\ check' = 2)
  BY DEF Restart, ChecksNests
<1>3. PICK t \in Nat : Resumed(t, Corrected(given, Rounded(nml, t)))
  BY RestartState
<1>4. PICK on : on = Corrected(given, Rounded(nml, t))
  OBVIOUS
<1>5. /\ SavesAt(nml, t) /\ active' = on /\ on \subseteq Dom /\ 1 \in on
      /\ \A p \in Proc : \A d \in on :
           \E f \in files : f.d = d /\ mem'[p][d] = f.mem /\ FileOf(f, t)
      /\ \A p \in Proc : \A d \in Dom \ on : mem'[p][d] = Zero
  BY <1>3, <1>4 DEF Resumed
<1>6. /\ DtMin' = DtMin /\ Step' = Step
      /\ \A d : /\ XStNes(d)' = XStNes(d) /\ XEnNes(d)' = XEnNes(d) /\ ActTime(d)' = ActTime(d)
                /\ DeactTime(d)' = DeactTime(d) /\ Mother(d)' = Mother(d)
  BY <1>2, NamelistKept
<1>7. ASSUME NEW p \in Proc, NEW d \in on
      PROVE  /\ Reckoned(p, d)' = t
             /\ d \in Nest => ClockOf(d, mem'[p][d]) /\ ActTime(d) < t /\ t <= DeactTime(d)
             /\ d = 1 => mem'[p][d].xtime = t
  <2>1. PICK f \in files : f.d = d /\ mem'[p][d] = f.mem /\ FileOf(f, t)
    BY <1>5
  <2>2. ActTime(d) + mem'[p][d].ktau * DtMin[d] = t
    BY <2>1 DEF FileOf
  <2>3. d \in Nest => ClockOf(d, mem'[p][d]) /\ ActTime(d) < t /\ t <= DeactTime(d)
    BY <2>1 DEF FileOf
  <2>4. d = 1 => mem'[p][d].xtime = t
    BY <2>1, FileClock
  <2> QED BY <1>6, <2>2, <2>3, <2>4 DEF Reckoned
<1>8. Clock' = t
  <2>1. mem'[Monitor][1].xtime = t
    BY <1>1, <1>5, <1>7
  <2> QED BY <2>1 DEF Clock, XTime
<1>9. NestsOfTheTime'
  <2>1. ASSUME NEW d \in Nest
        PROVE  ~ (d < 2) /\ Unsettled(d)'
    <3>1. ~ (d < 2)
      BY <1>1, RunNumbers DEF Nest
    <3>2. d \in on => ActTime(d) <= t /\ t <= DeactTime(d)
      <4>1. ActTime(d) \in Nat
        BY <1>1, NestTimes
      <4> QED BY <1>1, <1>7, <4>1
    <3>3. ActTime(d) < t /\ t < DeactTime(d) => d \in on
      BY <1>1, <1>4, <1>5, GoesOn
    <3> QED BY <1>5, <1>6, <1>8, <3>1, <3>2, <3>3 DEF Unsettled
  <2> QED BY <1>2, <2>1 DEF NestsOfTheTime
<1>10. MothersThere'
  <2>1. Rounded(nml, t) \in Nat
    <3>1. Nint(t, nml.minute) \in Nat
      BY <1>1, NintBounds
    <3> QED BY <1>1, <3>1 DEF Rounded
  <2>2. ASSUME NEW d \in on \ {1}
        PROVE  Mother(d) \in on
    <3>1. d \in Nest
      BY <1>1, <1>5
    <3> QED BY <1>1, <1>4, <2>1, <3>1, MothersTaken
  <2> QED BY <1>5, <1>6, <2>2 DEF MothersThere, MotherThere
<1>11. ClocksStopped'
  <2>1. \A d \in Nest \ on : mem'[Monitor][d] = Zero
    BY <1>1, <1>5
  <2>2. \A d \in Nest \ on : XTime(d)' = 0
    BY <2>1 DEF XTime, Zero
  <2> QED BY <1>5, <2>2 DEF ClocksStopped
<1>12. ClocksOfNests'
  <2>1. ASSUME NEW p \in Proc, NEW d \in on \ {1}
        PROVE  ClockOf(d, mem[p][d])'
    <3>1. d \in Nest
      BY <1>1, <1>5
    <3>2. ClockOf(d, mem'[p][d])
      BY <1>7, <3>1
    <3> QED BY <1>6, <3>2 DEF ClockOf
  <2> QED BY <1>5, <2>1 DEF ClocksOfNests
<1>13. CallsInOrder'
  <2>1. frames = <<>>
    BY <1>2 DEF TInv, FramesTyped
  <2>2. Len(frames') = 0
    BY <1>2, <2>1
  <2> QED BY <2>2 DEF CallsInOrder
<1>14. StepsCounted'
  <2>1. \A p \in Proc : mem'[p][1].ktau = mem'[Monitor][1].ktau
    <3> SUFFICES ASSUME NEW p \in Proc
                 PROVE  mem'[p][1].ktau = mem'[Monitor][1].ktau
      OBVIOUS
    <3>1. ASSUME NEW q \in Proc
          PROVE  mem'[q][1].ktau \in Nat /\ mem'[q][1].ktau * Step = t
      <4>1. PICK f \in files : f.d = 1 /\ mem'[q][1] = f.mem /\ FileOf(f, t)
        BY <1>5
      <4>2. ActTime(1) = 0
        BY DEF ActTime
      <4>3. 0 + f.mem.ktau * Step = t
        BY <1>1, <4>1, <4>2 DEF FileOf
      <4>4. f.mem.ktau \in Nat
        BY <4>1 DEF TInv, FilesTyped, Clocks
      <4> QED BY <1>1, <4>1, <4>3, <4>4
    <3>2. PICK i, j : i = mem'[p][1].ktau /\ j = mem'[Monitor][1].ktau
      OBVIOUS
    <3>3. i \in Nat /\ j \in Nat /\ i * Step = t /\ j * Step = t
      BY <1>1, <3>1, <3>2
    <3>4. i <= j /\ j <= i
      BY <1>1, <3>3, StepsApart
    <3> QED BY <3>2, <3>3, <3>4
  <2>2. \A d \in on : Reckons(d)'
    BY <1>7, <1>8 DEF Reckons
  <2> QED BY <1>2, <1>5, <2>1, <2>2 DEF StepsCounted, KTau
<1>15. AllGone'
  BY <1>2 DEF AllGone
<1> QED BY <1>9, <1>10, <1>11, <1>12, <1>13, <1>14, <1>15 DEF RunInv

LEMMA SavRestart ==
  ASSUME TInv, BdyInv, SavInv, NEW ixtimr \in Saved, NEW given \in Givens, Restart(ixtimr, given)
  PROVE  SavInv'
<1>1. pc = "down" /\ UNCHANGED <<nml, files, saving>>
  BY DEF Restart
<1>2. PICK t \in Nat : /\ Resumed(t, Corrected(given, Rounded(nml, t)))
                       /\ sav' = FirstAfter(nml.savfrq, mem'[Monitor][1].ktau)
  BY RestartState
<1>3. PICK ktau : ktau = mem'[Monitor][1].ktau
  OBVIOUS
<1>4. ktau \in Nat
  <2>1. PICK f \in files : mem'[Monitor][1] = f.mem
    BY RunNumbers, <1>2 DEF Resumed, TInv, SetsTyped
  <2> QED BY <1>3, <2>1 DEF Clocks, TInv, FilesTyped
<1>5. \E k \in Nat \ {0} : sav' = k * nml.savfrq /\ ktau < Nint(sav', Step)
  <2>1. nml.savfrq \in Nat /\ Step \in Nat \ {0} /\ nml.savfrq >= Step
    BY RunNumbers, SaveNumbers DEF TInv, SetsTyped
  <2>2. PICK k \in Nat \ {0} : /\ FirstAfter(nml.savfrq, ktau) = k * nml.savfrq
                               /\ Nint(k * nml.savfrq, Step) > ktau
    BY <1>4, <2>1, FirstAfterFacts
  <2>3. Nint(k * nml.savfrq, Step) \in Nat
    <3>1. k * nml.savfrq \in Nat
      BY <2>1
    <3> QED BY <2>1, <3>1, NintBounds
  <2> QED BY <1>2, <1>3, <1>4, <2>2, <2>3
<1>6. SavTimed'
  BY <1>1, <1>5, <1>3, NamelistKept DEF SavTimed, KTau
<1>7. Saving'
  BY <1>1 DEF Saving, TInv, SetsTyped
<1>8. FilesRight'
  BY <1>1, FilesStay DEF SavInv
<1> QED BY <1>6, <1>7, <1>8 DEF SavInv

LEMMA RunInvInStep ==
  ASSUME TInv, BdyInv, RunInv
  PROVE  AllInStep
<1>1. active \subseteq Dom /\ Nest = Dom \ {1}
  BY RunNumbers DEF TInv, SetsTyped
<1>2. \A p \in Proc : Reckoned(p, 1) = Clock
  BY CoarseTime DEF RunInv
<1>3. ASSUME NEW p \in Proc, NEW d \in active, d # 1, pc # "nests"
      PROVE  Reckoned(p, d) = Expected(p, d)
  <2>1. frames = <<>>
    BY <1>3 DEF TInv, FramesTyped
  <2>2. InCall(Mother(d)) = {}
    BY <2>1 DEF InCall
  <2>3. Expected(p, d) = Reckoned(p, Mother(d))
    BY <2>2 DEF Expected
  <2>4. Reckoned(p, d) = Clock
    BY <1>3 DEF RunInv, StepsCounted, Reckons
  <2>5. Mother(d) \in active \/ Reckons(Mother(d))
    BY <1>3 DEF RunInv, MothersThere, MotherThere
  <2>6. Reckoned(p, Mother(d)) = Clock
    BY <1>2, <1>3, <2>5 DEF RunInv, StepsCounted, Reckons
  <2> QED BY <2>3, <2>4, <2>6
<1>4. \A p \in Proc : \A d \in active \ {1} : Reckoned(p, d) = Expected(p, d)
  BY <1>3 DEF RunInv, StepsCounted
<1>5. ASSUME pc = "solve"
      PROVE  active = {1} \union {d \in Nest : ActTime(d) <= Clock /\ Clock < DeactTime(d)}
  <2>1. 1 \in active
    BY <1>5 DEF TInv, SetsTyped
  <2>2. \A d \in Nest : d \in active <=> ActTime(d) <= Clock /\ Clock < DeactTime(d)
    BY <1>5 DEF RunInv, NestsOfTheTime, Settled, TakesPart
  <2> QED BY <1>1, <2>1, <2>2
<1> QED BY <1>2, <1>4, <1>5 DEF AllInStep

LEMMA RunNext ==
  ASSUME TInv, BdyInv, RunInv, SavInv, [Next]_vars
  PROVE  RunInv'
<1>1. CASE Start
  BY <1>1, RunStart
<1>2. CASE RestartAny
  BY <1>2, RunRestart DEF RestartAny
<1>3. CASE ReadBoundary
  BY <1>3, RunReadBoundary
<1>4. CASE CheckSkips
  BY <1>4, RunCheckSkips
<1>5. CASE Deactivate
  BY <1>5, RunDeactivate
<1>6. CASE Activate
  BY <1>6, RunActivate
<1>7. CASE SolveCoarse
  BY <1>7, RunSolveCoarse
<1>8. CASE SolveNest
  BY <1>8, RunSolveNest
<1>9. CASE NextTurn
  BY <1>9, RunNextTurn
<1>10. CASE FeedBack
  BY <1>10, RunFeedBack
<1>11. CASE Output
  BY <1>11, RunOutput
<1>12. CASE WriteOutput
  BY <1>12, RunWriteOutput
<1>13. CASE \E p \in Proc : Save(p)
  BY <1>13, RunSave
<1>14. CASE NextStep
  BY <1>14, RunNextStep
<1>15. CASE Crash
  BY <1>15, RunCrash
<1>16. CASE Over \/ UNCHANGED vars
  BY <1>16, RunStays DEF Over, vars, running
<1> QED
  BY <1>1, <1>2, <1>3, <1>4, <1>5, <1>6, <1>7, <1>8, <1>9, <1>10, <1>11, <1>12, <1>13, <1>14, <1>15, <1>16
     DEF Next

LEMMA SavNext ==
  ASSUME TInv, BdyInv, RunInv, SavInv, [Next]_vars
  PROVE  SavInv'
<1>1. CASE Start
  BY <1>1, SavStart
<1>2. CASE RestartAny
  BY <1>2, SavRestart DEF RestartAny
<1>3. CASE ReadBoundary
  BY <1>3, SavReadBoundary
<1>4. CASE CheckSkips \/ Deactivate \/ Activate \/ SolveNest \/ NextTurn \/ FeedBack \/ WriteOutput
  BY <1>4, SavQuiet
<1>5. CASE SolveCoarse
  BY <1>5, SavSolveCoarse
<1>6. CASE Output
  BY <1>6, SavOutput
<1>7. CASE \E p \in Proc : Save(p)
  BY <1>7, SavSave
<1>8. CASE NextStep
  BY <1>8, SavNextStep
<1>9. CASE Crash
  BY <1>9, SavCrash
<1>10. CASE Over \/ UNCHANGED vars
  <2>1. UNCHANGED <<nml, pc, mem, files, sav, saving>>
    BY <1>10 DEF Over, vars, running
  <2> QED BY <2>1, FilesStay DEF SavInv, SavTimed, Saving, Clock, XTime, KTau, Step
<1> QED BY <1>1, <1>2, <1>3, <1>4, <1>5, <1>6, <1>7, <1>8, <1>9, <1>10 DEF Next

\* The fields of all domains and processors always go together, for any number
\* of them, any namelist, and after any crashes and restarts: all processors
\* are at the same coarse step, every nest has made as many steps as its
\* mother's call says, and those that take part in a coarse step are those the
\* namelist has at that time.
THEOREM AlwaysInStep == Spec => []AllInStep
<1> DEFINE Inv == TInv /\ BdyInv /\ RunInv /\ SavInv
<1>1. Init => Inv
  BY TypesInit, BdyInit, RunInit, SavInit
<1>2. Inv /\ [Next]_vars => Inv'
  BY TypesNext, BdyNext, RunNext, SavNext
<1>3. Inv => AllInStep
  BY RunInvInStep
<1> QED BY <1>1, <1>2, <1>3, PTL DEF Spec

-------------------------------------------------------------------------------
(* The way back *)

\* What a run was restarted from.
CameFrom ==
  pc # "down" /\ job.ifrest =>
    /\ SavesAt(nml, job.ktaur * Step) /\ Nint(job.ktaur * Step, nml.minute) = job.ixtimr
    /\ ~ nml.svlast => CanRestart(job.ixtimr)

\* Whether one can go on from files depends on those that would be opened.
LEMMA RestartKept ==
  ASSUME nml' = nml, NEW i, \A p, d : ToOpen(p, d, i)' = ToOpen(p, d, i)
  PROVE  CanRestart(i)' <=> CanRestart(i)
<1>1. Givens' = Givens
  BY NamelistKept DEF Givens
<1> QED BY <1>1, NamelistKept DEF CanRestart, Restartable, Corrected, Minutes, Readable

\* A run's own restart files do not have the name of those it came from.
LEMMA OtherNames ==
  ASSUME TInv, BdyInv, RunInv, CameFrom, pc = "output", job.ifrest, ~ nml.svlast,
         SavesAt(nml, Clock)
  PROVE  SaveName # job.ixtimr /\ SaveName # 0
<1>1. /\ nml \in Namelists /\ Step \in Nat \ {0} /\ KTau(1) \in Nat /\ Clock \in Nat
      /\ Clock = KTau(1) * Step /\ nml.minute \in Nat \ {0}
  BY CoarseTime, RunNumbers DEF RunInv
<1>2. SaveName = Nint(Clock, nml.minute)
  BY DEF SaveName
<1>3. PICK k, r : k = KTau(1) /\ r = job.ktaur
  OBVIOUS
<1>4. k \in Nat /\ r \in Nat /\ r < k
  BY <1>1, <1>3 DEF BdyInv, PhaseInv, Phase
<1>5. r * Step < k * Step
  <2>1. r * Step + Step <= k * Step /\ r * Step \in Nat /\ k * Step \in Nat
    BY <1>1, <1>4, StepsApart
  <2> QED BY <1>1, <2>1
<1>6. SavesAt(nml, r * Step) /\ Nint(r * Step, nml.minute) = job.ixtimr
  BY <1>3 DEF CameFrom
<1>7. Nint(r * Step, nml.minute) < Nint(Clock, nml.minute)
  BY <1>1, <1>3, <1>5, <1>6, SavesApart
<1>8. Nint(r * Step, nml.minute) \in Nat \ {0} /\ Nint(Clock, nml.minute) \in Nat \ {0}
  BY <1>1, <1>6, SaveNamed
<1> QED BY <1>2, <1>6, <1>7, <1>8

\* Files of other names are not touched.
LEMMA OthersStay ==
  ASSUME nml' = nml, NEW i, SaveName # i, SaveName # 0,
         \A f : f.name # SaveName => (f \in files' <=> f \in files)
  PROVE  CanRestart(i)' <=> CanRestart(i)
<1>1. ASSUME NEW p, NEW d, NEW name, name # SaveName
      PROVE  Named(p, d, name)' = Named(p, d, name)
  BY <1>1 DEF Named
<1> QED BY <1>1, RestartKept DEF ToOpen

LEMMA BackStays ==
  ASSUME TInv, BdyInv, RunInv, SavInv, CameFrom, [Next]_vars,
         pc # "down", job.ifrest, ~ nml.svlast, NEW i, i = job.ixtimr
  PROVE  CanRestart(i)'
<1>1. CanRestart(i)
  BY DEF CameFrom
<1>2. CASE nml' = nml /\ files' = files
  BY <1>1, <1>2, RestartKept DEF ToOpen, Named
<1>3. CASE \E p \in Proc : Save(p)
  <2>1. PICK p \in Proc : Save(p)
    BY <1>3
  <2> QED BY <1>1, <2>1, OtherNames, OthersStay DEF SaveFile, Overwritten, Save, SavInv, Saving
<1>4. CASE Crash
  <2>1. PICK torn \in SUBSET {p \in Proc : saving[p] # {}} :
          files' = {f \in files : ~ \E p \in torn : f.p = p /\ f.d = Least(saving[p])
                                                   /\ f.name = SaveName}
                   \union {[p |-> p, d |-> Least(saving[p]), name |-> SaveName,
                            whole |-> FALSE, mem |-> Zero] : p \in torn}
    BY <1>4 DEF Crash
  <2>2. nml' = nml
    BY <1>4 DEF Crash
  <2>3. CASE torn = {}
    <3>1. files' = files
      BY <2>1, <2>3
    <3> QED BY <1>2, <2>2, <3>1
  <2>4. CASE torn # {}
    BY <1>1, <2>2, <2>4, OtherNames, <2>1, OthersStay DEF SavInv, Saving, TInv, SetsTyped
  <2> QED BY <2>3, <2>4
<1>5. (nml' = nml /\ files' = files) \/ (\E p \in Proc : Save(p)) \/ Crash
  BY DEF Next, Start, RestartAny, Restart, ReadBoundary, CheckSkips, Deactivate, Activate, SolveCoarse,
     SolveNest, NextTurn, FeedBack, Output, WriteOutput, NextStep, Over, vars, running
<1> QED BY <1>2, <1>3, <1>4, <1>5

LEMMA CameRestart ==
  ASSUME TInv, BdyInv, SavInv, NEW ixtimr \in Saved, NEW given \in Givens, Restart(ixtimr, given)
  PROVE  CameFrom'
<1>1. nml \in Namelists /\ Monitor \in Proc /\ 1 \in Dom /\ DtMin[1] = Step
      /\ Step \in Nat \ {0}
  BY RunNumbers, DtMinFacts DEF TInv, SetsTyped
<1>2. nml' = nml /\ files' = files /\ job'.ixtimr = ixtimr /\ Restartable(ixtimr, given)
  BY DEF Restart
<1>3. PICK t \in Nat : /\ Resumed(t, Corrected(given, Rounded(nml, t)))
                       /\ Nint(t, nml.minute) = ixtimr
                       /\ job'.ktaur = mem'[Monitor][1].ktau
  BY RestartState
<1>4. PICK f \in files : f.d = 1 /\ mem'[Monitor][1] = f.mem /\ FileOf(f, t)
  BY <1>1, <1>3 DEF Resumed
<1>5. SavesAt(nml, t) /\ 0 + f.mem.ktau * Step = t
  <2>1. ActTime(1) = 0
    BY DEF ActTime
  <2> QED BY <1>1, <1>4, <2>1 DEF FileOf
<1>6. job'.ktaur * Step = t
  <2>1. f.mem.ktau \in Nat
    BY DEF TInv, FilesTyped, Clocks
  <2> QED BY <1>1, <1>3, <1>4, <1>5, <2>1
<1>7. CanRestart(ixtimr)'
  <2>1. \A p, d : ToOpen(p, d, ixtimr)' = ToOpen(p, d, ixtimr)
    BY <1>2 DEF ToOpen, Named
  <2>2. CanRestart(ixtimr)
    BY <1>2 DEF CanRestart
  <2> QED BY <1>2, <2>1, <2>2, RestartKept
<1>8. Step' = Step
  BY <1>2, NamelistKept
<1>9. CanRestart(job.ixtimr)'
  BY <1>2, <1>7 DEF CanRestart, Restartable, Readable, ToOpen, Named, Corrected, Minutes
<1> QED BY <1>2, <1>3, <1>5, <1>6, <1>8, <1>9 DEF CameFrom

LEMMA CameNext ==
  ASSUME TInv, BdyInv, RunInv, SavInv, CameFrom, [Next]_vars
  PROVE  CameFrom'
<1>1. CASE pc' = "down"
  BY <1>1 DEF CameFrom
<1>2. CASE Start
  BY <1>2 DEF Start, Dead, CameFrom
<1>3. CASE RestartAny
  BY <1>3, CameRestart DEF RestartAny
<1>4. CASE pc # "down" /\ job' = job /\ nml' = nml
  <2>1. PICK i : i = job.ixtimr
    OBVIOUS
  <2>2. Step' = Step
    BY <1>4, NamelistKept
  <2> QED BY <1>4, <2>1, BackStays, <2>2 DEF CameFrom
<1>5. Start \/ RestartAny \/ pc' = "down" \/ (pc # "down" /\ job' = job /\ nml' = nml)
  BY DEF Next, ReadBoundary, CheckSkips, Deactivate, Activate, SolveCoarse, SolveNest, NextTurn, FeedBack,
     Output, WriteOutput, Save, NextStep, Crash, GoDown, Over, vars, running
<1> QED BY <1>1, <1>2, <1>3, <1>4, <1>5

\* What a run was restarted from is not damaged by it, unless SVLAST is set:
\* whatever it writes, and whenever it is killed, one can go on from the same
\* time again.
THEOREM WayBackKept == Spec => WayBack
<1> DEFINE Inv == TInv /\ BdyInv /\ RunInv /\ SavInv /\ CameFrom
<1>1. Init => Inv
  BY TypesInit, BdyInit, RunInit, SavInit DEF Init, CameFrom
<1>2. Inv /\ [Next]_vars => Inv'
  BY TypesNext, BdyNext, RunNext, SavNext, CameNext
<1>3. Inv /\ [Next]_vars =>
        [pc # "down" /\ job.ifrest /\ ~ nml.svlast =>
           \A ixtimr \in {job.ixtimr} : CanRestart(ixtimr)']_vars
  BY BackStays
<1> QED BY <1>1, <1>2, <1>3, PTL DEF Spec, WayBack
-------------------------------------------------------------------------------
(* Units and counts *)

\* ITAPCNT of domain d, as the monitor has it.
Count(d) == mem[Monitor][d].itap

\* What a step of a run does to its output: nothing, or domain d is written, or
\* nest d begins and is.
RunsOn == pc # "down" /\ pc' # "down" /\ UNCHANGED <<nml, job>> /\ Clock \in Nat /\ Clock' \in Nat
Counted(d, n) == Count(d)' = n /\ \A e \in Dom \ {d} : Count(e)' = Count(e)
Quiet ==
  /\ RunsOn /\ UNCHANGED <<tapes, cut, opened>> /\ Clock <= Clock' /\ active' \subseteq active
  /\ \A d \in Dom : Count(d)' = Count(d)
  /\ \A d \in active \ active' : d \in Nest /\ DeactTime(d) <= Clock
Writes(d) ==
  /\ RunsOn /\ Clock' = Clock /\ files' = files /\ d \in active
  /\ \/ pc = "output" /\ active' = active /\ d \in outs
     \/ pc = "check" /\ active' = active \ {d} /\ d \in Nest /\ DeactTime(d) <= Clock
  /\ \E t \in Nat : OutTap(d, Count(d), t)
  /\ Counted(d, Suffix(d, Count(d)))
Activates(d) ==
  /\ RunsOn /\ Clock' = Clock /\ files' = files /\ pc = "check"
  /\ d \in Nest \ active /\ ActTime(d) = Clock /\ Clock < DeactTime(d) /\ Mother(d) \in active
  /\ active' = active \union {d}
  /\ OutTap(d, Count(Mother(d)), Clock) /\ Counted(d, Suffix(d, Count(Mother(d))))

LEMMA CoarseNext ==
  ASSUME TInv, TInv', BdyInv', nml' = nml
  PROVE  KTau(1)' \in Nat /\ Clock' \in Nat /\ Clock' = KTau(1)' * Step
<1>1. Monitor \in Proc /\ 1 \in Dom /\ Step' = Step
  BY RunNumbers, NamelistKept DEF TInv, SetsTyped
<1>2. mem'[Monitor][1] \in Clocks
  BY <1>1 DEF TInv, MemTyped
<1>3. mem'[Monitor][1].xtime = mem'[Monitor][1].ktau * Step
  BY <1>1 DEF BdyInv, Clocked
<1> QED BY <1>1, <1>2, <1>3 DEF KTau, Clock, XTime, Clocks

LEMMA SolvedCounts ==
  ASSUME TInv, NEW d \in Dom, Solved(d)
  PROVE  \A e \in Dom : Count(e)' = Count(e)
<1>1. Monitor \in Proc
  BY RunNumbers DEF TInv, SetsTyped
<1>2. \A p \in Proc : mem[p] \in [Dom -> Clocks]
  BY DEF TInv, MemTyped
<1>3. PICK m, c, k, x : /\ m = mem[Monitor] /\ c = m[d] /\ k = c.ktau + 1
                        /\ x = (IF d = 1 THEN 0 ELSE XStNes(d)) + (c.ktau + 1) * DtMin[d]
  OBVIOUS
<1>4. c \in Clocks /\ m \in [Dom -> Clocks]
  BY <1>1, <1>2, <1>3
<1>5. mem'[Monitor] = [m EXCEPT ![d].ktau = @ + 1, ![d].xtime = x]
  BY <1>1, <1>3 DEF Solved
<1>6. PICK e : e = [[c EXCEPT !.ktau = k] EXCEPT !.xtime = x]
  OBVIOUS
<1>7. e.itap = c.itap
  BY <1>4, <1>6 DEF Clocks
<1>8. mem'[Monitor] = [m EXCEPT ![d] = e]
  BY <1>3, <1>4, <1>5, <1>6
<1> QED BY <1>3, <1>4, <1>7, <1>8 DEF Count

LEMMA CountedOne ==
  ASSUME TInv, NEW d \in Dom, mem' = [mem EXCEPT ![Monitor][d].itap = Suffix(d, @)]
  PROVE  Counted(d, Suffix(d, Count(d)))
<1>1. Monitor \in Proc
  BY RunNumbers DEF TInv, SetsTyped
<1>2. PICK m, c : m = mem[Monitor] /\ c = m[d]
  OBVIOUS
<1>3. m \in [Dom -> Clocks] /\ c \in Clocks
  BY <1>1, <1>2 DEF TInv, MemTyped
<1>4. PICK e : e = [c EXCEPT !.itap = Suffix(d, c.itap)]
  OBVIOUS
<1>5. e.itap = Suffix(d, c.itap)
  BY <1>3, <1>4 DEF Clocks
<1>6. mem' = [mem EXCEPT ![Monitor] = [m EXCEPT ![d] = e]]
  BY <1>2, <1>4
<1>7. mem'[Monitor] = [m EXCEPT ![d] = e]
  BY <1>1, <1>6 DEF TInv, MemTyped
<1> QED BY <1>2, <1>3, <1>5, <1>7 DEF Count, Counted

LEMMA WriteKind ==
  ASSUME TInv, BdyInv, RunInv, WriteOutput
  PROVE  Least(outs) \in Dom /\ Writes(Least(outs))
<1>1. Clock \in Nat /\ Clock' = Clock /\ active \subseteq Dom /\ outs \subseteq active
  BY CoarseTime, CoarseSteps DEF RunInv, TInv, SetsTyped
<1>2. PICK d : d = Least(outs)
  OBVIOUS
<1>3. /\ pc = "output" /\ outs # {} /\ OutTap(d, mem[Monitor][d].itap, Clock)
      /\ mem' = [mem EXCEPT ![Monitor][d].itap = Suffix(d, @)]
      /\ UNCHANGED <<nml, job, pc, files, active>>
  BY <1>2 DEF WriteOutput
<1>4. d \in outs /\ d \in active /\ d \in Dom
  BY <1>1, <1>2, <1>3, LeastDomain
<1>5. Counted(d, Suffix(d, Count(d)))
  BY <1>3, <1>4, CountedOne
<1>6. Writes(d)
  BY <1>1, <1>3, <1>4, <1>5 DEF Writes, RunsOn, Count
<1> QED BY <1>2, <1>4, <1>6

LEMMA DeactivateKind ==
  ASSUME TInv, BdyInv, RunInv, Deactivate
  PROVE  Quiet \/ \E d \in Dom : Writes(d)
<1>1. Clock \in Nat /\ Clock' = Clock /\ active \subseteq Dom /\ back \in {"loop", "solve"}
      /\ Nest \subseteq Dom
  BY CoarseTime, CoarseSteps, RunNumbers DEF RunInv, TInv, SetsTyped
<1>2. PICK d : d = check
  OBVIOUS
<1>3. /\ pc = "check" /\ d \in Nest /\ Ends(d) /\ active' = active \ {d}
      /\ UNCHANGED <<nml, job, files>> /\ pc' \in {"check", "loop", "solve"}
      /\ \/ UNCHANGED <<tapes, cut, opened, mem>>
         \/ /\ OutTap(d, mem[Monitor][d].itap, XTime(d))
            /\ mem' = [mem EXCEPT ![Monitor][d].itap = Suffix(d, @)]
  BY <1>2, <1>1 DEF Deactivate, NextCheck
<1>4. d \in active /\ DeactTime(d) <= Clock /\ d \in Dom
  BY <1>1, <1>2, <1>3, CheckedNest
<1>5. RunsOn
  BY <1>1, <1>3 DEF RunsOn
<1>6. CASE UNCHANGED <<tapes, cut, opened, mem>>
  BY <1>1, <1>3, <1>4, <1>5, <1>6 DEF Quiet, Count
<1>7. CASE /\ OutTap(d, mem[Monitor][d].itap, XTime(d))
           /\ mem' = [mem EXCEPT ![Monitor][d].itap = Suffix(d, @)]
  <2>1. Writes(d)
    BY <1>1, <1>3, <1>4, <1>5, <1>7, CountedOne, TimeTyped DEF Writes, Count
  <2> QED BY <1>4, <2>1
<1> QED BY <1>3, <1>6, <1>7

LEMMA ActivateKind ==
  ASSUME TInv, BdyInv, RunInv, Activate
  PROVE  check \in Nest /\ Activates(check)
<1>1. Clock \in Nat /\ Clock' = Clock /\ active \subseteq Dom /\ back \in {"loop", "solve"}
      /\ Nest \subseteq Dom /\ Monitor \in Proc /\ nml \in Namelists
  BY CoarseTime, CoarseSteps, RunNumbers DEF RunInv, TInv, SetsTyped
<1>2. PICK d, m, count : d = check /\ m = Mother(d) /\ count = Count(m)
  OBVIOUS
<1>3. /\ pc = "check" /\ d \in Nest /\ Begun(d) /\ active' = active \union {d}
      /\ UNCHANGED <<nml, job, files>> /\ pc' \in {"check", "loop", "solve"}
      /\ OutTap(d, count, XTime(m))
  <2>1. pc' \in {"check", "loop", "solve"}
    BY <1>1 DEF Activate, NextCheck
  <2> QED BY <1>2, <2>1 DEF Activate, Count
<1>4. /\ d \notin active /\ TakesPart(d, Clock) /\ ActTime(d) = Clock /\ m \in active
      /\ mem[Monitor][m].xtime = Clock
  BY <1>1, <1>2, <1>3, CheckedNest
<1>5. Counted(d, Suffix(d, count))
  <2>1. mem[Monitor] \in [Dom -> Clocks]
    BY <1>1 DEF TInv, MemTyped
  <2>2. mem'[Monitor] = [mem[Monitor] EXCEPT ![d] =
                           [ktau |-> 0, xtime |-> mem[Monitor][m].xtime, itap |-> Suffix(d, count)]]
    BY <1>1, <1>2 DEF Activate, Count
  <2> QED BY <1>1, <1>3, <2>1, <2>2 DEF Counted, Count
<1>6. Activates(d)
  BY <1>1, <1>2, <1>3, <1>4, <1>5 DEF Activates, RunsOn, XTime, TakesPart
<1> QED BY <1>2, <1>3, <1>6

LEMMA SolveKind ==
  ASSUME TInv, BdyInv, RunInv, TInv', BdyInv', SolveCoarse \/ SolveNest
  PROVE  Quiet
<1>1. /\ Monitor \in Proc /\ 1 \in Dom /\ Step \in Nat \ {0} /\ active \subseteq Dom
      /\ nml \in Namelists
  BY RunNumbers DEF TInv, SetsTyped
<1>2. /\ Clock \in Nat /\ KTau(1) \in Nat /\ Clock = KTau(1) * Step
      /\ Clock' \in Nat /\ Clock' = KTau(1)' * Step
  <2>1. nml' = nml
    BY DEF SolveCoarse, SolveNest
  <2> QED BY <2>1, CoarseTime, CoarseNext DEF RunInv
<1>3. PICK d \in Dom : Solved(d)
  <2>1. CASE SolveCoarse
    BY <1>1, <2>1 DEF SolveCoarse
  <2>2. CASE SolveNest
    BY <2>2, <1>1, LeastDomain DEF SolveNest, Waiting, Children
  <2> QED BY <2>1, <2>2
<1>4. Clock <= Clock'
  <2>1. CASE SolveNest
    BY <1>2, <2>1, CoarseSteps
  <2>2. CASE SolveCoarse
    <3>1. Step' = Step /\ KTau(1)' = KTau(1) + 1
      BY <1>1, <2>2, SolvedSteps, NamelistKept DEF KTau, SolveCoarse
    <3> QED BY <1>1, <1>2, <3>1
  <2> QED BY <2>1, <2>2
<1> QED BY <1>2, <1>4, <1>3, SolvedCounts DEF Quiet, RunsOn, SolveCoarse, SolveNest

LEMMA OutputKind ==
  ASSUME TInv, BdyInv, RunInv, Output
  PROVE  Quiet
<1>1. Monitor \in Proc /\ 1 \in Dom
  BY RunNumbers DEF TInv, SetsTyped
<1>2. Clock \in Nat /\ Clock' = Clock
  <2>1. Clock \in Nat
    BY CoarseTime DEF RunInv
  <2>2. \A p \in Proc : mem'[p][1].xtime = mem[p][1].xtime
    BY OutputSteps DEF RunInv
  <2> QED BY <1>1, <2>1, <2>2 DEF Clock, XTime
<1>3. ASSUME NEW d \in Dom
      PROVE  Count(d)' = Count(d)
  <2>1. mem[Monitor][d] \in Clocks
    BY <1>1 DEF TInv, MemTyped
  <2>2. mem'[Monitor][d] = mem[Monitor][d] \/
        mem'[Monitor][d] = [mem[Monitor][d] EXCEPT !.xtime = mem[Monitor][1].xtime]
    BY <1>1 DEF Output
  <2> QED BY <2>1, <2>2 DEF Count, Clocks
<1> QED BY <1>2, <1>3 DEF Quiet, RunsOn, Output

\* Every step of a run that does not end it is of one of the three kinds.
LEMMA StepKinds ==
  ASSUME TInv, BdyInv, RunInv, TInv', BdyInv', [Next]_vars, pc # "down", pc' # "down"
  PROVE  Quiet \/ (\E d \in Dom : Writes(d)) \/ (\E d \in Nest : Activates(d))
<1>1. Clock \in Nat
  BY CoarseTime DEF RunInv
<1>2. CASE mem' = mem /\ UNCHANGED <<nml, job, tapes, cut, opened, active>>
  BY <1>1, <1>2 DEF Quiet, RunsOn, Clock, XTime, Count
<1>3. CASE Deactivate
  BY <1>3, DeactivateKind
<1>4. CASE Activate
  BY <1>4, ActivateKind
<1>5. CASE SolveCoarse \/ SolveNest
  BY <1>5, SolveKind
<1>6. CASE Output
  BY <1>6, OutputKind
<1>7. CASE WriteOutput
  BY <1>7, WriteKind
<1>8. CASE ReadBoundary \/ CheckSkips \/ NextTurn \/ FeedBack \/ NextStep \/ \E p \in Proc : Save(p)
  BY <1>2, <1>8 DEF ReadBoundary, CheckSkips, NextTurn, FeedBack, NextStep, Save, GoDown, ChecksNests
<1>9. CASE Over \/ UNCHANGED vars
  BY <1>2, <1>9 DEF Over, vars, running
<1> QED BY <1>3, <1>4, <1>5, <1>6, <1>7, <1>8, <1>9 DEF Next, Start, RestartAny, Restart, Crash, GoDown

\* The units: in a run from the beginning all are open, and have no suffix; the
\* file of an open unit exists; who has one has begun.
UnitsInv ==
  /\ pc = "down" => opened = {}
  /\ pc # "down" /\ ~ job.ifrest => active \subseteq opened /\ \A d \in active : Count(d) = 0
  /\ \A d \in opened : TapeExists(d, Count(d)) /\ (d \in active \/ ActTime(d) < Clock)
  /\ \A d \in active \ {1} : ActTime(d) < DeactTime(d)

\* What OUTTAP does to the files.
LEMMA OutTapFiles ==
  ASSUME NEW d, NEW count, NEW u, NEW n, n = Suffix(d, count), OutTap(d, count, u)
  PROVE  /\ opened' = opened \union {d} /\ <<d, n, u>> \in tapes'
         /\ \A r \in tapes : r \in tapes' \/ (d \notin opened /\ r[1] = d /\ r[2] = n)
         /\ \A r \in tapes' : r \in tapes \/ r = <<d, n, u>>
         /\ \A e, v : TapeExists(e, v)' <=> TapeExists(e, v) \/ (e = d /\ v = n)
         /\ d \in opened => n = count
         /\ d \notin opened /\ ~ job.ifrest => n = count
         /\ d \notin opened /\ job.ifrest =>
              \/ n = count + 1 /\ ~ TapeExists(d, count + 1)
              \/ n = count + 2 /\ TapeExists(d, count + 1)
<1>1. <<d, n, u>>[1] = d /\ <<d, n, u>>[2] = n
  OBVIOUS
<1>2. ASSUME NEW e, NEW v
      PROVE  TapeExists(e, v)' <=> TapeExists(e, v) \/ (e = d /\ v = n)
  BY <1>1 DEF TapeExists, OutTap
<1> QED BY <1>2 DEF Suffix, OutTap

LEMMA UnitsQuiet ==
  ASSUME TInv, UnitsInv, Quiet
  PROVE  UnitsInv'
<1>1. /\ pc # "down" /\ pc' # "down" /\ UNCHANGED <<job, tapes, opened>> /\ active' \subseteq active
      /\ Clock \in Nat /\ Clock' \in Nat /\ Clock <= Clock' /\ opened \subseteq Dom
      /\ active \subseteq Dom
      /\ \A d \in Dom : Count(d)' = Count(d)
      /\ \A d \in active \ active' : d \in Nest /\ DeactTime(d) <= Clock
  BY DEF Quiet, RunsOn, TInv, SetsTyped
<1>2. \A d : ActTime(d)' = ActTime(d) /\ DeactTime(d)' = DeactTime(d)
  BY NamelistKept DEF Quiet, RunsOn
<1>3. \A d \in Dom : ActTime(d) \in Nat
  BY NestTyped, RunNumbers DEF TInv, SetsTyped
<1>4. \A d \in Nest : DeactTime(d) \in Nat /\ d # 1
  BY NestTimes DEF TInv, SetsTyped, Nest
<1>5. \A d, v : TapeExists(d, v)' <=> TapeExists(d, v)
  BY <1>1 DEF TapeExists
<1>6. ASSUME NEW d \in opened, d \notin active'
      PROVE  ActTime(d) < Clock'
  <2>1. CASE d \notin active
    BY <1>1, <1>3, <2>1 DEF UnitsInv
  <2>2. CASE d \in active
    <3>1. d \in Nest /\ DeactTime(d) <= Clock /\ DeactTime(d) \in Nat /\ d # 1
      BY <1>1, <1>4, <1>6, <2>2
    <3>2. ActTime(d) < DeactTime(d) /\ ActTime(d) \in Nat
      BY <1>1, <1>3, <2>2, <3>1 DEF UnitsInv
    <3> QED BY <1>1, <3>1, <3>2
  <2> QED BY <2>1, <2>2
<1>7. \A d \in opened' : TapeExists(d, Count(d))'
  BY <1>1, <1>5 DEF UnitsInv
<1> QED BY <1>1, <1>2, <1>6, <1>7 DEF UnitsInv

\* A step that writes domain d, new is what becomes active.
LEMMA UnitsOpen ==
  ASSUME TInv, UnitsInv, RunsOn, Clock' = Clock, NEW d \in Dom, NEW count, NEW u,
         OutTap(d, count, u), Counted(d, Suffix(d, count)),
         d \in active => count = Count(d),
         ~ job.ifrest => count = 0,
         active' \subseteq active \union {d}, active \subseteq active' \union {d},
         d \in active' \/ ActTime(d) < Clock,
         d \in active' /\ d # 1 => ActTime(d) < DeactTime(d)
  PROVE  UnitsInv'
<1>1. PICK n : n = Suffix(d, count)
  OBVIOUS
<1>2. /\ opened' = opened \union {d} /\ <<d, n, u>> \in tapes'
      /\ \A e, v : TapeExists(e, v)' <=> TapeExists(e, v) \/ (e = d /\ v = n)
      /\ ~ job.ifrest => n = count
  BY <1>1, OutTapFiles
<1>3. Count(d)' = n /\ \A e \in Dom \ {d} : Count(e)' = Count(e)
  BY <1>1 DEF Counted
<1>4. ASSUME NEW e \in opened'
      PROVE  TapeExists(e, Count(e))' /\ (e \in active' \/ ActTime(e) < Clock)
  <2>1. CASE e = d
    BY <1>2, <1>3, <2>1
  <2>2. CASE e # d
    BY <1>2, <1>3, <2>2 DEF UnitsInv, RunsOn, TInv, SetsTyped
  <2> QED BY <2>1, <2>2
<1> QED BY NamelistKept, <1>4, <1>2, <1>3 DEF UnitsInv, RunsOn, TInv, SetsTyped

LEMMA UnitsWrites ==
  ASSUME TInv, UnitsInv, NEW d \in Dom, Writes(d)
  PROVE  UnitsInv'
<1>1. PICK u \in Nat : OutTap(d, Count(d), u)
  BY DEF Writes
<1>2. d \notin active' => ActTime(d) < Clock
  <2> SUFFICES ASSUME d \notin active' PROVE ActTime(d) < Clock
    OBVIOUS
  <2> QED BY NestTimes DEF TInv, SetsTyped, Nest, UnitsInv, Writes, RunsOn
<1> QED BY <1>1, <1>2, UnitsOpen DEF UnitsInv, RunsOn, Writes

LEMMA UnitsActivates ==
  ASSUME TInv, UnitsInv, NEW d \in Nest, Activates(d)
  PROVE  UnitsInv'
<1>1. d \in Dom
  BY RunNumbers DEF TInv, SetsTyped
<1> QED BY <1>1, UnitsOpen DEF Activates, UnitsInv, RunsOn

LEMMA UnitsDown ==
  ASSUME GoDown
  PROVE  UnitsInv'
BY DEF GoDown, UnitsInv

LEMMA UnitsStart ==
  ASSUME TInv, BdyInv, RunInv, Start
  PROVE  UnitsInv'
<1>1. /\ pc = "down" /\ pc' = "check" /\ mem' = mem /\ active' = {1} /\ opened' = {1}
      /\ <<1, 0, 0>> \in tapes'
  BY DEF Start, ChecksNests
<1>2. Count(1)' = 0
  BY RunNumbers, <1>1 DEF RunInv, AllGone, Zero, Count, TInv, SetsTyped
<1> QED BY <1>1, <1>2 DEF UnitsInv, TapeExists

LEMMA UnitsRestart ==
  ASSUME TInv, BdyInv, SavInv, UnitsInv, NEW ixtimr \in Saved, NEW given \in Givens,
         Restart(ixtimr, given)
  PROVE  UnitsInv'
<1>1. PICK t \in Nat : Resumed(t, Corrected(given, Rounded(nml, t)))
  BY RestartState
<1>2. pc = "down" /\ pc' # "down" /\ job'.ifrest /\ opened' = opened /\ nml' = nml
  <2>1. PICK k : \E u \in nml.timax : job' = [timax |-> u, ifrest |-> TRUE, ixtimr |-> ixtimr, ktaur |-> k]
    BY DEF Restart
  <2> QED BY <2>1 DEF Restart, ChecksNests
<1>3. ASSUME NEW d \in active' \ {1}
      PROVE  ActTime(d) < DeactTime(d)
  <2>1. PICK f \in files : f.d = d /\ FileOf(f, t)
    BY <1>1, RunNumbers DEF Resumed, TInv, SetsTyped
  <2> QED BY <1>1, RunNumbers, <2>1, NestTimes DEF FileOf, Resumed, TInv, SetsTyped
<1> QED BY <1>2, <1>3, NamelistKept DEF UnitsInv

LEMMA UnitsInit == Init => UnitsInv
BY DEF Init, UnitsInv

LEMMA UnitsStay ==
  ASSUME UnitsInv, UNCHANGED <<nml, job, tapes, pc, mem, active, opened>>
  PROVE  UnitsInv'
<1> QED BY NamelistKept DEF UnitsInv, TapeExists, Count, Clock, XTime

\* A step that begins a run, ends it, is of one, or leaves all as it is.
LEMMA StepPhases ==
  ASSUME TInv, [Next]_vars
  PROVE  \/ pc # "down" /\ pc' # "down"
         \/ Start
         \/ \E ixtimr \in Saved, given \in Givens :
              /\ \A later \in Saved : later > ixtimr => ~ CanRestart(later)
              /\ Restart(ixtimr, given)
         \/ pc # "down" /\ GoDown /\ UNCHANGED <<nml, lost, tapes>> /\ (files' = files \/ Crash)
         \/ pc = "down" /\ UNCHANGED vars
<1>1. CASE Start \/ RestartAny
  BY <1>1 DEF RestartAny
<1>2. CASE Over \/ UNCHANGED vars
  BY <1>2 DEF Over, vars, running
<1>3. CASE Crash
  BY <1>3 DEF Crash
<1>4. CASE ReadBoundary \/ NextStep
  BY <1>4 DEF ReadBoundary, NextStep, ChecksNests, GoDown
<1>5. CASE \/ CheckSkips \/ Deactivate \/ Activate
           \/ SolveCoarse \/ SolveNest \/ NextTurn \/ FeedBack
           \/ Output \/ WriteOutput \/ (\E p \in Proc : Save(p))
  <2>1. CASE CheckSkips \/ Deactivate \/ Activate
    BY <2>1 DEF NextCheck, TInv, SetsTyped, CheckSkips, Deactivate, Activate
  <2>2. CASE \/ SolveCoarse \/ SolveNest \/ NextTurn \/ FeedBack
             \/ Output \/ WriteOutput \/ (\E p \in Proc : Save(p))
    BY <2>2 DEF SolveCoarse, SolveNest, NextTurn, FeedBack, Output, WriteOutput, Save
  <2> QED BY <1>5, <2>1, <2>2
<1> QED BY <1>1, <1>2, <1>3, <1>4, <1>5 DEF Next

LEMMA UnitsNext ==
  ASSUME TInv, BdyInv, RunInv, SavInv, UnitsInv, TInv', BdyInv', [Next]_vars
  PROVE  UnitsInv'
<1>1. CASE pc # "down" /\ pc' # "down"
  BY <1>1, StepKinds, UnitsQuiet, UnitsWrites, UnitsActivates
<1>2. CASE Start
  BY <1>2, UnitsStart
<1>3. CASE \E ixtimr \in Saved, given \in Givens : Restart(ixtimr, given)
  BY <1>3, UnitsRestart
<1>4. CASE GoDown
  BY <1>4, UnitsDown
<1>5. CASE UNCHANGED vars
  BY <1>5, UnitsStay DEF vars, running
<1> QED BY <1>1, <1>2, <1>3, <1>4, <1>5, StepPhases

-------------------------------------------------------------------------------
(* What kills have cut *)

\* No file is gone on with that a kill has cut.
CutInv == \A r \in cut : EndOfFile(r) /\ (r[1] \in opened => r[2] # Count(r[1]))

LEMMA CutWrites ==
  ASSUME CutInv, opened \subseteq Dom, NEW d \in Dom, NEW count, NEW u, OutTap(d, count, u),
         Counted(d, Suffix(d, count)), d \in opened => count = Count(d)
  PROVE  CutInv'
<1>1. PICK n : n = Suffix(d, count)
  OBVIOUS
<1>2. /\ opened' = opened \union {d}
      /\ \A q \in tapes' : q \in tapes \/ q = <<d, n, u>>
      /\ \A r \in cut' : r \in cut /\ (d \in opened \/ ~ (r[1] = d /\ r[2] = n))
      /\ d \in opened => n = count
  <2>1. \A q \in tapes' : q \in tapes \/ q = <<d, n, u>>
    BY <1>1 DEF OutTap
  <2>2. \A r \in cut' : r \in cut /\ (d \in opened \/ ~ (r[1] = d /\ r[2] = n))
    BY <1>1 DEF OutTap
  <2>3. opened' = opened \union {d} /\ (d \in opened => n = count)
    BY <1>1 DEF OutTap, Suffix
  <2> QED BY <2>1, <2>2, <2>3
<1>3. Count(d)' = n /\ \A e \in Dom \ {d} : Count(e)' = Count(e)
  BY <1>1 DEF Counted
<1>4. ASSUME NEW r \in cut'
      PROVE  EndOfFile(r)' /\ (r[1] \in opened' => r[2] # Count(r[1])')
  <2>1. r \in cut /\ EndOfFile(r) /\ (r[1] \in opened => r[2] # Count(r[1]))
    BY <1>2, <1>4 DEF CutInv
  <2>2. ~ (r[1] = d /\ r[2] = n)
    BY <1>2, <1>4, <2>1
  <2>3. \A q \in tapes' : q[1] = r[1] /\ q[2] = r[2] => q \in tapes
    BY <1>2, <2>2
  <2>4. EndOfFile(r)'
    BY <2>1, <2>3 DEF EndOfFile
  <2>5. ASSUME r[1] \in opened'
        PROVE  r[2] # Count(r[1])'
    <3>1. CASE r[1] = d
      BY <1>3, <2>2, <3>1
    <3>2. CASE r[1] # d
      <4>1. r[1] \in opened /\ r[1] \in Dom \ {d}
        BY <1>2, <2>5, <3>2
      <4>2. Count(r[1])' = Count(r[1])
        BY <1>3, <4>1
      <4> QED BY <2>1, <4>1, <4>2
    <3> QED BY <3>1, <3>2
  <2> QED BY <2>4, <2>5
<1> QED BY <1>4 DEF CutInv

LEMMA CutInit == Init => CutInv
BY DEF Init, CutInv

LEMMA CutNext ==
  ASSUME TInv, BdyInv, RunInv, UnitsInv, CutInv, TInv', BdyInv', [Next]_vars
  PROVE  CutInv'
<1>1. opened \subseteq Dom /\ (pc = "down" => opened = {}) /\ Nest \subseteq Dom
  BY RunNumbers DEF UnitsInv, TInv, SetsTyped
<1>2. CASE pc # "down" /\ pc' # "down"
  <2>1. CASE Quiet
    <3>1. UNCHANGED <<tapes, cut, opened>> /\ \A d \in Dom : Count(d)' = Count(d)
      BY <2>1 DEF Quiet
    <3>2. \A r : EndOfFile(r) => EndOfFile(r)'
      BY <3>1 DEF EndOfFile
    <3> QED BY <1>1, <3>1, <3>2 DEF CutInv
  <2>2. CASE \E d \in Dom : Writes(d)
    <3>1. PICK d \in Dom : Writes(d)
      BY <2>2
    <3>2. PICK t \in Nat : OutTap(d, Count(d), t)
      BY <3>1 DEF Writes
    <3> QED BY <1>1, <3>1, <3>2, CutWrites DEF Writes
  <2>3. CASE \E d \in Nest : Activates(d)
    <3>1. PICK d \in Nest : Activates(d)
      BY <2>3
    <3>2. d \notin opened
      BY <3>1 DEF UnitsInv, Activates, RunsOn
    <3> QED BY <1>1, <3>1, <3>2, CutWrites DEF Activates
  <2> QED BY <1>2, <2>1, <2>2, <2>3, StepKinds
<1>3. CASE Start
  <2>1. /\ opened' = {1} /\ tapes' = {r \in tapes : ~ (r[1] = 1 /\ r[2] = 0)} \union {<<1, 0, 0>>}
        /\ cut' = {r \in cut : ~ (r[1] = 1 /\ r[2] = 0)}
    BY <1>3 DEF Start
  <2>2. Count(1)' = 0
    BY RunNumbers, <1>3 DEF Start, ChecksNests, RunInv, AllGone, Zero, Count, TInv, SetsTyped
  <2>3. \A r \in cut' : EndOfFile(r)'
    BY <2>1 DEF CutInv, EndOfFile
  <2> QED BY <2>1, <2>2, <2>3 DEF CutInv
<1>4. CASE \E ixtimr \in Saved, given \in Givens : Restart(ixtimr, given)
  <2>1. pc = "down" /\ UNCHANGED <<tapes, cut, opened>>
    BY <1>4 DEF Restart
  <2>2. \A r : EndOfFile(r) => EndOfFile(r)'
    BY <2>1 DEF EndOfFile
  <2> QED BY <1>1, <2>1, <2>2 DEF CutInv
<1>5. CASE GoDown /\ tapes' = tapes
  <2>1. opened' = {} /\ \A r : EndOfFile(r) => EndOfFile(r)'
    BY <1>5 DEF GoDown, EndOfFile
  <2>2. \A r \in cut' : EndOfFile(r)
    <3>1. CASE Crash
      BY <3>1 DEF Crash, CutInv
    <3>2. CASE cut' = cut
      BY <3>2 DEF CutInv
    <3>3. CASE Start \/ Deactivate \/ Activate \/ WriteOutput
      BY <2>1, <3>2, <3>3 DEF Start, Deactivate, Activate, WriteOutput, OutTap
    <3>4. CASE \/ RestartAny \/ ReadBoundary \/ CheckSkips \/ SolveCoarse \/ SolveNest \/ NextTurn
               \/ FeedBack \/ Output \/ (\E p \in Proc : Save(p)) \/ NextStep \/ Over \/ UNCHANGED vars
      BY <3>2, <3>4 DEF RestartAny, Restart, ReadBoundary, CheckSkips, SolveCoarse, SolveNest, NextTurn,
         FeedBack, Output, Save, NextStep, Over, vars
    <3> QED BY <3>1, <3>3, <3>4 DEF Next
  <2> QED BY <2>1, <2>2 DEF CutInv
<1>6. CASE UNCHANGED vars
  BY <1>6 DEF vars, running, CutInv, EndOfFile, Count
<1> QED BY <1>2, <1>3, <1>4, <1>5, <1>6, StepPhases

-------------------------------------------------------------------------------
(* Output *)

\* Domain d gives output at time t.
GivesOutput(d, t) ==
  \/ t = ActTime(d) /\ (d = 1 \/ t < DeactTime(d))
  \/ /\ ActTime(d) < t /\ (d = 1 \/ t <= DeactTime(d))
     /\ \E k \in Nat \ {0} : k % nml.inctap[d] = 0 /\ t = Nint(k * nml.tapfrq, Step) * Step

\* Time t is of this run, and the program has got beyond the output of t.
OfRun(t) == job.ifrest => t > job.ktaur * Step
Past(d, t) ==
  \/ t < Clock
  \/ t = Clock /\ pc \in {"loop", "check", "solve"} /\ (t = ActTime(d) => d \in active)
  \/ t = Clock /\ pc = "output" /\ t # ActTime(d) /\ d \notin outs

\* It is in the file that this run has opened, which loses nothing.
Written(d, t) == d \in opened /\ <<d, Count(d), t>> \in tapes
KeepsWritten == \A d, t : Written(d, t) => Written(d, t)'

\* TAPTIM is a multiple of TAPFRQ, the first that the steps have not reached.
Solving == pc \in {"nests", "end"}
NextTap(k) ==
  /\ tap = k * nml.tapfrq
  /\ KTau(1) < Nint(tap, Step) \/ (Solving /\ KTau(1) = Nint(tap, Step))
  /\ \A i \in 1..(k - 1) : /\ Nint(i * nml.tapfrq, Step) <= KTau(1)
                           /\ Solving => Nint(i * nml.tapfrq, Step) < KTau(1)
TapTimed == pc # "down" => \E k \in Nat \ {0} : NextTap(k)
PastWritten ==
  pc # "down" =>
    \A d \in Dom : \A t \in Nat : GivesOutput(d, t) /\ OfRun(t) /\ Past(d, t) => Written(d, t)
OutInv == TapTimed /\ PastWritten

LEMMA OutNumbers ==
  ASSUME nml \in Namelists
  PROVE  nml.tapfrq \in Nat \ {0} /\ nml.tapfrq >= Step /\ Step \in Nat \ {0}
<1>1. NamelistOK(nml)
  BY RunAssumption
<1> QED BY <1>1 DEF NamelistOK, Step

\* FirstAfter leaves out no multiple that the steps have not reached.
LEMMA FirstAfterLeast ==
  ASSUME NEW frq \in Nat \ {0}, NEW ktau \in Nat, Step \in Nat \ {0}, frq >= Step
  PROVE  \E k \in Nat \ {0} : /\ FirstAfter(frq, ktau) = k * frq /\ Nint(k * frq, Step) > ktau
                              /\ \A i \in 1..(k - 1) : Nint(i * frq, Step) <= ktau
<1> DEFINE n == ktau * Step
           S == {k \in 1..n : Nint(k * frq, Step) <= ktau}
<1>1. PICK q \in Nat \ {0} : FirstAfter(frq, ktau) = q * frq /\ Nint(q * frq, Step) > ktau
  BY FirstAfterFacts
<1>2. n \in Nat
  OBVIOUS
<1> HIDE DEF n
<1>3. IsFiniteSet(1..n) /\ S \subseteq 1..n
  BY <1>2, FS_Interval
<1>4. PICK c \in Nat : c = Cardinality(S)
  BY <1>3, FS_Subset, FS_CardinalityType
<1>5. q = c + 1
  <2>1. (c + 1) * frq = q * frq
    BY <1>1, <1>4 DEF FirstAfter, n
  <2> DEFINE x == q * frq
  <2>2. x \in Nat
    OBVIOUS
  <2> HIDE DEF x
  <2> QED BY <2>1, StepsApart, <2>2 DEF x
<1>6. ASSUME NEW i \in 1..(q - 1)
      PROVE  i \in S
  <2> SUFFICES ASSUME i \notin S
               PROVE  FALSE
    OBVIOUS
  <2>1. i \in Nat \ {0} /\ i <= c
    BY <1>5
  <2>2. ASSUME NEW j \in S
        PROVE  j \in 1..(i - 1)
    <3>1. j \in Nat \ {0} /\ j <= n
      BY <1>2
    <3>2. CASE i <= j
      <4>1. Nint(i * frq, Step) <= Nint(j * frq, Step)
        BY <2>1, <3>1, <3>2, StepsApart, NintOrder
      <4>2. i \in 1..n
        BY <1>2, <2>1, <3>1, <3>2
      <4> QED BY <4>1, <2>1, <3>1, <3>2, StepsApart, NintBounds, <4>2
    <3>3. CASE ~ (i <= j)
      BY <2>1, <3>1, <3>3
    <3> QED BY <3>2, <3>3
  <2>3. i - 1 \in Nat
    BY <2>1
  <2>4. Cardinality(1..(i - 1)) = i - 1
    BY <2>1, <2>3, FS_Interval
  <2>5. c <= i - 1
    <3>1. Cardinality(S) <= Cardinality(1..(i - 1))
      BY <2>2, <2>3, FS_Interval, FS_Subset
    <3> QED BY <1>4, <2>4, <3>1
  <2> QED BY <2>1, <2>5
<1> QED BY <1>1, <1>6

\* The quotient is known by its bounds.
LEMMA DivUnique ==
  ASSUME NEW x \in Nat, NEW y \in Nat \ {0}, NEW q \in Nat, q * y <= x, x < q * y + y
  PROVE  x \div y = q
<1> DEFINE z == x \div y
<1>1. z \in Nat /\ z * y <= x /\ x < z * y + y
  BY DivBounds
<1> HIDE DEF z
<1> DEFINE u == z * y
           v == q * y
<1> HIDE DEF u, v
<1>2. z = q
  BY <1>1, StepsApart
<1> QED BY <1>2 DEF z

\* The time of a multiple of an interval, rounded to steps, tells which it is.
LEMMA NintBack ==
  ASSUME NEW F \in Nat \ {0}, NEW S \in Nat \ {0}, F >= S, NEW k \in Nat
  PROVE  Nint(Nint(k * F, S) * S, F) = k
<1>1. k * F \in Nat
  OBVIOUS
<1>2. PICK j : j = Nint(k * F, S)
  OBVIOUS
<1>3. j \in Nat /\ 2 * (j * S) <= 2 * (k * F) + S /\ 2 * (k * F) < 2 * (j * S) + S
  BY <1>1, <1>2, NintBounds
<1>4. PICK t \in Nat : t = j * S
  BY <1>3
<1>5. PICK m \in Nat : m = k * F
  BY <1>1
<1>6. 2 * t <= 2 * m + S /\ 2 * m < 2 * t + S
  BY <1>3, <1>4, <1>5
<1>7. 2 * t + F < 2 * m + 2 * F
  <2>1. CASE S < F
    BY <1>6, <2>1
  <2>2. CASE S = F
    BY <1>6, <2>2, <1>4, <1>5, <1>3, StepsApart
  <2> QED BY <2>1, <2>2
<1>8. k * (2 * F) = 2 * m
  BY <1>5
<1>9. (2 * t + F) \div (2 * F) = k
  BY <1>6, <1>7, <1>8, DivUnique
<1> QED BY <1>2, <1>4, <1>9 DEF Nint

\* Output is given after whole steps, and the namelist says when.
LEMMA OutputStep ==
  ASSUME nml \in Namelists, NEW d \in Dom, NEW t \in Nat, GivesOutput(d, t)
  PROVE  ActTime(d) <= t /\ \E j \in Nat : t = j * Step
<1>1. Step \in Nat \ {0} /\ nml.tapfrq \in Nat \ {0} /\ Nest = Dom \ {1}
  BY OutNumbers, RunNumbers
<1>2. ActTime(d) \in Nat /\ \E j \in Nat : ActTime(d) = j * Step
  <2>1. CASE d = 1
    BY <1>1, <2>1 DEF ActTime
  <2>2. CASE d # 1
    BY <1>1, <2>2, NestTimes
  <2> QED BY <2>1, <2>2
<1>3. CASE t = ActTime(d)
  BY <1>2, <1>3
<1>4. CASE t # ActTime(d)
  <2>1. PICK k \in Nat \ {0} : t = Nint(k * nml.tapfrq, Step) * Step /\ ActTime(d) < t
    BY <1>4 DEF GivesOutput
  <2>2. Nint(k * nml.tapfrq, Step) \in Nat
    BY <1>1, NintBounds
  <2> QED BY <1>2, <2>1, <2>2
<1> QED BY <1>3, <1>4

LEMMA OutputsSame ==
  ASSUME nml' = nml
  PROVE  \A d, t : GivesOutput(d, t)' <=> GivesOutput(d, t)
<1> QED BY NamelistKept DEF GivesOutput

\* OUTTAP keeps what this run has written, and adds to it.
LEMMA OutTapWrites ==
  ASSUME opened \subseteq Dom, NEW d, NEW count, NEW u, OutTap(d, count, u),
         Counted(d, Suffix(d, count)), d \in opened => count = Count(d)
  PROVE  Written(d, u)' /\ KeepsWritten
<1>1. PICK n : n = Suffix(d, count)
  OBVIOUS
<1>2. /\ opened' = opened \union {d} /\ <<d, n, u>> \in tapes'
      /\ \A r \in tapes : r \in tapes' \/ (d \notin opened /\ r[1] = d /\ r[2] = n)
      /\ d \in opened => n = count
  BY <1>1, OutTapFiles
<1>3. Written(d, u)'
  BY <1>2, <1>1 DEF Written, Counted
<1>4. ASSUME NEW e, NEW t, Written(e, t)
      PROVE  Written(e, t)'
  <2>1. PICK r \in tapes : r = <<e, Count(e), t>> /\ r[1] = e /\ e \in opened
    BY <1>4 DEF Written
  <2> QED BY <1>2, <2>1, <1>1 DEF Written, Counted
<1> QED BY <1>3, <1>4 DEF KeepsWritten

\* A nest that begins has no unit open.
LEMMA NewUnit ==
  ASSUME UnitsInv, NEW d \in Nest, Activates(d)
  PROVE  d \notin opened
<1> QED BY DEF UnitsInv, Activates, RunsOn

LEMMA WrittenStays ==
  ASSUME TInv, UnitsInv, Quiet \/ (\E d \in Dom : Writes(d)) \/ (\E d \in Nest : Activates(d))
  PROVE  KeepsWritten
<1>1. opened \subseteq Dom
  BY DEF TInv, SetsTyped
<1>2. CASE Quiet
  BY <1>1, <1>2 DEF Quiet, KeepsWritten, Written
<1>3. CASE \E d \in Dom : Writes(d)
  <2>1. PICK d \in Dom : Writes(d)
    BY <1>3
  <2>2. PICK t \in Nat : OutTap(d, Count(d), t)
    BY <2>1 DEF Writes
  <2> QED BY <1>1, <2>1, <2>2, OutTapWrites DEF Writes
<1>4. CASE \E d \in Nest : Activates(d)
  <2>1. PICK d \in Nest : Activates(d)
    BY <1>4
  <2> QED BY <1>1, <2>1, NewUnit, OutTapWrites DEF Activates
<1> QED BY <1>2, <1>3, <1>4

\* Steps that give no output and do not get beyond any.
LEMMA OutMoves ==
  ASSUME OutInv, pc # "down", UNCHANGED <<nml, job, tap>>, KTau(1)' = KTau(1), Clock' = Clock,
         pc' # "down", Solving' <=> Solving,
         \A d \in Dom : \A t \in Nat : Past(d, t)' /\ GivesOutput(d, t) => Past(d, t) \/ Written(d, t)',
         KeepsWritten
  PROVE  OutInv'
<1>1. Step' = Step
  BY NamelistKept
<1>2. TapTimed'
  <2>1. PICK k \in Nat \ {0} : NextTap(k)
    BY DEF OutInv, TapTimed
  <2>2. NextTap(k)'
    BY <1>1, <2>1 DEF NextTap
  <2> QED BY <2>2 DEF TapTimed
<1>3. PastWritten'
  BY <1>1, OutputsSame DEF OutInv, PastWritten, KeepsWritten, OfRun
<1> QED BY <1>2, <1>3 DEF OutInv

LEMMA OutDown ==
  ASSUME pc' = "down"
  PROVE  OutInv'
BY DEF OutInv, TapTimed, PastWritten

LEMMA OutInit == Init => OutInv
BY DEF Init, OutInv, TapTimed, PastWritten

LEMMA OutStart ==
  ASSUME TInv, BdyInv, RunInv, Start
  PROVE  OutInv'
<1>1. nml \in Namelists /\ Monitor \in Proc /\ 1 \in Dom
  BY RunNumbers DEF TInv, SetsTyped
<1>2. /\ pc = "down" /\ pc' = "check" /\ UNCHANGED <<nml, mem>>
      /\ tap' = FirstAfter(nml.tapfrq, 0) /\ active' = {1} /\ opened' = {1}
      /\ <<1, 0, 0>> \in tapes'
  BY DEF Start, ChecksNests
<1>3. KTau(1)' = 0 /\ Clock' = 0
  BY <1>1, <1>2 DEF RunInv, AllGone, KTau, Clock, XTime, Zero
<1>4. PICK k \in Nat \ {0} : /\ FirstAfter(nml.tapfrq, 0) = k * nml.tapfrq
                             /\ Nint(k * nml.tapfrq, Step) > 0
                             /\ \A i \in 1..(k - 1) : Nint(i * nml.tapfrq, Step) <= 0
  BY <1>1, OutNumbers, FirstAfterLeast
<1>5. Step' = Step
  BY <1>2, NamelistKept
<1>6. TapTimed'
  <2>1. NextTap(k)'
    BY <1>2, <1>3, <1>4, <1>5 DEF NextTap, Solving
  <2> QED BY <2>1 DEF TapTimed
<1>7. Written(1, 0)'
  <2>1. Count(1)' = 0
    BY <1>1, <1>2 DEF RunInv, AllGone, Count, Zero
  <2> QED BY <1>2, <2>1 DEF Written
<1>8. PastWritten'
  <2> SUFFICES ASSUME NEW d \in Dom, NEW t \in Nat, GivesOutput(d, t)', Past(d, t)'
               PROVE  Written(d, t)'
    BY DEF PastWritten
  <2>1. t = 0 /\ (t = ActTime(d)' => d = 1)
    BY <1>2, <1>3 DEF Past
  <2>2. GivesOutput(d, t) /\ ActTime(d)' = ActTime(d)
    BY <1>2, OutputsSame, NamelistKept
  <2>3. ActTime(d) <= t /\ ActTime(d) \in Nat
    BY <1>1, <2>2, OutputStep, NestTyped
  <2> QED BY <1>7, <2>1, <2>2, <2>3
<1> QED BY <1>6, <1>8 DEF OutInv

LEMMA OutRestart ==
  ASSUME TInv, BdyInv, SavInv, NEW ixtimr \in Saved, NEW given \in Givens, Restart(ixtimr, given),
         BdyInv'
  PROVE  OutInv'
<1>1. nml \in Namelists /\ Monitor \in Proc /\ 1 \in Dom
  BY RunNumbers DEF TInv, SetsTyped
<1>2. PICK ktau : ktau = (CHOOSE f \in ToOpen(Monitor, 1, ixtimr) : TRUE).mem.ktau
  OBVIOUS
<1>3. /\ pc = "down" /\ nml' = nml /\ Restartable(ixtimr, given) /\ pc' \in {"check", "loop"}
      /\ job'.ifrest /\ job'.ktaur = ktau /\ tap' = FirstAfter(nml.tapfrq, ktau)
  <2>1. \E t \in nml.timax : job' = [timax |-> t, ifrest |-> TRUE, ixtimr |-> ixtimr, ktaur |-> ktau]
    BY <1>2 DEF Restart
  <2>2. job'.ifrest /\ job'.ktaur = ktau
    BY <2>1
  <2>3. pc = "down" /\ nml' = nml /\ Restartable(ixtimr, given) /\ pc' \in {"check", "loop"}
        /\ tap' = FirstAfter(nml.tapfrq, ktau)
    BY <1>2 DEF Restart, ChecksNests
  <2> QED BY <2>2, <2>3
<1>4. mem'[Monitor][1] = (CHOOSE f \in ToOpen(Monitor, 1, ixtimr) : TRUE).mem
  <2>1. 1 \in Corrected(given, Minutes(ixtimr))
    BY <1>1, CorrectedDom
  <2> QED BY <1>1, <2>1 DEF Restart
<1>5. ktau \in Nat /\ KTau(1)' = ktau
  <2>1. 1 \in Corrected(given, Minutes(ixtimr))
    BY <1>1, CorrectedDom
  <2>2. Readable(Monitor, 1, ixtimr)
    BY <1>1, <1>3, <2>1 DEF Restartable
  <2>3. PICK f : f = CHOOSE g \in ToOpen(Monitor, 1, ixtimr) : TRUE
    OBVIOUS
  <2>4. f \in files
    BY <1>1, <2>2, <2>3, OpenedFile
  <2>5. f.mem \in Clocks
    BY <2>4 DEF TInv, FilesTyped
  <2> QED BY <1>2, <1>4, <2>3, <2>5 DEF Clocks, KTau
<1>6. Clock' = ktau * Step /\ Step' = Step
  BY <1>1, <1>2, <1>3, <1>4, NamelistKept DEF BdyInv, Clocked, Clock, XTime
<1>7. PICK k \in Nat \ {0} : /\ FirstAfter(nml.tapfrq, ktau) = k * nml.tapfrq
                             /\ Nint(k * nml.tapfrq, Step) > ktau
                             /\ \A i \in 1..(k - 1) : Nint(i * nml.tapfrq, Step) <= ktau
  BY <1>1, <1>5, OutNumbers, FirstAfterLeast
<1>8. TapTimed'
  <2>1. k * nml.tapfrq \in Nat
    BY <1>1, OutNumbers
  <2>2. Nint(k * nml.tapfrq, Step) \in Nat
    BY <1>1, <2>1, OutNumbers, NintBounds
  <2>3. KTau(1)' < Nint(tap', Step')
    BY <1>3, <1>5, <1>6, <1>7, <2>2
  <2>4. tap' = k * nml'.tapfrq
    BY <1>3, <1>7
  <2>5. NextTap(k)'
    BY <1>3, <1>5, <1>6, <1>7, <2>3, <2>4 DEF NextTap, Solving
  <2> QED BY <2>5 DEF TapTimed
<1>9. PastWritten'
  <2> SUFFICES ASSUME NEW d \in Dom, NEW t \in Nat, OfRun(t)', Past(d, t)'
               PROVE  FALSE
    BY DEF PastWritten
  <2>1. t > ktau * Step
    BY <1>3, <1>6 DEF OfRun
  <2>2. t < Clock' \/ t = Clock'
    BY DEF Past
  <2>3. ktau * Step \in Nat
    BY <1>1, <1>5, OutNumbers
  <2> QED BY <1>6, <2>1, <2>2, <2>3
<1> QED BY <1>8, <1>9 DEF OutInv

LEMMA OutReadBoundary ==
  ASSUME TInv, OutInv, ReadBoundary, pc' # "down" => KeepsWritten
  PROVE  OutInv'
<1>1. pc = "loop" /\ nml' = nml /\ tapes' = tapes
      /\ (GoDown \/ (pc' = "check" /\ UNCHANGED <<job, mem, active, tap, outs, opened>>))
  BY DEF ReadBoundary, ChecksNests
<1>2. CASE GoDown
  BY <1>2, OutDown DEF GoDown
<1>3. CASE pc' = "check" /\ UNCHANGED <<job, mem, active, tap, outs, opened>>
  <2>1. KTau(1)' = KTau(1) /\ Clock' = Clock /\ \A d : ActTime(d)' = ActTime(d)
    BY <1>1, <1>3, NamelistKept DEF KTau, Clock, XTime
  <2>2. \A d, t : Past(d, t)' => Past(d, t)
    BY <1>1, <1>3, <2>1 DEF Past
  <2> QED BY <1>1, <1>3, <2>1, <2>2, OutMoves DEF Solving
<1> QED BY <1>1, <1>2, <1>3

LEMMA OutChecks ==
  ASSUME TInv, BdyInv, RunInv, OutInv, CheckSkips \/ Deactivate, KeepsWritten
  PROVE  OutInv'
<1>1. back \in {"loop", "solve"}
  BY DEF TInv, SetsTyped
<1>2. /\ pc = "check" /\ pc' \in {"check", "loop", "solve"} /\ UNCHANGED <<nml, job, tap, outs>>
      /\ active' \subseteq active
  BY <1>1 DEF CheckSkips, Deactivate, NextCheck
<1>3. KTau(1)' = KTau(1) /\ Clock' = Clock /\ \A d : ActTime(d)' = ActTime(d)
  BY <1>2, CoarseSteps, NamelistKept
<1>4. \A d, t : Past(d, t)' => Past(d, t)
  BY <1>2, <1>3 DEF Past
<1> QED BY <1>2, <1>3, <1>4, OutMoves DEF Solving

LEMMA OutActivate ==
  ASSUME TInv, BdyInv, RunInv, UnitsInv, OutInv, Activate
  PROVE  OutInv'
<1>1. /\ back \in {"loop", "solve"} /\ nml \in Namelists /\ Monitor \in Proc /\ Nest \subseteq Dom
      /\ Clock \in Nat
  BY CoarseTime, RunNumbers DEF TInv, SetsTyped, RunInv
<1>2. PICK n, m, count, u : n = check /\ m = Mother(n) /\ count = mem[Monitor][m].itap /\ u = XTime(m)
  OBVIOUS
<1>3. /\ pc = "check" /\ pc' \in {"check", "loop", "solve"} /\ UNCHANGED <<nml, job, tap, outs>>
      /\ active' = active \union {n} /\ n \in Nest /\ Begun(n) /\ OutTap(n, count, u)
  BY <1>1, <1>2 DEF Activate, NextCheck
<1>4. KTau(1)' = KTau(1) /\ Clock' = Clock /\ \A d : ActTime(d)' = ActTime(d)
  BY <1>3, CoarseSteps, NamelistKept
<1>5. ActTime(n) = Clock /\ u = Clock
  <2>1. ActTime(n) = Clock /\ m \in active /\ mem[Monitor][m].xtime = Clock
    BY <1>1, <1>2, <1>3, CheckedNest
  <2> QED BY <1>2, <2>1 DEF XTime
<1>6. Written(n, u)' /\ KeepsWritten
  <2>1. Activates(n) /\ n \in Nest
    BY <1>2, ActivateKind
  <2>2. n \notin opened /\ opened \subseteq Dom
    BY <2>1, NewUnit DEF TInv, SetsTyped
  <2>3. count = Count(Mother(n))
    BY <1>2 DEF Count
  <2>4. Counted(n, Suffix(n, Count(Mother(n))))
    BY <2>1 DEF Activates
  <2>5. Counted(n, Suffix(n, count))
    BY <2>3, <2>4
  <2> QED BY <1>3, <2>2, <2>5, OutTapWrites
<1>7. ASSUME NEW d \in Dom, NEW t \in Nat, Past(d, t)', GivesOutput(d, t)
      PROVE  Past(d, t) \/ Written(d, t)'
  <2>1. CASE d = n
    <3>1. t = Clock \/ t < Clock
      BY <1>4, <1>7 DEF Past
    <3>2. ActTime(d) <= t
      BY <1>1, <1>7, OutputStep
    <3>3. t = u
      BY <1>1, <1>5, <2>1, <3>1, <3>2
    <3> QED BY <1>6, <2>1, <3>3
  <2>2. CASE d # n
    BY <1>3, <1>4, <1>7, <2>2 DEF Past
  <2> QED BY <2>1, <2>2
<1> QED BY <1>3, <1>4, <1>6, <1>7, OutMoves DEF Solving

LEMMA OutSolveCoarse ==
  ASSUME TInv, BdyInv, RunInv, OutInv, SolveCoarse, KeepsWritten
  PROVE  OutInv'
<1>1. /\ nml \in Namelists /\ Monitor \in Proc /\ 1 \in Dom /\ Step \in Nat \ {0}
      /\ Nest = Dom \ {1} /\ nml.tapfrq \in Nat \ {0}
  BY OutNumbers, RunNumbers DEF TInv, SetsTyped
<1>2. /\ pc = "solve" /\ pc' \in {"nests", "end"} /\ UNCHANGED <<nml, job, tap, tapes, opened>>
      /\ Solved(1) /\ 1 \in active
  BY DEF SolveCoarse, TInv, SetsTyped
<1>3. Step' = Step /\ DtMin[1] = Step
  BY <1>1, <1>2, NamelistKept, DtMinFacts
<1>4. KTau(1)' = KTau(1) + 1 /\ KTau(1) \in Nat /\ Clock \in Nat /\ Clock = KTau(1) * Step
  BY <1>1, <1>2, SolvedSteps, CoarseTime DEF KTau, RunInv
<1>5. Clock' = Clock + Step
  <2>1. mem'[Monitor][1].xtime = 0 + (mem[Monitor][1].ktau + 1) * DtMin[1]
    BY <1>1, <1>2, SolvedSteps
  <2>2. Clock' = (KTau(1) + 1) * Step
    BY <1>1, <1>3, <1>4, <2>1 DEF Clock, XTime, KTau
  <2>3. (KTau(1) + 1) * Step = KTau(1) * Step + Step
    BY <1>1, <1>4
  <2> QED BY <1>4, <2>2, <2>3
<1>6. TapTimed'
  <2>1. PICK k \in Nat \ {0} : NextTap(k)
    BY <1>2 DEF OutInv, TapTimed
  <2>2. \A i \in Nat : Nint(i * nml.tapfrq, Step) \in Nat
    <3>1. \A i \in Nat : i * nml.tapfrq \in Nat
      BY <1>1
    <3> QED BY <1>1, <3>1, NintBounds
  <2>3. tap = k * nml.tapfrq /\ KTau(1) < Nint(tap, Step)
    BY <1>2, <2>1 DEF NextTap, Solving
  <2>4. KTau(1)' < Nint(tap, Step) \/ KTau(1)' = Nint(tap, Step)
    BY <1>4, <2>2, <2>3
  <2>5. ASSUME NEW i \in 1..(k - 1)
        PROVE  Nint(i * nml.tapfrq, Step) <= KTau(1)' /\ Nint(i * nml.tapfrq, Step) < KTau(1)'
    <3>1. Nint(i * nml.tapfrq, Step) <= KTau(1)
      BY <2>1 DEF NextTap
    <3>2. Nint(i * nml.tapfrq, Step) \in Nat
      BY <2>2
    <3> QED BY <1>4, <3>1, <3>2
  <2>6. NextTap(k)'
    BY <1>2, <1>3, <2>3, <2>4, <2>5 DEF NextTap, Solving
  <2> QED BY <2>6 DEF TapTimed
<1>7. PastWritten'
  <2> SUFFICES ASSUME NEW d \in Dom, NEW t \in Nat, GivesOutput(d, t)', OfRun(t)', Past(d, t)'
               PROVE  Written(d, t)'
    BY DEF PastWritten
  <2>1. GivesOutput(d, t) /\ OfRun(t)
    BY <1>2, <1>3, OutputsSame DEF OfRun
  <2>2. t < Clock + Step
    BY <1>2, <1>5 DEF Past
  <2>3. PICK j \in Nat : t = j * Step
    BY <1>1, <2>1, OutputStep
  <2>4. t <= Clock
    <3>1. PICK k \in Nat : k = KTau(1)
      BY <1>4
    <3>2. k < j => k * Step + Step <= j * Step
      BY <1>1, StepsApart
    <3>3. j <= k => j * Step <= k * Step
      BY <1>1, StepsApart
    <3>4. k < j \/ j <= k
      BY <3>1
    <3>5. ~ (Clock + Step <= t)
      BY <1>1, <1>4, <2>2
    <3> QED BY <1>4, <2>3, <3>1, <3>2, <3>3, <3>4, <3>5
  <2>5. t = ActTime(d) /\ t = Clock => d \in active
    <3> SUFFICES ASSUME t = ActTime(d), t = Clock, d # 1
                 PROVE  d \in active
      BY <1>2
    <3>1. t < DeactTime(d)
      BY <1>4, <2>1 DEF GivesOutput
    <3>2. Settled(d, Clock)
      BY <1>1, <1>2 DEF RunInv, NestsOfTheTime
    <3> QED BY <1>4, <3>1, <3>2 DEF Settled, TakesPart
  <2>6. Past(d, t)
    BY <1>2, <1>4, <2>4, <2>5 DEF Past
  <2>7. Written(d, t)
    BY <1>2, <2>1, <2>6 DEF OutInv, PastWritten
  <2> QED BY <2>7 DEF KeepsWritten
<1> QED BY <1>6, <1>7 DEF OutInv

LEMMA OutNests ==
  ASSUME TInv, BdyInv, RunInv, OutInv, SolveNest \/ NextTurn \/ FeedBack, KeepsWritten
  PROVE  OutInv'
<1> QED BY CoarseSteps, OutMoves DEF Solving, SolveNest, NextTurn, FeedBack, Past

\* A nest that is to begin now has not taken part in the step before.
LEMMA NotYetBegun ==
  ASSUME TInv, BdyInv, RunInv, Solving \/ pc = "output", NEW d \in active
  PROVE  ActTime(d) < Clock
<1>1. /\ nml \in Namelists /\ Step \in Nat \ {0} /\ KTau(1) \in Nat /\ Clock \in Nat
      /\ Clock = KTau(1) * Step /\ active \subseteq Dom /\ Nest = Dom \ {1}
  BY CoarseTime, RunNumbers DEF TInv, SetsTyped, RunInv
<1>2. CASE d = 1
  <2>1. 0 < KTau(1) * Step
    <3> DEFINE x == KTau(1) * Step
    <3>1. x \in Nat /\ Step <= x
      BY <1>1, StepsApart DEF BdyInv, PhaseInv, Phase, Solving
    <3> HIDE DEF x
    <3>2. 0 < x
      BY <1>1, <3>1
    <3> QED BY <3>2 DEF x
  <2> QED BY <1>1, <1>2, <2>1 DEF ActTime
<1>3. CASE d # 1
  BY <1>1, <1>3, NestTimes DEF Settled, TakesPart, RunInv, NestsOfTheTime, Solving
<1> QED BY <1>2, <1>3

\* What is due when a step has been made is given by all nests in it.
LEMMA DueGiven ==
  ASSUME TInv, BdyInv, RunInv, OutInv, pc = "end", NEW d \in Dom, GivesOutput(d, Clock),
         ActTime(d) # Clock
  PROVE  /\ d \in active /\ Nint(Clock, nml.tapfrq) % nml.inctap[d] = 0
         /\ KTau(1) = Nint(tap, Step)
<1>1. /\ nml \in Namelists /\ Step \in Nat \ {0} /\ KTau(1) \in Nat /\ Clock \in Nat
      /\ Clock = KTau(1) * Step /\ 1 \in active /\ Nest = Dom \ {1}
      /\ nml.tapfrq \in Nat \ {0} /\ nml.tapfrq >= Step
  BY OutNumbers, CoarseTime, RunNumbers DEF TInv, SetsTyped, RunInv
<1>2. PICK k \in Nat \ {0} : /\ k % nml.inctap[d] = 0 /\ Clock = Nint(k * nml.tapfrq, Step) * Step
                             /\ ActTime(d) < Clock /\ (d = 1 \/ Clock <= DeactTime(d))
  BY DEF GivesOutput
<1>3. \A i \in Nat : i * nml.tapfrq \in Nat /\ Nint(i * nml.tapfrq, Step) \in Nat
  <2>1. \A i \in Nat : i * nml.tapfrq \in Nat
    BY <1>1
  <2> QED BY <1>1, <2>1, NintBounds
<1>4. KTau(1) = Nint(k * nml.tapfrq, Step)
  <2>1. PICK m \in Nat : m = Nint(k * nml.tapfrq, Step)
    BY <1>3
  <2>2. PICK n \in Nat : n = KTau(1)
    BY <1>1
  <2>3. n * Step = m * Step
    BY <1>1, <1>2, <2>1, <2>2
  <2>4. (n <= m <=> n * Step <= m * Step) /\ (m <= n <=> m * Step <= n * Step) /\ n * Step \in Nat
    BY <1>1, StepsApart
  <2> DEFINE x == n * Step
  <2>5. (n <= m <=> x <= x) /\ (m <= n <=> x <= x) /\ x \in Nat
    BY <2>3, <2>4
  <2> HIDE DEF x
  <2>6. n <= m /\ m <= n
    BY <2>5
  <2> QED BY <2>1, <2>2, <2>6
<1>5. Nint(Clock, nml.tapfrq) = k
  <2>1. k \in Nat
    OBVIOUS
  <2>2. Nint(Nint(k * nml.tapfrq, Step) * Step, nml.tapfrq) = k
    BY <1>1, <2>1, NintBack
  <2> QED BY <1>2, <2>2
<1>6. d \in active
  <2>1. CASE d = 1
    BY <1>1, <2>1
  <2>2. CASE d # 1
    <3>1. d \in Nest /\ Settled(d, Clock - Step)
      BY <1>1, <2>2 DEF RunInv, NestsOfTheTime
    <3>2. ActTime(d) \in Nat /\ DeactTime(d) \in Nat /\ \E a \in Nat : ActTime(d) = a * Step
      BY <1>1, <3>1, NestTimes
    <3>3. ActTime(d) + Step <= Clock
      <4>1. PICK a \in Nat : ActTime(d) = a * Step
        BY <3>2
      <4>2. PICK n \in Nat : n = KTau(1)
        BY <1>1
      <4>3. a * Step < n * Step
        BY <1>1, <1>2, <4>1, <4>2
      <4>4. a * Step + Step <= n * Step
        BY <1>1, <4>3, StepsApart
      <4> QED BY <1>1, <4>1, <4>2, <4>4
    <3>4. ActTime(d) <= Clock - Step /\ Clock - Step < DeactTime(d)
      BY <1>1, <1>2, <2>2, <3>2, <3>3
    <3> QED BY <3>1, <3>4 DEF Settled, TakesPart
  <2> QED BY <2>1, <2>2
<1>7. KTau(1) = Nint(tap, Step)
  <2>1. PICK q \in Nat \ {0} : NextTap(q)
    BY DEF OutInv, TapTimed
  <2>2. /\ tap = q * nml.tapfrq
        /\ KTau(1) < Nint(tap, Step) \/ KTau(1) = Nint(tap, Step)
        /\ \A i \in 1..(q - 1) : Nint(i * nml.tapfrq, Step) < KTau(1)
    BY <2>1 DEF NextTap, Solving
  <2>3. CASE k < q
    <3>1. k \in 1..(q - 1)
      BY <2>3
    <3>2. Nint(k * nml.tapfrq, Step) < KTau(1)
      BY <2>2, <3>1
    <3> QED BY <1>1, <1>4, <3>2
  <2>4. CASE k >= q
    <3>1. q * nml.tapfrq <= k * nml.tapfrq /\ q * nml.tapfrq \in Nat /\ k * nml.tapfrq \in Nat
      <4>1. q \in Nat /\ k \in Nat /\ q <= k
        BY <2>4
      <4> QED BY <1>1, <4>1, StepsApart
    <3>2. Nint(q * nml.tapfrq, Step) <= Nint(k * nml.tapfrq, Step)
      BY <1>1, <3>1, NintOrder
    <3>3. Nint(tap, Step) \in Nat /\ Nint(tap, Step) <= KTau(1)
      BY <1>3, <1>4, <2>2, <3>2
    <3> QED BY <1>1, <2>2, <3>3
  <2> QED BY <2>3, <2>4
<1> QED BY <1>2, <1>5, <1>6, <1>7

LEMMA OutOutput ==
  ASSUME TInv, BdyInv, RunInv, OutInv, Output, KeepsWritten
  PROVE  OutInv'
<1>1. /\ nml \in Namelists /\ Monitor \in Proc /\ 1 \in Dom /\ Step \in Nat \ {0}
      /\ nml.tapfrq \in Nat \ {0} /\ nml.tapfrq >= Step
  BY OutNumbers, RunNumbers DEF TInv, SetsTyped
<1>2. PICK due \in BOOLEAN : due <=> (KTau(1) >= Nint(tap, Step))
  OBVIOUS
<1>3. /\ pc = "end" /\ pc' = "output" /\ UNCHANGED <<nml, job, tapes, opened, active>>
      /\ outs' = {d \in active : due /\ Nint(Clock, nml.tapfrq) % nml.inctap[d] = 0}
      /\ tap' = IF due THEN tap + nml.tapfrq ELSE tap
  BY <1>2 DEF Output
<1>4. KTau(1) \in Nat /\ Clock \in Nat /\ Clock' = Clock /\ KTau(1)' = KTau(1)
  <2>1. KTau(1) \in Nat /\ Clock \in Nat
    BY CoarseTime DEF RunInv
  <2>2. \A p \in Proc : mem'[p][1].ktau = mem[p][1].ktau /\ mem'[p][1].xtime = mem[p][1].xtime
    BY <1>1, OutputSteps DEF RunInv
  <2> QED BY <1>1, <2>1, <2>2 DEF Clock, XTime, KTau
<1>5. Step' = Step /\ \A d : ActTime(d)' = ActTime(d)
  BY <1>3, NamelistKept
<1>6. PICK k \in Nat \ {0} : NextTap(k)
  BY <1>3 DEF OutInv, TapTimed
<1>7. /\ tap = k * nml.tapfrq /\ tap \in Nat /\ Nint(tap, Step) \in Nat
      /\ KTau(1) < Nint(tap, Step) \/ KTau(1) = Nint(tap, Step)
      /\ \A i \in 1..(k - 1) : Nint(i * nml.tapfrq, Step) <= KTau(1)
  <2>1. tap = k * nml.tapfrq
    BY <1>6 DEF NextTap
  <2>2. tap \in Nat
    BY <1>1, <2>1
  <2> QED BY <1>1, <1>6, <2>1, <2>2, NintBounds DEF NextTap
<1>8. TapTimed'
  <2>1. CASE due
    <3>1. KTau(1) = Nint(tap, Step)
      BY <1>2, <1>4, <1>7, <2>1
    <3>2. PICK s \in Nat : s = tap' /\ s = (k + 1) * nml.tapfrq /\ tap + Step <= s
      BY <1>1, <1>3, <1>7, <2>1
    <3>3. KTau(1) < Nint(s, Step)
      BY <1>1, <1>7, <3>1, <3>2, NintOrder
    <3>4. ASSUME NEW i \in 1..((k + 1) - 1)
          PROVE  Nint(i * nml.tapfrq, Step) <= KTau(1)
      <4>1. i = k \/ i \in 1..(k - 1)
        OBVIOUS
      <4>2. i = k => Nint(i * nml.tapfrq, Step) = KTau(1)
        BY <1>7, <3>1
      <4> QED BY <1>4, <1>7, <4>1, <4>2
    <3>5. NextTap(k + 1)'
      BY <1>3, <1>4, <1>5, <3>2, <3>3, <3>4 DEF NextTap, Solving
    <3>6. k + 1 \in Nat \ {0}
      OBVIOUS
    <3> QED BY <3>5, <3>6 DEF TapTimed
  <2>2. CASE ~ due
    <3>1. KTau(1) < Nint(tap, Step)
      BY <1>2, <1>4, <1>7, <2>2
    <3>2. NextTap(k)'
      BY <1>3, <1>4, <1>5, <1>7, <2>2, <3>1 DEF NextTap, Solving
    <3> QED BY <3>2 DEF TapTimed
  <2> QED BY <2>1, <2>2
<1>9. PastWritten'
  <2> SUFFICES ASSUME NEW d \in Dom, NEW t \in Nat, GivesOutput(d, t)', OfRun(t)', Past(d, t)'
               PROVE  Written(d, t)'
    BY DEF PastWritten
  <2>1. GivesOutput(d, t) /\ OfRun(t)
    BY <1>3, <1>5, OutputsSame DEF OfRun
  <2>2. CASE t < Clock
    BY <1>3, <2>1, <2>2 DEF OutInv, PastWritten, Past, KeepsWritten
  <2>3. CASE ~ (t < Clock)
    <3>1. t = Clock /\ t # ActTime(d) /\ d \notin outs'
      BY <1>3, <1>4, <1>5, <2>3 DEF Past
    <3>2. d \in active /\ Nint(Clock, nml.tapfrq) % nml.inctap[d] = 0 /\ due
      <4>1. d \in active /\ Nint(Clock, nml.tapfrq) % nml.inctap[d] = 0 /\ KTau(1) = Nint(tap, Step)
        BY <1>3, <2>1, <3>1, DueGiven
      <4> QED BY <1>2, <1>4, <4>1
    <3> QED BY <1>3, <3>1, <3>2
  <2> QED BY <2>2, <2>3
<1> QED BY <1>8, <1>9 DEF OutInv

LEMMA OutWriteOutput ==
  ASSUME TInv, BdyInv, RunInv, UnitsInv, OutInv, WriteOutput
  PROVE  OutInv'
<1>1. PICK n, count, u : n = Least(outs) /\ count = mem[Monitor][n].itap /\ u = Clock
  OBVIOUS
<1>2. /\ pc = "output" /\ pc' = pc /\ UNCHANGED <<nml, job, tap, active>>
      /\ outs' = outs \ {n} /\ OutTap(n, count, u)
  BY <1>1 DEF WriteOutput
<1>3. Written(n, u)' /\ KeepsWritten
  <2>1. count = Count(n)
    BY <1>1 DEF Count
  <2> QED BY <1>2, <1>1, WriteKind, <2>1, OutTapWrites DEF Writes, TInv, SetsTyped
<1>4. ASSUME NEW d \in Dom, NEW t \in Nat, Past(d, t)', GivesOutput(d, t)
      PROVE  Past(d, t) \/ Written(d, t)'
  <2>1. CASE d = n /\ t = u
    BY <1>3, <2>1
  <2>2. CASE ~ (d = n /\ t = u)
    BY <1>1, <1>2, CoarseSteps, NamelistKept, <1>4, <2>2 DEF Past
  <2> QED BY <2>1, <2>2
<1> QED BY <1>2, CoarseSteps, NamelistKept, <1>3, <1>4, OutMoves DEF Solving

LEMMA OutNextStep ==
  ASSUME TInv, BdyInv, RunInv, OutInv, NextStep, pc' # "down" => KeepsWritten
  PROVE  OutInv'
<1>1. /\ pc = "output" /\ outs = {} /\ UNCHANGED <<nml, tapes>>
      /\ GoDown \/ (pc' = "loop" /\ UNCHANGED <<job, mem, active, tap, outs, opened>>)
  BY DEF NextStep
<1>2. CASE GoDown
  BY <1>2, OutDown DEF GoDown
<1>3. CASE pc' = "loop" /\ UNCHANGED <<job, mem, active, tap, outs, opened>>
  <2>1. KTau(1)' = KTau(1) /\ Clock' = Clock /\ \A d : ActTime(d)' = ActTime(d)
    BY <1>1, <1>3, NamelistKept DEF KTau, Clock, XTime
  <2>2. \A d \in active : ActTime(d) < Clock
    BY <1>1, NotYetBegun
  <2>3. ASSUME NEW d \in Dom, NEW t \in Nat, Past(d, t)'
        PROVE  Past(d, t)
    <3>1. t < Clock \/ (t = Clock /\ (t = ActTime(d) => d \in active))
      BY <1>1, <1>3, <2>1, <2>3 DEF Past
    <3>2. Clock \in Nat
      BY CoarseTime DEF RunInv
    <3>3. t = Clock => t # ActTime(d)
      BY <2>2, <3>1, <3>2
    <3> QED BY <1>1, <3>1, <3>3 DEF Past
  <2> QED BY <1>1, <1>3, <2>1, <2>3, OutMoves DEF Solving
<1> QED BY <1>1, <1>2, <1>3

\* Where nothing that output depends on changes.
LEMMA OutStays ==
  ASSUME OutInv, UNCHANGED <<nml, job, tap, pc, mem, active, outs, tapes, opened>>
  PROVE  OutInv'
<1>1. KTau(1)' = KTau(1) /\ Clock' = Clock /\ Step' = Step /\ \A d : ActTime(d)' = ActTime(d)
  BY NamelistKept DEF KTau, Clock, XTime
<1>2. CASE pc = "down"
  BY <1>2, OutDown
<1>3. CASE pc # "down"
  <2>1. (\A d, t : Past(d, t)' => Past(d, t)) /\ KeepsWritten
    BY <1>1 DEF Past, Written, KeepsWritten, Count
  <2> QED BY <1>1, <1>3, <2>1, OutMoves DEF Solving
<1> QED BY <1>2, <1>3

LEMMA OutNext ==
  ASSUME TInv, BdyInv, RunInv, SavInv, UnitsInv, OutInv, TInv', BdyInv', [Next]_vars
  PROVE  OutInv'
<1>1. pc # "down" /\ pc' # "down" => KeepsWritten
  BY StepKinds, WrittenStays
<1>2. CASE Start
  BY <1>2, OutStart
<1>3. CASE RestartAny
  <2>1. PICK ixtimr \in Saved, given \in Givens : Restart(ixtimr, given)
    BY <1>3 DEF RestartAny
  <2> QED BY <2>1, OutRestart
<1>4. CASE ReadBoundary
  BY <1>1, <1>4, OutReadBoundary DEF ReadBoundary
<1>5. CASE CheckSkips \/ Deactivate
  BY <1>1, <1>5, OutChecks DEF CheckSkips, Deactivate, NextCheck, TInv, SetsTyped
<1>6. CASE Activate
  BY <1>6, OutActivate
<1>7. CASE SolveCoarse
  BY <1>1, <1>7, OutSolveCoarse DEF SolveCoarse
<1>8. CASE SolveNest \/ NextTurn \/ FeedBack
  BY <1>1, <1>8, OutNests DEF SolveNest, NextTurn, FeedBack
<1>9. CASE Output
  BY <1>1, <1>9, OutOutput DEF Output
<1>10. CASE WriteOutput
  BY <1>10, OutWriteOutput
<1>11. CASE \E p \in Proc : Save(p)
  BY <1>11, OutStays DEF Save
<1>12. CASE NextStep
  BY <1>1, <1>12, OutNextStep DEF NextStep
<1>13. CASE Crash
  BY <1>13, OutDown DEF Crash, GoDown
<1>14. CASE Over \/ UNCHANGED vars
  BY <1>14, OutStays DEF Over, vars, running
<1> QED BY <1>2, <1>3, <1>4, <1>5, <1>6, <1>7, <1>8, <1>9, <1>10, <1>11, <1>12, <1>13, <1>14 DEF Next

\* What is due by now the program has got beyond.
LEMMA DueOutput ==
  ASSUME TInv, BdyInv, RunInv, pc = "solve", NEW d \in Dom, NEW t \in OutputTimes(d), t <= Clock
  PROVE  t \in Nat /\ GivesOutput(d, t) /\ Past(d, t)
<1>1. /\ nml \in Namelists /\ Step \in Nat \ {0} /\ Clock \in Nat /\ 1 \in active
      /\ Nest = Dom \ {1} /\ nml.tapfrq \in Nat \ {0}
  BY OutNumbers, CoarseTime, RunNumbers DEF TInv, SetsTyped, RunInv
<1>2. ActTime(d) \in Nat
  <2>1. CASE d = 1
    BY <2>1 DEF ActTime
  <2>2. CASE d # 1
    BY <1>1, <2>2, NestTimes
  <2> QED BY <2>1, <2>2
<1>3. t \in Nat /\ GivesOutput(d, t)
  <2>1. CASE t = ActTime(d) /\ (d = 1 \/ t < DeactTime(d))
    BY <1>2, <2>1 DEF GivesOutput
  <2>2. CASE ~ (t = ActTime(d) /\ (d = 1 \/ t < DeactTime(d)))
    <3>1. PICK k \in 1..Clock : /\ k % nml.inctap[d] = 0 /\ t = Nint(k * nml.tapfrq, Step) * Step
                                /\ ActTime(d) < t /\ (d = 1 \/ t <= DeactTime(d))
      BY <2>2 DEF OutputTimes
    <3>2. k \in Nat \ {0} /\ k * nml.tapfrq \in Nat
      BY <1>1
    <3>3. Nint(k * nml.tapfrq, Step) \in Nat
      BY <1>1, <3>2, NintBounds
    <3>4. t \in Nat
      BY <1>1, <3>1, <3>3
    <3> QED BY <3>1, <3>2, <3>4 DEF GivesOutput
  <2> QED BY <2>1, <2>2
<1>4. t = Clock /\ t = ActTime(d) => d \in active
  <2> SUFFICES ASSUME t = Clock, t = ActTime(d), d # 1
               PROVE  d \in active
    BY <1>1
  <2> QED BY <1>1, <1>3 DEF Settled, TakesPart, RunInv, NestsOfTheTime, GivesOutput
<1>5. Past(d, t)
  BY <1>1, <1>3, <1>4 DEF Past
<1> QED BY <1>3, <1>5

LEMMA OutInvOutputs ==
  ASSUME TInv, BdyInv, RunInv, OutInv, CutInv
  PROVE  OutputsOfTheRun
<1> SUFFICES ASSUME pc = "solve", NEW d \in Dom, NEW t \in OutputTimes(d), t <= Clock, OfRun(t)
             PROVE  \E r \in tapes \ cut : r[1] = d /\ r[3] = t
  BY DEF OutputsOfTheRun, OfRun
<1>1. PICK r \in tapes : r = <<d, Count(d), t>> /\ d \in opened
  BY DueOutput DEF OutInv, PastWritten, Written
<1>2. r[1] = d /\ r[2] = Count(d) /\ r[3] = t
  BY <1>1
<1> QED BY <1>1, <1>2 DEF CutInv

\* Every output that falls due while a run lasts is in a file before the next
\* step is made, and no kill has cut it: of the coarse domain and of every nest that takes part, at
\* every time the namelist asks for after the run began, whatever the files of
\* earlier runs are called and whatever they hold.
THEOREM OutputsOfTheRunWritten == Spec => []OutputsOfTheRun
<1> DEFINE Inv == TInv /\ BdyInv /\ RunInv /\ SavInv /\ UnitsInv /\ OutInv /\ CutInv
<1>1. Init => Inv
  BY TypesInit, BdyInit, RunInit, SavInit, UnitsInit, OutInit, CutInit
<1>2. Inv /\ [Next]_vars => Inv'
  BY TypesNext, BdyNext, RunNext, SavNext, UnitsNext, OutNext, CutNext
<1>3. Inv => OutputsOfTheRun
  BY OutInvOutputs
<1> QED BY <1>1, <1>2, <1>3, PTL DEF Spec

-------------------------------------------------------------------------------
(* What is in the restart files *)

\* What is due next, of what is due every frq: v is the k'th, and the first
\* that ktau steps have not reached, or are not beyond when one has just been made.
NextOf(v, frq, k, ktau, solved) ==
  /\ v = k * frq
  /\ ktau < Nint(v, Step) \/ (solved /\ ktau = Nint(v, Step))
  /\ \A i \in 1..(k - 1) : /\ Nint(i * frq, Step) <= ktau
                           /\ solved => Nint(i * frq, Step) < ktau

LEMMA NextBegins ==
  ASSUME Step \in Nat \ {0}, NEW frq \in Nat \ {0}, frq >= Step, NEW ktau \in Nat
  PROVE  \E k \in Nat \ {0} : NextOf(FirstAfter(frq, ktau), frq, k, ktau, FALSE)
<1>1. PICK k \in Nat \ {0} : /\ FirstAfter(frq, ktau) = k * frq /\ Nint(k * frq, Step) > ktau
                             /\ \A i \in 1..(k - 1) : Nint(i * frq, Step) <= ktau
  BY FirstAfterLeast
<1> QED BY <1>1, NintBounds DEF NextOf

LEMMA NextMoves ==
  ASSUME Step \in Nat \ {0}, NEW frq \in Nat \ {0}, frq >= Step, NEW ktau \in Nat,
         NEW v, NEW k \in Nat \ {0}
  PROVE  /\ NextOf(v, frq, k, ktau, FALSE) => NextOf(v, frq, k, ktau + 1, TRUE)
         /\ NextOf(v, frq, k, ktau, TRUE) =>
              IF ktau >= Nint(v, Step) THEN NextOf(v + frq, frq, k + 1, ktau, FALSE)
                                       ELSE NextOf(v, frq, k, ktau, FALSE)
<1>1. \A i \in Nat : i * frq \in Nat /\ Nint(i * frq, Step) \in Nat
  BY NintBounds
<1>2. ASSUME NextOf(v, frq, k, ktau, FALSE)
      PROVE  NextOf(v, frq, k, ktau + 1, TRUE)
  <2>1. ASSUME NEW i \in 1..(k - 1)
        PROVE  Nint(i * frq, Step) <= ktau + 1 /\ Nint(i * frq, Step) < ktau + 1
    BY <1>2, <1>1 DEF NextOf
  <2> QED BY <1>1, <1>2, <2>1 DEF NextOf
<1>3. ASSUME NextOf(v, frq, k, ktau, TRUE), ktau >= Nint(v, Step)
      PROVE  NextOf(v + frq, frq, k + 1, ktau, FALSE)
  <2>1. ASSUME NEW i \in 1..((k + 1) - 1)
        PROVE  Nint(i * frq, Step) <= ktau
    BY <1>1, <1>3 DEF NextOf
  <2> QED BY <1>3, <1>1, NintOrder, <2>1 DEF NextOf
<1>4. ASSUME NextOf(v, frq, k, ktau, TRUE), ~ (ktau >= Nint(v, Step))
      PROVE  NextOf(v, frq, k, ktau, FALSE)
  <2>1. ktau < Nint(v, Step)
    BY <1>4, <1>1 DEF NextOf
  <2> QED BY <1>4, <1>1, <2>1 DEF NextOf
<1> QED BY <1>2, <1>3, <1>4

\* SAVTIM is the first multiple of SAVFRQ that the steps have not reached.
SavFirst == pc # "down" => \E k \in Nat \ {0} : NextOf(sav, nml.savfrq, k, KTau(1), Solving)

LEMMA SavFirstStays ==
  ASSUME SavFirst, pc # "down", UNCHANGED <<nml, sav>>, KTau(1)' = KTau(1), Solving' <=> Solving
  PROVE  SavFirst'
<1>1. Step' = Step
  BY NamelistKept
<1>2. PICK k \in Nat \ {0} : NextOf(sav, nml.savfrq, k, KTau(1), Solving)
  BY DEF SavFirst
<1> QED BY <1>1, <1>2 DEF SavFirst, NextOf

LEMMA SavFirstBegins ==
  ASSUME nml \in Namelists, nml' = nml, NEW ktau \in Nat, KTau(1)' = ktau, ~ Solving',
         sav' = FirstAfter(nml.savfrq, ktau)
  PROVE  SavFirst'
<1>1. PICK k \in Nat \ {0} : NextOf(FirstAfter(nml.savfrq, ktau), nml.savfrq, k, ktau, FALSE)
  BY NamelistKept, SaveNumbers, NextBegins
<1> QED BY NamelistKept, SaveNumbers, <1>1 DEF SavFirst, NextOf

LEMMA SavFirstSolve ==
  ASSUME TInv, BdyInv, RunInv, SavFirst, SolveCoarse
  PROVE  SavFirst'
<1>1. /\ nml \in Namelists /\ Monitor \in Proc /\ 1 \in Dom /\ KTau(1) \in Nat
      /\ Step \in Nat \ {0} /\ nml.savfrq \in Nat \ {0} /\ nml.savfrq >= Step
  BY CoarseTime, SaveNumbers, RunNumbers DEF RunInv, TInv, SetsTyped
<1>2. pc = "solve" /\ Solving' /\ UNCHANGED <<nml, sav>> /\ Solved(1)
  BY DEF SolveCoarse, Solving
<1>3. Step' = Step /\ KTau(1)' = KTau(1) + 1
  BY <1>1, <1>2, SolvedSteps, NamelistKept DEF KTau
<1>4. PICK k \in Nat \ {0} : NextOf(sav, nml.savfrq, k, KTau(1), FALSE)
  BY <1>2 DEF SavFirst, Solving, NextOf
<1>5. NextOf(sav, nml.savfrq, k, KTau(1) + 1, TRUE)
  BY <1>1, <1>4, NextMoves
<1>6. NextOf(sav, nml.savfrq, k, KTau(1), Solving)'
  BY <1>2, <1>3, <1>5 DEF NextOf
<1> QED BY <1>6 DEF SavFirst

LEMMA SavFirstOutput ==
  ASSUME TInv, BdyInv, RunInv, SavFirst, Output
  PROVE  SavFirst'
<1>1. /\ nml \in Namelists /\ Monitor \in Proc /\ 1 \in Dom /\ KTau(1) \in Nat
      /\ Step \in Nat \ {0} /\ nml.savfrq \in Nat \ {0} /\ nml.savfrq >= Step
  BY CoarseTime, SaveNumbers, RunNumbers DEF RunInv, TInv, SetsTyped
<1>2. /\ pc = "end" /\ ~ Solving' /\ nml' = nml
      /\ sav' = IF KTau(1) >= Nint(sav, Step) THEN sav + nml.savfrq ELSE sav
  BY DEF Output, Solving
<1>3. Step' = Step /\ KTau(1)' = KTau(1)
  BY <1>1, <1>2, OutputSteps, NamelistKept DEF KTau, RunInv
<1>4. PICK k \in Nat \ {0} : NextOf(sav, nml.savfrq, k, KTau(1), TRUE)
  BY <1>2 DEF SavFirst, Solving, NextOf
<1>5. PICK j \in Nat \ {0} : NextOf(sav', nml.savfrq, j, KTau(1), FALSE)
  <2>1. IF KTau(1) >= Nint(sav, Step) THEN NextOf(sav + nml.savfrq, nml.savfrq, k + 1, KTau(1), FALSE)
                                       ELSE NextOf(sav, nml.savfrq, k, KTau(1), FALSE)
    BY <1>1, <1>4, NextMoves
  <2>2. k + 1 \in Nat \ {0}
    OBVIOUS
  <2> QED BY <1>2, <2>1, <2>2
<1>6. NextOf(sav, nml.savfrq, j, KTau(1), Solving)'
  BY <1>2, <1>3, <1>5 DEF NextOf
<1> QED BY <1>6 DEF SavFirst

\* When a step has been made to a time of restart files, they are due.
LEMMA SavesDue ==
  ASSUME TInv, BdyInv, RunInv, SavFirst, pc = "end", SavesAt(nml, Clock)
  PROVE  KTau(1) >= Nint(sav, Step)
<1>1. /\ nml \in Namelists /\ KTau(1) \in Nat /\ Clock = KTau(1) * Step
      /\ Step \in Nat \ {0} /\ nml.savfrq \in Nat \ {0} /\ nml.savfrq >= Step
  BY CoarseTime, SaveNumbers DEF RunInv
<1>2. PICK k \in Nat \ {0} : NextOf(sav, nml.savfrq, k, KTau(1), TRUE)
  BY DEF SavFirst, Solving, NextOf
<1>3. PICK i \in Nat \ {0} : Clock = Nint(i * nml.savfrq, Step) * Step
  BY <1>1, SaveTime
<1>4. \A j \in Nat : j * nml.savfrq \in Nat /\ Nint(j * nml.savfrq, Step) \in Nat
  <2>1. \A j \in Nat : j * nml.savfrq \in Nat
    BY <1>1
  <2> QED BY <1>1, <2>1, NintBounds
<1>5. KTau(1) = Nint(i * nml.savfrq, Step)
  <2>1. PICK m \in Nat, n \in Nat, s \in Nat \ {0} :
          m = Nint(i * nml.savfrq, Step) /\ n = KTau(1) /\ s = Step
    BY <1>1, <1>4
  <2>2. n * s = m * s
    BY <1>1, <1>3, <2>1
  <2> DEFINE x == n * s
             y == m * s
  <2> HIDE DEF x, y
  <2>3. n = m
    BY <2>2, StepsApart
  <2> QED BY <2>1, <2>3
<1>6. ~ (i < k)
  <2> SUFFICES ASSUME i < k PROVE FALSE
    OBVIOUS
  <2> QED BY <1>1, <1>5, <1>2 DEF NextOf
<1>7. k * nml.savfrq <= i * nml.savfrq
  BY <1>1, <1>6, StepsApart
<1>8. Nint(k * nml.savfrq, Step) <= Nint(i * nml.savfrq, Step)
  BY <1>1, <1>7, <1>4, NintOrder
<1>9. sav = k * nml.savfrq
  BY <1>2 DEF NextOf
<1> QED BY <1>5, <1>8, <1>9

\* XTIME in the restart file of domain d of time t: the clock of a nest that
\* begins between two coarse steps lags, unless output has just set it right.
XTimeAt(d, t) == IF d = 1 \/ GivesOutput(d, t) THEN t ELSE t - (ActTime(d) - XStNes(d))

\* After SOLVE, and when what is due has been found out.
SolvedClock ==
  Solving => \A p \in Proc : \A d \in active \ {1} :
    Reckoned(p, d) > Clock - Step => mem[p][d].xtime = XStNes(d) + mem[p][d].ktau * DtMin[d]
OutputClock ==
  pc = "output" =>
    /\ \A p \in Proc : \A d \in active \ {1} : mem[p][d].xtime = XTimeAt(d, Clock)
    /\ \A d \in outs : GivesOutput(d, Clock)
FilesExact == \A f \in files : f.whole => \A t : FileOf(f, t) => f.mem.xtime = XTimeAt(f.d, t)
LastNamed  == nml.svlast => \A f \in files : f.name = 0

\* As long as no restart file is lost: what a processor has saved of this step is
\* in its files as it is in memory, and the monitor saves after the last output.
SavedOf(p, d) ==
  \E f \in files : /\ f.p = p /\ f.d = d /\ f.name = SaveName /\ f.whole /\ f.mem = mem[p][d]
SavedSoFar ==
  lost = 0 /\ pc = "output" /\ SavesAt(nml, Clock) =>
    /\ \A p \in Proc : \A d \in active \ saving[p] : SavedOf(p, d)
    /\ outs # {} => saving[Monitor] = active

StoreInv == SavFirst /\ SolvedClock /\ OutputClock /\ FilesExact /\ LastNamed /\ SavedSoFar

LEMMA XTimeSame ==
  ASSUME nml' = nml
  PROVE  \A d, t : XTimeAt(d, t)' = XTimeAt(d, t)
<1> QED BY NamelistKept, OutputsSame DEF XTimeAt

\* OUTPUT takes a nest exactly when it gives output then.
LEMMA GivenNow ==
  ASSUME TInv, BdyInv, RunInv, OutInv, pc = "end", NEW d \in active
  PROVE  GivesOutput(d, Clock) <=>
           KTau(1) >= Nint(tap, Step) /\ Nint(Clock, nml.tapfrq) % nml.inctap[d] = 0
<1>1. /\ nml \in Namelists /\ Step \in Nat \ {0} /\ KTau(1) \in Nat /\ Clock \in Nat
      /\ Clock = KTau(1) * Step /\ d \in Dom /\ Nest = Dom \ {1}
      /\ nml.tapfrq \in Nat \ {0} /\ nml.tapfrq >= Step
  BY OutNumbers, CoarseTime, RunNumbers DEF TInv, SetsTyped, RunInv
<1>2. ActTime(d) < Clock /\ ActTime(d) \in Nat
  BY <1>1, NotYetBegun, NestTyped, RunNumbers DEF Solving
<1>3. ASSUME GivesOutput(d, Clock)
      PROVE  KTau(1) >= Nint(tap, Step) /\ Nint(Clock, nml.tapfrq) % nml.inctap[d] = 0
  BY <1>1, <1>2, <1>3, DueGiven
<1>4. ASSUME KTau(1) >= Nint(tap, Step), Nint(Clock, nml.tapfrq) % nml.inctap[d] = 0
      PROVE  GivesOutput(d, Clock)
  <2>1. PICK k \in Nat \ {0} : NextTap(k)
    BY DEF OutInv, TapTimed
  <2>2. tap = k * nml.tapfrq /\ tap \in Nat /\ Nint(tap, Step) \in Nat
    <3>1. tap = k * nml.tapfrq
      BY <2>1 DEF NextTap
    <3>2. tap \in Nat
      BY <1>1, <3>1
    <3> QED BY <1>1, <3>1, <3>2, NintBounds
  <2>3. KTau(1) = Nint(tap, Step)
    BY <1>1, <1>4, <2>1, <2>2 DEF NextTap
  <2>4. Clock = Nint(k * nml.tapfrq, Step) * Step
    BY <1>1, <2>2, <2>3
  <2>5. Nint(Clock, nml.tapfrq) = k
    <3>1. Nint(Nint(k * nml.tapfrq, Step) * Step, nml.tapfrq) = k
      BY <1>1, NintBack
    <3> QED BY <2>4, <3>1
  <2>6. d = 1 \/ Clock <= DeactTime(d)
    <3> SUFFICES ASSUME d # 1 PROVE Clock <= DeactTime(d)
      OBVIOUS
    <3>1. d \in Nest /\ Settled(d, Clock - Step)
      BY <1>1 DEF RunInv, NestsOfTheTime
    <3> QED BY <3>1, SettledStep DEF RunInv, Unsettled
  <2>7. k % nml.inctap[d] = 0
    BY <1>4, <2>5
  <2> QED BY <1>2, <2>4, <2>6, <2>7 DEF GivesOutput
<1> QED BY <1>3, <1>4

LEMMA SolvedClockNests ==
  ASSUME TInv, BdyInv, RunInv, SolvedClock, SolveNest
  PROVE  SolvedClock'
<1>1. active \subseteq Dom /\ nml \in Namelists
  BY DEF TInv, SetsTyped
<1>2. PICK d \in Dom : Solved(d) /\ d # 1
  BY <1>1, LeastDomain DEF SolveNest, Waiting, Children
<1>3. Solving /\ UNCHANGED <<nml, active>> /\ Clock' = Clock
  BY CoarseSteps DEF SolveNest, Solving
<1>4. ASSUME NEW p \in Proc, NEW e \in active \ {1}, Reckoned(p, e)' > Clock - Step
      PROVE  mem'[p][e].xtime = XStNes(e) + mem'[p][e].ktau * DtMin[e]
  <2>1. CASE e = d
    BY <1>2, <1>3, SolvedSteps, <2>1
  <2>2. CASE e # d
    BY <1>1, <1>3, <1>2, SolvedSteps, <1>4, <2>2 DEF SolvedClock
  <2> QED BY <2>1, <2>2
<1> QED BY <1>3, NamelistKept, <1>4 DEF SolvedClock

LEMMA SolvedClockCoarse ==
  ASSUME TInv, BdyInv, RunInv, TInv', BdyInv', SolveCoarse
  PROVE  SolvedClock'
<1>1. /\ active \subseteq Dom /\ nml \in Namelists /\ 1 \in Dom /\ Step \in Nat \ {0}
      /\ Clock \in Nat /\ KTau(1) \in Nat /\ Clock = KTau(1) * Step /\ Monitor \in Proc
  BY CoarseTime, RunNumbers DEF TInv, SetsTyped, RunInv
<1>2. pc = "solve" /\ Solved(1) /\ UNCHANGED <<nml, active>>
  BY DEF SolveCoarse
<1>3. Step' = Step /\ KTau(1)' = KTau(1) + 1
  BY <1>1, <1>2, NamelistKept, SolvedSteps DEF KTau
<1>4. Clock' = Clock + Step
  <2>1. Clock' = KTau(1)' * Step
    BY <1>2, CoarseNext
  <2>2. (KTau(1) + 1) * Step = KTau(1) * Step + Step
    BY <1>1
  <2> QED BY <1>1, <1>3, <2>1, <2>2
<1>5. ASSUME NEW p \in Proc, NEW d \in active \ {1}
      PROVE  Reckoned(p, d)' = Clock
  <2>1. Reckoned(p, d) = Clock
    BY <1>2 DEF RunInv, StepsCounted, Reckons
  <2> QED BY <1>1, <1>2, <2>1, SolvedSteps
<1> QED BY <1>1, <1>2, <1>3, <1>4, <1>5 DEF SolvedClock

LEMMA OutputClockOutput ==
  ASSUME TInv, BdyInv, RunInv, OutInv, SolvedClock, Output
  PROVE  OutputClock'
<1>1. /\ active \subseteq Dom /\ nml \in Namelists /\ 1 \in Dom /\ Step \in Nat \ {0}
      /\ Clock \in Nat /\ Monitor \in Proc /\ Nest = Dom \ {1}
      /\ \A p \in Proc : mem[p][1].xtime = Clock
  BY CoarseTime, RunNumbers DEF TInv, SetsTyped, RunInv
<1>2. PICK now : now = {d \in active : KTau(1) >= Nint(tap, Step) /\ Nint(Clock, nml.tapfrq) % nml.inctap[d] = 0}
  OBVIOUS
<1>3. /\ pc = "end" /\ UNCHANGED <<nml, active>> /\ outs' = now
      /\ mem' = [p \in Proc |-> [d \in Dom |->
                   IF d \in now THEN [mem[p][d] EXCEPT !.xtime = mem[p][1].xtime] ELSE mem[p][d]]]
  BY <1>2 DEF Output
<1>4. Clock' = Clock
  BY <1>1, OutputSteps DEF RunInv, Clock, XTime
<1>5. \A d \in active : d \in now <=> GivesOutput(d, Clock)
  BY <1>2, <1>3, GivenNow
<1>6. ASSUME NEW p \in Proc, NEW d \in active \ {1}
      PROVE  mem'[p][d].xtime = XTimeAt(d, Clock)
  <2>1. mem[p][d] \in Clocks /\ d \in Dom /\ d \in Nest
    BY <1>1 DEF TInv, MemTyped
  <2>2. CASE d \in now
    <3>1. mem'[p][d] = [mem[p][d] EXCEPT !.xtime = Clock]
      BY <1>1, <1>3, <2>1, <2>2
    <3>2. mem'[p][d].xtime = Clock
      BY <2>1, <3>1 DEF Clocks
    <3> QED BY <1>5, <2>2, <3>2 DEF XTimeAt
  <2>3. CASE d \notin now
    <3>1. mem'[p][d] = mem[p][d]
      BY <1>3, <2>1, <2>3
    <3>2. Reckoned(p, d) = Clock
      BY <1>3 DEF RunInv, StepsCounted, Reckons
    <3>3. mem[p][d].xtime = XStNes(d) + mem[p][d].ktau * DtMin[d]
      BY <1>1, <1>3, <3>2 DEF SolvedClock, Solving
    <3>4. /\ XStNes(d) \in Nat /\ ActTime(d) \in Nat /\ mem[p][d].ktau * DtMin[d] \in Nat
          /\ Clock = ActTime(d) + mem[p][d].ktau * DtMin[d]
      <4>1. mem[p][d].ktau \in Nat /\ DtMin[d] \in Nat
        BY <2>1, NestTyped
      <4> QED BY <1>1, <2>1, <3>2, <4>1, NestTimes, NestTyped
    <3>5. mem'[p][d].xtime = Clock - (ActTime(d) - XStNes(d))
      BY <1>1, <3>1, <3>3, <3>4
    <3> QED BY <1>5, <2>1, <2>3, <3>5 DEF XTimeAt
  <2> QED BY <2>2, <2>3
<1>7. (\A d, t : XTimeAt(d, t)' = XTimeAt(d, t)) /\ (\A d, t : GivesOutput(d, t)' <=> GivesOutput(d, t))
  BY <1>3, XTimeSame, OutputsSame
<1>8. \A d \in outs' : GivesOutput(d, Clock)
  BY <1>2, <1>3, <1>5
<1> QED BY <1>3, <1>4, <1>6, <1>7, <1>8 DEF OutputClock

\* Steps on which the clocks of OUTPUT stay.
LEMMA OutputClockStays ==
  ASSUME TInv, OutputClock, TimesKept, pc' = pc, active' = active, outs' \subseteq outs
  PROVE  OutputClock'
<1> QED BY TimesStay, XTimeSame, OutputsSame DEF OutputClock, TimesKept, TInv, SetsTyped

LEMMA SameTimes ==
  ASSUME UNCHANGED <<nml, mem>>
  PROVE  TimesKept
BY DEF TimesKept

\* A processor writes the restart file of one domain, or cannot open it.
LEMMA SaveStep ==
  ASSUME TInv, SavInv, NEW p \in Proc, Save(p)
  PROVE  /\ pc = "output" /\ SavesAt(nml, Clock) /\ Clock' = Clock /\ SaveName' = SaveName
         /\ UNCHANGED <<nml, tapes, job, pc, mem, active, sav, outs, opened>>
         /\ p = Monitor => outs = {}
         /\ \E d \in active : \E n :
              /\ d \in saving[p] /\ saving' = [saving EXCEPT ![p] = @ \ {d}]
              /\ n.p = p /\ n.d = d /\ n.name = SaveName /\ n.whole /\ n.mem = mem[p][d]
              /\ \/ lost' = lost /\ files' = Overwritten(p, d) \union {n}
                 \/ lost' = lost + 1 /\ files' = files
<1>1. PICK d : d = Least(saving[p])
  OBVIOUS
<1>2. PICK n : n = [p |-> p, d |-> d, name |-> SaveName, whole |-> TRUE, mem |-> mem[p][d]]
  OBVIOUS
<1>3. /\ pc = "output" /\ saving[p] # {} /\ (p = Monitor => outs = {})
      /\ UNCHANGED <<nml, tapes, job, pc, mem, active, sav, outs, opened>>
      /\ saving' = [saving EXCEPT ![p] = @ \ {d}]
      /\ \/ lost' = lost /\ files' = SaveFile(p, d, TRUE)
         \/ lost' = lost + 1 /\ files' = files
  BY <1>1 DEF Save
<1>4. d \in saving[p] /\ d \in active
  <2>1. saving[p] \in SUBSET Dom /\ saving[p] \subseteq active
    BY DEF TInv, SetsTyped
  <2> QED BY <1>1, <1>3, <2>1, LeastDomain
<1>5. SaveFile(p, d, TRUE) = Overwritten(p, d) \union {n}
  BY <1>2 DEF SaveFile
<1>6. n.p = p /\ n.d = d /\ n.name = SaveName /\ n.whole /\ n.mem = mem[p][d]
  BY <1>2
<1>7. SavesAt(nml, Clock) /\ Clock' = Clock /\ SaveName' = SaveName
  BY <1>3 DEF SavInv, Saving, Clock, XTime, SaveName
<1> QED BY <1>3, <1>4, <1>5, <1>6, <1>7

\* A crash leaves what is not being written.
LEMMA CrashStep ==
  ASSUME TInv, Crash
  PROVE  /\ GoDown /\ pc # "down" /\ UNCHANGED <<nml, lost, tapes>>
         /\ \A f \in files' : f \in files \/ f.whole = FALSE
         /\ \A f \in files : f \in files' \/
              (f.p \in Proc /\ saving[f.p] # {} /\ f.d = Least(saving[f.p]) /\ f.name = SaveName)
<1>1. PICK torn \in SUBSET {p \in Proc : saving[p] # {}} :
        files' = {f \in files : ~ \E p \in torn : f.p = p /\ f.d = Least(saving[p])
                                                  /\ f.name = SaveName}
                 \union {[p |-> p, d |-> Least(saving[p]), name |-> SaveName, whole |-> FALSE,
                          mem |-> Zero] : p \in torn}
  BY DEF Crash
<1>2. ASSUME NEW f \in files, f \notin files'
      PROVE  f.p \in Proc /\ saving[f.p] # {} /\ f.d = Least(saving[f.p]) /\ f.name = SaveName
  <2>1. PICK p \in torn : f.p = p /\ f.d = Least(saving[p]) /\ f.name = SaveName
    BY <1>1, <1>2
  <2> QED BY <2>1
<1> QED BY <1>2, CrashFacts

LEMMA ExactStays ==
  ASSUME FilesExact, LastNamed, nml' = nml,
         \A f \in files' : f \in files \/ ~ f.whole \/ \A t : FileOf(f, t) => f.mem.xtime = XTimeAt(f.d, t),
         \A f \in files' : f \in files \/ (nml.svlast => f.name = 0)
  PROVE  FilesExact' /\ LastNamed'
<1>1. ASSUME NEW f \in files', f.whole, NEW t, FileOf(f, t)
      PROVE  f.mem.xtime = XTimeAt(f.d, t)
  BY <1>1 DEF FilesExact
<1> QED BY XTimeSame, FileOfKept, <1>1 DEF FilesExact, LastNamed

\* What a processor has in memory is of the time, and of no other.
LEMMA SavedExact ==
  ASSUME TInv, BdyInv, RunInv, SavInv, OutputClock, pc = "output", NEW p \in Proc, NEW d \in active,
         SavesAt(nml, Clock), NEW f, f.d = d, f.name = SaveName, f.mem = mem[p][d],
         NEW t, FileOf(f, t)
  PROVE  t = Clock /\ f.mem.xtime = XTimeAt(d, t)
<1>1. FileOf(f, Clock)
  BY SavedNow
<1>2. t = Clock
  BY <1>1 DEF FileOf
<1>3. CASE d = 1
  BY <1>2, <1>3, CoarseTime DEF RunInv, XTimeAt
<1>4. CASE d # 1
  BY <1>2, <1>4 DEF OutputClock
<1> QED BY <1>2, <1>3, <1>4

LEMMA ExactSave ==
  ASSUME TInv, BdyInv, RunInv, SavInv, OutputClock, FilesExact, LastNamed, NEW p \in Proc, Save(p)
  PROVE  FilesExact' /\ LastNamed'
<1>1. PICK d \in active : \E n :
        /\ n.p = p /\ n.d = d /\ n.name = SaveName /\ n.whole /\ n.mem = mem[p][d]
        /\ files' = Overwritten(p, d) \union {n} \/ files' = files
  BY SaveStep
<1>2. PICK n : /\ n.p = p /\ n.d = d /\ n.name = SaveName /\ n.whole /\ n.mem = mem[p][d]
               /\ files' = Overwritten(p, d) \union {n} \/ files' = files
  BY <1>1
<1> QED BY SaveStep, <1>2, SavedExact, ExactStays DEF Overwritten, SaveName

LEMMA ExactNext ==
  ASSUME TInv, BdyInv, RunInv, SavInv, OutputClock, FilesExact, LastNamed, [Next]_vars
  PROVE  FilesExact' /\ LastNamed'
<1>1. CASE \E p \in Proc : Save(p)
  BY <1>1, ExactSave
<1>2. CASE Crash
  BY <1>2, CrashFacts, ExactStays DEF SaveName
<1>3. CASE files' = files /\ nml' = nml
  BY <1>3, ExactStays
<1>4. (\E p \in Proc : Save(p)) \/ Crash \/ (files' = files /\ nml' = nml)
  BY DEF Next, Start, RestartAny, Restart, ReadBoundary, CheckSkips, Deactivate, Activate, SolveCoarse,
     SolveNest, NextTurn, FeedBack, Output, WriteOutput, NextStep, Over, vars, running
<1> QED BY <1>1, <1>2, <1>3, <1>4

LEMMA SavedOutput ==
  ASSUME TInv, BdyInv, RunInv, SavInv, SavFirst, Output
  PROVE  SavedSoFar'
<1>1. Clock' = Clock /\ nml' = nml
  <2>1. Monitor \in Proc
    BY RunNumbers DEF TInv, SetsTyped
  <2> QED BY <2>1, OutputSteps DEF RunInv, Clock, XTime, Output
<1> QED BY <1>1, SavesDue, RunNumbers DEF SavedSoFar, Output, TInv, SetsTyped

LEMMA SavedWriteOutput ==
  ASSUME TInv, BdyInv, RunInv, SavedSoFar, WriteOutput
  PROVE  SavedSoFar'
<1>1. Monitor \in Proc /\ Clock' = Clock
  BY RunNumbers, CoarseSteps DEF TInv, SetsTyped
<1>2. PICK d : mem' = [mem EXCEPT ![Monitor][d].itap = Suffix(d, @)]
  BY DEF WriteOutput
<1>3. /\ pc = "output" /\ outs # {} /\ outs' \subseteq outs
      /\ UNCHANGED <<nml, lost, files, pc, active, saving>>
  BY DEF WriteOutput
<1>4. \A p \in Proc : p # Monitor => mem'[p] = mem[p]
  BY <1>2 DEF TInv, MemTyped
<1>5. SaveName' = SaveName
  BY <1>1, <1>3 DEF SaveName
<1>6. lost = 0 /\ SavesAt(nml, Clock) => saving[Monitor] = active
  BY <1>3 DEF SavedSoFar
<1>7. ASSUME NEW p \in Proc, NEW e \in active \ saving[p], lost = 0, SavesAt(nml, Clock)
      PROVE  SavedOf(p, e)'
  <2>1. p # Monitor
    BY <1>6, <1>7
  <2>2. SavedOf(p, e)
    BY <1>3, <1>7 DEF SavedSoFar
  <2> QED BY <1>3, <1>4, <1>5, <2>1, <2>2 DEF SavedOf
<1> QED BY <1>1, <1>3, <1>6, <1>7 DEF SavedSoFar

LEMMA SavedSave ==
  ASSUME TInv, SavInv, SavedSoFar, NEW p \in Proc, Save(p)
  PROVE  SavedSoFar'
<1>1. /\ pc = "output" /\ SavesAt(nml, Clock) /\ Clock' = Clock /\ SaveName' = SaveName
      /\ UNCHANGED <<nml, pc, mem, active, outs>> /\ (p = Monitor => outs = {})
  BY SaveStep
<1>2. PICK d \in active : \E n :
        /\ saving' = [saving EXCEPT ![p] = @ \ {d}]
        /\ n.p = p /\ n.d = d /\ n.name = SaveName /\ n.whole /\ n.mem = mem[p][d]
        /\ \/ lost' = lost /\ files' = Overwritten(p, d) \union {n}
           \/ lost' = lost + 1 /\ files' = files
  BY SaveStep
<1>3. PICK n : /\ n.p = p /\ n.d = d /\ n.name = SaveName /\ n.whole /\ n.mem = mem[p][d]
               /\ \/ lost' = lost /\ files' = Overwritten(p, d) \union {n}
                  \/ lost' = lost + 1 /\ files' = files
  BY <1>2
<1> SUFFICES ASSUME lost' = 0
             PROVE  /\ \A q \in Proc : \A e \in active \ saving'[q] : SavedOf(q, e)'
                    /\ outs # {} => saving'[Monitor] = active
  BY <1>1 DEF SavedSoFar
<1>4. lost = 0 /\ files' = Overwritten(p, d) \union {n}
  <2>1. lost \in Nat
    BY DEF TInv, SetsTyped
  <2> QED BY <1>3, <2>1
<1>5. \A q \in Proc : saving'[q] = IF q = p THEN saving[p] \ {d} ELSE saving[q]
  BY <1>2 DEF TInv, SetsTyped
<1>6. ASSUME NEW q \in Proc, NEW e \in active \ saving'[q]
      PROVE  SavedOf(q, e)'
  <2>1. CASE q = p /\ e = d
    BY <1>1, <1>3, <1>4, <2>1 DEF SavedOf
  <2>2. CASE ~ (q = p /\ e = d)
    <3>1. e \in active \ saving[q]
      BY <1>5, <1>6, <2>2
    <3>2. SavedOf(q, e)
      BY <1>1, <1>4, <3>1 DEF SavedSoFar
    <3>3. PICK f \in files : f.p = q /\ f.d = e /\ f.name = SaveName /\ f.whole /\ f.mem = mem[q][e]
      BY <3>2 DEF SavedOf
    <3>4. f \in files'
      BY <1>4, <2>2, <3>3 DEF Overwritten
    <3> QED BY <1>1, <3>3, <3>4 DEF SavedOf
  <2> QED BY <2>1, <2>2
<1>7. outs # {} => saving'[Monitor] = active
  <2>1. Monitor \in Proc
    BY RunNumbers DEF TInv, SetsTyped
  <2> QED BY <1>1, <1>4, <1>5, <2>1 DEF SavedSoFar
<1> QED BY <1>6, <1>7

LEMMA StoreInit == Init => StoreInv
BY DEF Init, StoreInv, SavFirst, SolvedClock, OutputClock, FilesExact, LastNamed, SavedSoFar, Solving

\* Where nothing of it changes.
LEMMA StoreStays ==
  ASSUME TInv, StoreInv, FilesExact', LastNamed', UNCHANGED vars
  PROVE  StoreInv'
<1>1. UNCHANGED <<nml, lost, files, pc, mem, active, sav, outs, saving>>
  BY DEF vars, running
<1>2. SavFirst'
  <2>1. CASE pc = "down"
    BY <1>1, <2>1 DEF SavFirst
  <2>2. CASE pc # "down"
    BY <1>1, <2>2, SavFirstStays DEF StoreInv, Solving, KTau
  <2> QED BY <2>1, <2>2
<1>3. SolvedClock' /\ OutputClock'
  <2>1. OutputClock'
    BY <1>1, SameTimes, OutputClockStays DEF StoreInv
  <2>2. /\ Step' = Step /\ DtMin' = DtMin
        /\ \A d : XStNes(d)' = XStNes(d) /\ ActTime(d)' = ActTime(d)
    BY <1>1, NamelistKept
  <2>3. SolvedClock'
    BY <1>1, <2>2 DEF StoreInv, SolvedClock, Solving, Reckoned, Clock, XTime
  <2> QED BY <2>1, <2>3
<1>4. SavedSoFar'
  BY <1>1 DEF StoreInv, SavedSoFar, SavedOf, SaveName, Clock, XTime
<1> QED BY <1>2, <1>3, <1>4 DEF StoreInv

\* Steps that do not write restart files or find out what is due.
LEMMA StoreMoves ==
  ASSUME TInv, SavFirst, FilesExact', LastNamed', pc # "down", UNCHANGED <<nml, sav>>,
         KTau(1)' = KTau(1), Solving' <=> Solving, pc' # "output", SolvedClock'
  PROVE  StoreInv'
<1>1. SavFirst'
  BY SavFirstStays
<1> QED BY <1>1 DEF StoreInv, OutputClock, SavedSoFar

LEMMA StoreNext ==
  ASSUME TInv, BdyInv, RunInv, SavInv, OutInv, StoreInv, TInv', BdyInv', [Next]_vars
  PROVE  StoreInv'
<1>1. FilesExact' /\ LastNamed' /\ Monitor \in Proc /\ 1 \in Dom /\ nml \in Namelists
  BY ExactNext, RunNumbers DEF StoreInv, TInv, SetsTyped
<1>2. CASE Start
  <2>1. KTau(1)' = 0
    BY <1>1, <1>2 DEF RunInv, AllGone, Zero, KTau, Start, ChecksNests
  <2> QED
    BY <1>1, <1>2, <2>1, SavFirstBegins DEF StoreInv, SolvedClock, OutputClock, SavedSoFar, Solving,
       Start, ChecksNests
<1>3. ASSUME NEW ixtimr \in Saved, NEW given \in Givens, Restart(ixtimr, given)
      PROVE  StoreInv'
  <2>1. PICK k : k = mem'[Monitor][1].ktau
    OBVIOUS
  <2>2. k \in Nat
    BY <1>1, <2>1 DEF TInv, MemTyped, Clocks
  <2> QED
    BY <1>1, <1>3, <2>1, RestartState, <2>2, SavFirstBegins DEF StoreInv, SolvedClock, OutputClock,
       SavedSoFar, Solving, KTau, Restart, ChecksNests
<1>4. CASE GoDown
  <2>1. pc' = "down"
    BY <1>4 DEF GoDown
  <2> QED BY <1>1, <2>1 DEF StoreInv, SavFirst, SolvedClock, OutputClock, SavedSoFar, Solving
<1>5. CASE UNCHANGED vars
  BY <1>1, <1>5, StoreStays
<1>6. CASE ReadBoundary \/ CheckSkips \/ Deactivate \/ Activate
  <2> SUFFICES ASSUME ~ GoDown PROVE StoreInv'
    BY <1>4
  <2>1. /\ pc \in {"loop", "check"} /\ pc' \in {"loop", "check", "solve"} /\ UNCHANGED <<nml, sav>>
    BY <1>6 DEF ReadBoundary, ChecksNests, CheckSkips, Deactivate, Activate, NextCheck, TInv, SetsTyped
  <2> QED
    BY <1>1, <2>1, <1>6, CoarseSteps, StoreMoves DEF StoreInv, SolvedClock, Solving, KTau, ReadBoundary
<1>7. CASE SolveCoarse
  BY <1>1, <1>7, SavFirstSolve, SolvedClockCoarse DEF StoreInv, SolveCoarse, OutputClock, SavedSoFar
<1>8. CASE SolveNest
  BY <1>1, <1>8, CoarseSteps, SolvedClockNests, StoreMoves DEF StoreInv, Solving, SolveNest
<1>9. CASE NextTurn \/ FeedBack
  BY <1>1, <1>9, NamelistKept, StoreMoves DEF StoreInv, Solving, SolvedClock, Reckoned, Clock, XTime,
     NextTurn, FeedBack, KTau
<1>10. CASE Output
  BY <1>1, <1>10, SavFirstOutput, OutputClockOutput, SavedOutput DEF StoreInv, SolvedClock, Solving, Output
<1>11. CASE WriteOutput
  <2>1. PICK d : d = Least(outs)
    OBVIOUS
  <2>2. d \in Dom
    BY <2>1, <1>11, LeastDomain DEF WriteOutput, TInv, SetsTyped
  <2> QED
    BY <1>1, <2>1, <2>2, CountKeeps, OutputClockStays, <1>11, SavedWriteOutput, CoarseSteps, SavFirstStays
       DEF StoreInv, SolvedClock, Solving, WriteOutput
<1>12. ASSUME NEW p \in Proc, Save(p)
       PROVE  StoreInv'
  BY <1>1, SaveStep, SameTimes, OutputClockStays, <1>12, SavedSave, SavFirstStays DEF StoreInv,
     SolvedClock, Solving, KTau
<1>13. CASE NextStep
  <2> SUFFICES ASSUME ~ GoDown PROVE StoreInv'
    BY <1>4
  <2> QED BY <1>1, <1>13, StoreMoves DEF StoreInv, SolvedClock, Solving, KTau, NextStep
<1> QED
  BY <1>2, <1>3, <1>4, <1>5, <1>6, <1>7, <1>8, <1>9, <1>10, <1>11, <1>12, <1>13 DEF Next, RestartAny,
     Crash, Over

-------------------------------------------------------------------------------
(* What is kept of the output of earlier runs *)

\* The output of domain d that has to be kept, that of t is in a file up to the
\* n'th, in any file, and so is all until u.
Owed(d, t)       == GivesOutput(d, t) /\ ~ SavesAt(nml, t)
InTapes(d, t, n) == \E r \in tapes : r[1] = d /\ r[2] <= n /\ r[3] = t
Kept(d, t)       == \E r \in tapes : r[1] = d /\ r[3] = t
KeptTo(d, u, n)  == \A t \in Nat : Owed(d, t) /\ t <= u => InTapes(d, t, n)
KeptAny(d, u)    == \A t \in Nat : Owed(d, t) /\ t <= u => Kept(d, t)
Lasting          == IF nml.svlast THEN {1} ELSE Dom

\* When a run opens its first file of domain d, it keeps those up to this.
NextCount(d) == IF d \in opened THEN Count(d) ELSE Count(d) + 1
CameAt == job.ktaur * Step

\* What was kept when the run was restarted still is, and where.
OldKeptOf(d) == KeptAny(d, CameAt) /\ (d \in active => KeptTo(d, CameAt, NextCount(d)))
OldKept      == pc # "down" /\ job.ifrest /\ lost = 0 => \A d \in Lasting : OldKeptOf(d)

LEMMA OwedSame ==
  ASSUME nml' = nml
  PROVE  \A d, t : Owed(d, t)' <=> Owed(d, t)
<1> QED BY OutputsSame DEF Owed

LEMMA KeptMore ==
  ASSUME TapesTyped, NEW d, NEW t, NEW m \in Nat, NEW n \in Nat, m <= n, InTapes(d, t, m)
  PROVE  InTapes(d, t, n) /\ Kept(d, t)
<1>1. PICK r \in tapes : r[1] = d /\ r[2] <= m /\ r[3] = t
  BY DEF InTapes
<1>2. r[2] \in Nat
  BY DEF TapesTyped
<1>3. r[2] <= n
  BY <1>1, <1>2
<1> QED BY <1>1, <1>3 DEF InTapes, Kept

LEMMA KeptToMore ==
  ASSUME TapesTyped, NEW d, NEW u, NEW m \in Nat, NEW n \in Nat, m <= n, KeptTo(d, u, m)
  PROVE  KeptTo(d, u, n) /\ KeptAny(d, u)
BY KeptMore DEF KeptTo, KeptAny

\* Writing a file of one domain keeps those of the others, and of its own what is
\* in files before that, or in all if the file is new.
OutTapTo(d, n, u) == n \in Nat /\ \E count : n = Suffix(d, count) /\ OutTap(d, count, u)

LEMMA OpenKeeps ==
  ASSUME TapesTyped, NEW d, NEW u, NEW n, OutTapTo(d, n, u)
  PROVE  /\ \A e, t, k : e # d /\ InTapes(e, t, k) => InTapes(e, t, k)'
         /\ \A e, t : e # d /\ Kept(e, t) => Kept(e, t)'
         /\ \A t : \A k \in Nat : InTapes(d, t, k) /\ k < n => InTapes(d, t, k)'
         /\ d \in opened \/ ~ TapeExists(d, n) =>
              \A e, t : (Kept(e, t) => Kept(e, t)') /\ \A k : InTapes(e, t, k) => InTapes(e, t, k)'
<1>1. n \in Nat
  BY DEF OutTapTo
<1>2. \A r \in tapes : r \in tapes' \/ (d \notin opened /\ r[1] = d /\ r[2] = n)
  BY DEF OutTapTo, OutTap
<1>3. ASSUME NEW e, NEW t, NEW k, e # d, InTapes(e, t, k)
      PROVE  InTapes(e, t, k)'
  BY <1>2, <1>3 DEF InTapes
<1>4. ASSUME NEW e, NEW t, e # d, Kept(e, t)
      PROVE  Kept(e, t)'
  BY <1>2, <1>4 DEF Kept
<1>5. ASSUME NEW t, NEW k \in Nat, InTapes(d, t, k), k < n
      PROVE  InTapes(d, t, k)'
  <2>1. PICK r \in tapes : r[1] = d /\ r[2] <= k /\ r[3] = t
    BY <1>5 DEF InTapes
  <2>2. r[2] \in Nat
    BY DEF TapesTyped
  <2>3. r[2] # n
    BY <1>1, <1>5, <2>1, <2>2
  <2> QED BY <1>2, <2>1, <2>3 DEF InTapes
<1>6. ASSUME d \in opened \/ ~ TapeExists(d, n), NEW e, NEW t
      PROVE  (Kept(e, t) => Kept(e, t)') /\ \A k : InTapes(e, t, k) => InTapes(e, t, k)'
  BY <1>2, <1>6 DEF InTapes, Kept, TapeExists
<1> QED BY <1>3, <1>4, <1>5, <1>6

LEMMA CountTyped2 ==
  ASSUME TInv, NEW d \in Dom
  PROVE  Count(d) \in Nat /\ NextCount(d) \in Nat /\ Count(d) <= NextCount(d)
<1>1. Count(d) \in Nat
  BY TimeTyped DEF Count
<1> QED BY <1>1 DEF NextCount

LEMMA RunLater ==
  ASSUME TInv, BdyInv, RunInv, pc # "down"
  PROVE  CameAt \in Nat /\ CameAt <= Clock
<1>1. Phase # "down"
  BY DEF Phase, TInv, SetsTyped
<1> QED BY <1>1, CoarseTime, StepsApart DEF CameAt, BdyInv, PhaseInv, RunInv

\* A nest that is yet to begin has given nothing that was to be kept.
LEMMA NothingOwed ==
  ASSUME TInv, BdyInv, RunInv, CameFrom, pc # "down", job.ifrest, NEW d \in Dom, ActTime(d) = Clock,
         NEW t \in Nat, Owed(d, t)
  PROVE  t > CameAt
<1>1. nml \in Namelists
  BY DEF TInv, SetsTyped
<1>2. ActTime(d) <= t
  BY <1>1, OutputStep DEF Owed
<1>3. t # CameAt
  BY DEF Owed, CameFrom, CameAt
<1> QED BY <1>2, RunLater, CoarseTime, <1>3 DEF RunInv

LEMMA KeptStays ==
  ASSUME nml' = nml, NEW d, NEW u, NEW m, NEW n
  PROVE  /\ /\ KeptTo(d, u, m)
            /\ \A t \in Nat : Owed(d, t) /\ t <= u /\ InTapes(d, t, m) => InTapes(d, t, n)'
            => KeptTo(d, u, n)'
         /\ /\ KeptAny(d, u)
            /\ \A t \in Nat : Owed(d, t) /\ t <= u /\ Kept(d, t) => Kept(d, t)'
            => KeptAny(d, u)'
<1> QED BY OwedSame DEF KeptTo, KeptAny

\* A run goes on, and what it came from.
LEMMA SameOrigin ==
  ASSUME TInv, UNCHANGED <<nml, job>>
  PROVE  Lasting' = Lasting /\ CameAt' = CameAt /\ Lasting \subseteq Dom
<1>1. Step' = Step
  BY NamelistKept
<1> QED BY <1>1, RunNumbers DEF Lasting, CameAt, TInv, SetsTyped, Dom

LEMMA OldStays ==
  ASSUME TInv, TInv', UNCHANGED <<nml, job>>, NEW d \in Dom, OldKeptOf(d), d \in active' => d \in active,
         \A t : Kept(d, t) => Kept(d, t)',
         \A n \in Nat : \A m \in Nat : n = NextCount(d) /\ m = NextCount(d)' =>
           \A t : InTapes(d, t, n) => InTapes(d, t, m)'
  PROVE  OldKeptOf(d)'
<1>1. PICK u, n, m : u = CameAt /\ n = NextCount(d) /\ m = NextCount(d)'
  OBVIOUS
<1>2. CameAt' = u
  BY <1>1, SameOrigin
<1>3. n \in Nat /\ m \in Nat
  <2>1. n \in Nat
    BY <1>1, CountTyped2
  <2>2. m \in Nat
    BY <1>1, RunNumbers DEF NextCount, Count, Clocks, TInv, MemTyped, SetsTyped
  <2> QED BY <2>1, <2>2
<1> QED BY <1>1, <1>2, <1>3, KeptStays DEF OldKeptOf

LEMMA OldQuiet ==
  ASSUME TInv, TInv', OldKept, lost' = 0 => lost = 0, Quiet
  PROVE  OldKept'
<1>1. ASSUME NEW d \in Dom, OldKeptOf(d)
      PROVE  OldKeptOf(d)'
  BY <1>1, OldStays DEF Kept, InTapes, NextCount, Quiet, RunsOn
<1> QED BY SameOrigin, <1>1 DEF OldKept, Quiet, RunsOn

\* The file a run opens first does not have what was kept.
LEMMA OldWrites ==
  ASSUME TInv, TInv', BdyInv, RunInv, UnitsInv, OldKept, lost' = 0 => lost = 0, NEW d \in Dom, Writes(d)
  PROVE  OldKept'
<1>1. /\ UNCHANGED <<nml, job>> /\ pc # "down" /\ active' \subseteq active /\ d \in active
      /\ Counted(d, Suffix(d, Count(d))) /\ TapesTyped
  BY DEF Writes, RunsOn, TInv
<1>2. PICK u \in Nat : OutTap(d, Count(d), u)
  BY DEF Writes
<1>3. Lasting' = Lasting /\ CameAt' = CameAt /\ Lasting \subseteq Dom
  BY <1>1, SameOrigin
<1>4. PICK n, c : n = Suffix(d, Count(d)) /\ c = Count(d)
  OBVIOUS
<1>5. /\ c \in Nat /\ n \in Nat /\ opened' = opened \union {d}
      /\ d \in opened => n = c
      /\ d \notin opened /\ job.ifrest =>
           (n = c + 1 /\ ~ TapeExists(d, n)) \/ n = c + 2
  <2>1. c \in Nat
    BY <1>4, CountTyped2
  <2>2. /\ opened' = opened \union {d}
        /\ d \in opened => n = c
        /\ d \notin opened /\ ~ job.ifrest => n = c
        /\ d \notin opened /\ job.ifrest => (n = c + 1 /\ ~ TapeExists(d, c + 1)) \/ n = c + 2
    BY <1>2, <1>4 DEF OutTap, Suffix
  <2>3. n \in Nat
    BY <2>1, <2>2 DEF Suffix
  <2> QED BY <2>1, <2>2, <2>3
<1>6. /\ \A e, t, k : e # d /\ InTapes(e, t, k) => InTapes(e, t, k)'
      /\ \A e, t : e # d /\ Kept(e, t) => Kept(e, t)'
      /\ \A t : \A k \in Nat : InTapes(d, t, k) /\ k < n => InTapes(d, t, k)'
      /\ d \in opened \/ ~ TapeExists(d, n) =>
           \A e, t : (Kept(e, t) => Kept(e, t)') /\ \A k : InTapes(e, t, k) => InTapes(e, t, k)'
  <2>1. OutTapTo(d, n, u)
    BY <1>2, <1>4, <1>5 DEF OutTapTo
  <2> QED BY <1>1, <2>1, OpenKeeps
<1>7. Count(d)' = n /\ \A e \in Dom \ {d} : Count(e)' = Count(e)
  BY <1>1, <1>4 DEF Counted
<1> SUFFICES ASSUME job.ifrest, lost = 0 PROVE \A e \in Lasting : OldKeptOf(e)'
  BY <1>1, <1>3 DEF OldKept
<1>8. ASSUME NEW e \in Lasting, e # d
      PROVE  OldKeptOf(e)'
  <2>1. NextCount(e)' = NextCount(e)
    BY <1>3, <1>5, <1>7, <1>8 DEF NextCount
  <2>2. OldKeptOf(e)
    BY <1>1 DEF OldKept
  <2> QED BY <1>1, <1>3, <1>6, <1>8, <2>1, <2>2, OldStays
<1>9. ASSUME d \in Lasting
      PROVE  OldKeptOf(d)'
  <2>1. OldKeptOf(d) /\ KeptTo(d, CameAt, NextCount(d))
    BY <1>1, <1>9 DEF OldKept, OldKeptOf
  <2>2. NextCount(d)' = n
    BY <1>5, <1>7 DEF NextCount
  <2>3. CASE d \in opened \/ (n = c + 1 /\ ~ TapeExists(d, n))
    <3>1. NextCount(d) = n
      BY <1>4, <1>5, <2>3 DEF NextCount
    <3> QED BY <1>1, <1>6, <2>1, <2>2, <2>3, <3>1, OldStays
  <2>4. CASE d \notin opened /\ n = c + 2
    <3>1. PICK w, m : w = CameAt /\ m = NextCount(d)
      OBVIOUS
    <3>2. m = c + 1 /\ m \in Nat /\ m < n
      BY <1>4, <1>5, <2>4, <3>1 DEF NextCount
    <3>3. TapesTyped'
      BY DEF TInv
    <3>4. \A t : InTapes(d, t, m) => InTapes(d, t, m)'
      BY <1>6, <3>2
    <3>5. KeptTo(d, w, m)'
      BY <1>1, <2>1, <3>1, <3>4, KeptStays
    <3>6. KeptTo(d, w, n)' /\ KeptAny(d, w)'
      <4>1. \A t : InTapes(d, t, m)' => InTapes(d, t, n)' /\ Kept(d, t)'
        BY <1>5, <3>2 DEF InTapes, Kept, TInv, TapesTyped
      <4> QED BY <3>5, <4>1 DEF KeptTo, KeptAny
    <3> QED BY <1>3, <2>2, <3>1, <3>6 DEF OldKeptOf
  <2> QED BY <1>5, <2>3, <2>4
<1> QED BY <1>8, <1>9

LEMMA OldActivates ==
  ASSUME TInv, TInv', BdyInv, RunInv, UnitsInv, CameFrom, OldKept, lost' = 0 => lost = 0, NEW d \in Nest, Activates(d)
  PROVE  OldKept'
<1>1. /\ UNCHANGED <<nml, job>> /\ pc # "down" /\ active' = active \union {d} /\ TapesTyped
      /\ ActTime(d) = Clock /\ OutTap(d, Count(Mother(d)), Clock)
      /\ Counted(d, Suffix(d, Count(Mother(d)))) /\ d \in Dom /\ Mother(d) \in Dom
  BY RunNumbers DEF Activates, RunsOn, TInv, SetsTyped
<1>2. PICK n, c : n = Suffix(d, c) /\ c = Count(Mother(d))
  OBVIOUS
<1>3. Lasting' = Lasting /\ CameAt' = CameAt /\ Lasting \subseteq Dom
  BY <1>1, SameOrigin
<1>4. n \in Nat
  <2>1. c \in Nat
    BY <1>1, <1>2, CountTyped2
  <2> QED BY <1>2, <2>1 DEF Suffix
<1>5. /\ \A e, t, k : e # d /\ InTapes(e, t, k) => InTapes(e, t, k)'
      /\ \A e, t : e # d /\ Kept(e, t) => Kept(e, t)'
  <2>1. OutTapTo(d, n, Clock)
    BY <1>1, <1>2, <1>4 DEF OutTapTo
  <2> QED BY <1>1, <2>1, OpenKeeps
<1>6. opened' = opened \union {d} /\ \A e \in Dom \ {d} : Count(e)' = Count(e)
  BY <1>1 DEF OutTap, Counted
<1> SUFFICES ASSUME job.ifrest, lost = 0, NEW e \in Lasting PROVE OldKeptOf(e)'
  BY <1>1, <1>3 DEF OldKept
<1>7. CASE e # d
  <2>1. NextCount(e)' = NextCount(e)
    BY <1>3, <1>6, <1>7 DEF NextCount
  <2>2. OldKeptOf(e)
    BY <1>1 DEF OldKept
  <2> QED BY <1>1, <1>3, <1>5, <1>7, <2>1, <2>2, OldStays
<1>8. CASE e = d
  <2>1. \A t \in Nat : Owed(d, t) => t > CameAt
    BY <1>1, NothingOwed
  <2>2. \A t : Owed(d, t)' <=> Owed(d, t)
    BY <1>1, OwedSame
  <2>3. CameAt \in Nat
    BY <1>1, RunLater
  <2>4. \A t \in Nat : ~ (Owed(d, t)' /\ t <= CameAt')
    BY <1>3, <2>1, <2>2, <2>3
  <2> QED BY <1>8, <2>4 DEF OldKeptOf, KeptAny, KeptTo
<1> QED BY <1>7, <1>8

\* All output that the program has got beyond is kept, and where.
LEMMA KeptNow ==
  ASSUME TInv, BdyInv, RunInv, OutInv, OldKept, pc # "down", lost = 0, NEW d \in Lasting, NEW t \in Nat,
         Owed(d, t), Past(d, t)
  PROVE  Kept(d, t) /\ (d \in active => InTapes(d, t, NextCount(d)))
<1>1. d \in Dom
  BY RunNumbers DEF Lasting, TInv, SetsTyped
<1>2. CASE OfRun(t)
  <2>1. d \in opened /\ <<d, Count(d), t>> \in tapes
    BY <1>1, <1>2 DEF OutInv, PastWritten, Owed, Written
  <2>2. PICK r \in tapes : r = <<d, Count(d), t>>
    BY <2>1
  <2> QED BY <2>1, <1>1, <2>2, CountTyped2 DEF Kept, InTapes, NextCount
<1>3. CASE ~ OfRun(t)
  BY <1>3, RunLater DEF OldKept, OldKeptOf, KeptAny, KeptTo, OfRun, CameAt
<1> QED BY <1>2, <1>3

LEMMA LostGrows ==
  ASSUME TInv, [Next]_vars, lost' = 0
  PROVE  lost = 0
<1>1. lost \in Nat
  BY DEF TInv, SetsTyped
<1>2. lost' = lost \/ lost' = lost + 1
  BY DEF Next, Start, RestartAny, Restart, ReadBoundary, CheckSkips, Deactivate, Activate, SolveCoarse,
     SolveNest, NextTurn, FeedBack, Output, WriteOutput, Save, NextStep, Crash, Over, vars
<1> QED BY <1>1, <1>2

-------------------------------------------------------------------------------
(* Times one can go on from *)

\* p has a whole restart file of domain d of time t; the program can go on from t.
FileAt(f, p, d, t) == f \in files /\ f.p = p /\ f.d = d /\ f.whole /\ FileOf(f, t)
MonFile(f, t)      == f \in files /\ f.p = Monitor /\ f.whole /\ FileOf(f, t)
Minute(t)          == Nint(t, nml.minute)
Can(t) ==
  /\ SavesAt(nml, t)
  /\ \E given \in Givens : \A p \in Proc : \A d \in Corrected(given, Rounded(nml, t)) :
       \E f : FileAt(f, p, d, t) /\ Minute(f.mem.xtime) = Minute(t)

LEMMA SameNamelist ==
  ASSUME nml' = nml
  PROVE  /\ Givens' = Givens /\ \A given, r : Corrected(given, r)' = Corrected(given, r)
         /\ \A t : Minute(t)' = Minute(t)
<1> QED BY NamelistKept DEF Minute, Corrected, Minutes, Givens

LEMMA CanKept ==
  ASSUME nml' = nml, NEW t, Can(t), \A f \in files : f.whole /\ FileOf(f, t) => f \in files'
  PROVE  Can(t)'
<1>1. PICK given \in Givens : \A p \in Proc : \A d \in Corrected(given, Rounded(nml, t)) :
        \E f : FileAt(f, p, d, t) /\ Minute(f.mem.xtime) = Minute(t)
  BY DEF Can
<1> QED BY FileOfKept, <1>1, SameNamelist DEF Can, FileAt

LEMMA CanWas ==
  ASSUME nml' = nml, NEW t, Can(t)', \A f \in files' : f.whole /\ FileOf(f, t) => f \in files
  PROVE  Can(t)
<1>1. PICK given \in Givens' : \A p \in Proc : \A d \in Corrected(given, Rounded(nml, t))' :
        \E f : FileAt(f, p, d, t)' /\ Minute(f.mem.xtime)' = Minute(t)'
  BY DEF Can
<1> QED BY FileOfKept, <1>1, SameNamelist DEF Can, FileAt

\* There is one file of a time for each domain of each processor, of one time.
LEMMA OneFile ==
  ASSUME SavInv, NEW f \in files, NEW g \in files, f.p = g.p, f.d = g.d, NEW t, FileOf(f, t), FileOf(g, t)
  PROVE  f = g
BY DEF SavInv, FilesRight, FileOf

LEMMA CanNumbers ==
  ASSUME TInv, NEW t, Can(t)
  PROVE  /\ t \in Nat \ {0} /\ Minute(t) \in Nat \ {0} /\ SavesAt(nml, t)
         /\ Rounded(nml, t) = Minutes(Minute(t))
         /\ \A p \in Proc : \E f : FileAt(f, p, 1, t) /\ Minute(f.mem.xtime) = Minute(t)
<1> QED BY SaveNamed DEF Can, Minute, TInv, SetsTyped, Rounded, Minutes, Corrected

\* Whoever starts the program finds that it can go on from such a time.
LEMMA CanRestarts ==
  ASSUME TInv, LastNamed, NEW t, Can(t)
  PROVE  CanRestart(Minute(t)) /\ Minute(t) \in Saved
<1>1. PICK i : i = Minute(t)
  OBVIOUS
<1>2. i \in Nat \ {0} /\ Rounded(nml, t) = Minutes(i)
  BY <1>1, CanNumbers
<1>3. PICK given \in Givens : \A p \in Proc : \A d \in Corrected(given, Rounded(nml, t)) :
        \E f : FileAt(f, p, d, t) /\ Minute(f.mem.xtime) = i
  BY <1>1 DEF Can
<1>4. ASSUME NEW p \in Proc, NEW d \in Corrected(given, Minutes(i))
      PROVE  Readable(p, d, i)
  <2>1. PICK f : FileAt(f, p, d, t) /\ Minute(f.mem.xtime) = i
    BY <1>2, <1>3
  <2>2. f \in files /\ f.p = p /\ f.d = d /\ f.whole /\ f.name = IF nml.svlast THEN 0 ELSE i
    BY <1>1, <2>1 DEF FileAt, FileOf, Minute
  <2>3. f \in ToOpen(p, d, i)
    <3>1. CASE nml.svlast
      BY <1>2, <2>2, <3>1 DEF ToOpen, Named, LastNamed
    <3>2. CASE ~ nml.svlast
      BY <2>2, <3>2 DEF ToOpen, Named
    <3> QED BY <3>1, <3>2
  <2> QED BY <2>1, <2>2, <2>3 DEF Readable, Minute
<1>5. CanRestart(i)
  BY <1>3, <1>4 DEF CanRestart, Restartable
<1>6. i \in Saved
  <2>1. Monitor \in Proc
    BY RunNumbers DEF TInv, SetsTyped
  <2>2. PICK f : FileAt(f, Monitor, 1, t) /\ Minute(f.mem.xtime) = i
    BY <1>1, <2>1, CanNumbers
  <2> QED BY <1>2, <2>2 DEF Saved, FileAt, Minute
<1> QED BY <1>1, <1>5, <1>6

\* And it goes on from the files of one such time, the latest.
LEMMA RestartCan ==
  ASSUME TInv, BdyInv, SavInv, LastNamed, NEW ixtimr \in Saved, NEW given \in Givens,
         Restart(ixtimr, given), \A later \in Saved : later > ixtimr => ~ CanRestart(later)
  PROVE  \E t \in Nat :
           /\ Can(t) /\ (\A u : Can(u) => u <= t)
           /\ \A p \in Proc : \A d \in active' : d \in Dom /\ \E f : FileAt(f, p, d, t) /\ mem'[p][d] = f.mem
<1>1. nml \in Namelists /\ Restartable(ixtimr, given)
  BY DEF Restart, TInv, SetsTyped
<1>2. PICK on : on = Corrected(given, Minutes(ixtimr))
  OBVIOUS
<1>3. active' = on /\ on \subseteq Dom
        /\ mem' = [p \in Proc |-> [d \in Dom |->
                     IF d \in on THEN (CHOOSE f \in ToOpen(p, d, ixtimr) : TRUE).mem ELSE Zero]]
  BY <1>1, <1>2, CorrectedDom DEF Restart
<1>4. PICK t \in Nat :
        /\ SavesAt(nml, t) /\ Nint(t, nml.minute) = ixtimr
        /\ \A p \in Proc : \A d \in on :
             \E f \in files : /\ f = CHOOSE g \in ToOpen(p, d, ixtimr) : TRUE
                              /\ f.d = d /\ FileOf(f, t)
  BY <1>1, <1>2, OneTime
<1>5. Minute(t) = ixtimr /\ on = Corrected(given, Rounded(nml, t))
  BY <1>2, <1>4 DEF Minute, Rounded, Minutes
<1>6. ASSUME NEW p \in Proc, NEW d \in on
      PROVE  \E f : FileAt(f, p, d, t) /\ Minute(f.mem.xtime) = Minute(t) /\ mem'[p][d] = f.mem
  <2>1. PICK f \in files : f = (CHOOSE g \in ToOpen(p, d, ixtimr) : TRUE) /\ f.d = d /\ FileOf(f, t)
    BY <1>4
  <2>2. Readable(p, d, ixtimr)
    BY <1>1, <1>2 DEF Restartable
  <2>3. f.p = p /\ f.whole /\ Nint(f.mem.xtime, nml.minute) = ixtimr
    <3>1. PICK g \in files : /\ g = CHOOSE h \in ToOpen(p, d, ixtimr) : TRUE
                             /\ g.p = p /\ g.whole /\ Nint(g.mem.xtime, nml.minute) = ixtimr
      BY <2>2, ReadFile DEF SavInv
    <3>2. g = f
      BY <2>1, <3>1
    <3> QED BY <3>1, <3>2
  <2>4. mem'[p][d] = f.mem
    BY <1>3, <2>1
  <2> QED BY <1>5, <2>1, <2>3, <2>4 DEF FileAt, Minute
<1>7. Can(t)
  BY <1>4, <1>5, <1>6 DEF Can
<1>8. ASSUME NEW u, Can(u)
      PROVE  u <= t
  <2>1. u \in Nat /\ SavesAt(nml, u) /\ CanRestart(Minute(u)) /\ Minute(u) \in Saved /\ Minute(u) \in Nat
    BY <1>8, CanNumbers, CanRestarts
  <2>2. Minute(t) \in Nat
    BY <1>7, CanNumbers
  <2>3. ~ (Minute(u) > Minute(t))
    BY <1>5, <2>1
  <2>4. t < u => Minute(t) < Minute(u)
    BY <1>1, <1>4, <2>1, SavesApart DEF Minute
  <2> QED BY <2>1, <2>2, <2>3, <2>4
<1>9. \A p \in Proc : \A d \in active' : d \in Dom /\ \E f : FileAt(f, p, d, t) /\ mem'[p][d] = f.mem
  BY <1>3, <1>6
<1> QED BY <1>7, <1>8, <1>9

\* It begins anew only if there is none.
LEMMA StartCannot ==
  ASSUME TInv, LastNamed, Start, NEW t
  PROVE  ~ Can(t)
BY CanRestarts DEF Start

\* Domain d has restart files of time t if it takes part then; with them, and the
\* clocks that they have, one could go on from it.
HasFile(d, t) == d = 1 \/ (ActTime(d) < t /\ t <= DeactTime(d))
Usable(t) ==
  /\ SavesAt(nml, t)
  /\ \E given \in Givens : \A d \in Corrected(given, Rounded(nml, t)) :
       HasFile(d, t) /\ Minute(XTimeAt(d, t)) = Minute(t)

LEMMA UsableSame ==
  ASSUME nml' = nml
  PROVE  \A t : Usable(t)' <=> Usable(t)
<1> QED BY NamelistKept, SameNamelist, XTimeSame DEF Usable, Minute, HasFile

LEMMA CanUsable ==
  ASSUME TInv, FilesExact, NEW t, Can(t)
  PROVE  Usable(t)
<1>1. nml \in Namelists /\ Monitor \in Proc /\ Nest = Dom \ {1}
  BY RunNumbers DEF TInv, SetsTyped
<1>2. PICK given \in Givens : \A p \in Proc : \A d \in Corrected(given, Rounded(nml, t)) :
        \E f : FileAt(f, p, d, t) /\ Minute(f.mem.xtime) = Minute(t)
  BY DEF Can
<1>3. ASSUME NEW d \in Corrected(given, Rounded(nml, t))
      PROVE  HasFile(d, t) /\ Minute(XTimeAt(d, t)) = Minute(t)
  <2>1. PICK f : FileAt(f, Monitor, d, t) /\ Minute(f.mem.xtime) = Minute(t)
    BY <1>1, <1>2
  <2>2. d \in Dom
    BY <1>1, CorrectedDom
  <2> QED BY <2>1, <1>1, <2>2 DEF FilesExact, FileAt, FileOf, HasFile
<1> QED BY <1>2, <1>3 DEF Usable, Can

LEMMA UsableCan ==
  ASSUME TInv, FilesExact, NEW t, Usable(t),
         \A p \in Proc : \A d \in Dom : HasFile(d, t) => \E f : FileAt(f, p, d, t)
  PROVE  Can(t)
<1>1. PICK given \in Givens : \A d \in Corrected(given, Rounded(nml, t)) :
        HasFile(d, t) /\ Minute(XTimeAt(d, t)) = Minute(t)
  BY DEF Usable
<1>2. ASSUME NEW p \in Proc, NEW d \in Corrected(given, Rounded(nml, t))
      PROVE  \E f : FileAt(f, p, d, t) /\ Minute(f.mem.xtime) = Minute(t)
  <2>1. d \in Dom
    BY CorrectedDom DEF TInv, SetsTyped
  <2>2. PICK f : FileAt(f, p, d, t)
    BY <1>1, <2>1
  <2> QED BY <1>1, <2>2 DEF FileAt, FilesExact
<1> QED BY <1>1, <1>2 DEF Usable, Can

\* The run is beyond time t, and its restart files.
AtStep    == pc \in {"loop", "check", "solve"}
Behind(t) == pc # "down" /\ (t < Clock \/ (t = Clock /\ AtStep))

\* How the steps of a run move it on.
LEMMA StepMoves ==
  ASSUME TInv, BdyInv, RunInv, TInv', BdyInv', [Next]_vars, pc # "down", pc' # "down"
  PROVE  /\ nml' = nml /\ job' = job /\ Clock \in Nat /\ Clock' \in Nat
         /\ \/ SolveCoarse /\ Clock' = Clock + Step /\ pc = "solve" /\ ~ AtStep'
            \/ NextStep /\ Clock' = Clock /\ pc = "output" /\ AtStep'
            \/ Clock' = Clock /\ (AtStep' <=> AtStep)
<1>1. Clock \in Nat /\ Clock = KTau(1) * Step /\ KTau(1) \in Nat /\ Step \in Nat \ {0}
  BY CoarseTime DEF RunInv
<1>2. CASE SolveCoarse
  <2>1. KTau(1)' = KTau(1) + 1
    BY <1>2, RunNumbers, SolvedSteps DEF KTau, TInv, SetsTyped, SolveCoarse
  <2> QED BY <1>1, <1>2, CoarseNext, <2>1 DEF AtStep, SolveCoarse
<1>3. CASE NextStep
  BY <1>1, <1>3 DEF AtStep, Clock, XTime, NextStep, GoDown
<1>4. CASE CheckSkips \/ Deactivate \/ Activate
  BY <1>1, <1>4, CoarseSteps DEF AtStep, CheckSkips, Deactivate, Activate, NextCheck, TInv, SetsTyped
<1>5. CASE SolveNest \/ NextTurn \/ FeedBack \/ WriteOutput
  BY <1>1, <1>5, CoarseSteps DEF AtStep, SolveNest, NextTurn, FeedBack, WriteOutput
<1>6. CASE Output
  BY <1>1, <1>6, RunNumbers, OutputSteps DEF AtStep, Output, RunInv, Clock, XTime, TInv, SetsTyped
<1>7. CASE ReadBoundary
  BY <1>1, <1>7 DEF AtStep, Clock, XTime, ReadBoundary, GoDown, ChecksNests
<1>8. CASE (\E p \in Proc : Save(p)) \/ UNCHANGED vars
  BY <1>1, <1>8 DEF AtStep, Clock, XTime, Save, vars, running
<1> QED
  BY <1>2, <1>3, <1>4, <1>5, <1>6, <1>7, <1>8 DEF Next, Start, RestartAny, Restart, Crash, GoDown, Over

LEMMA BehindMoves ==
  ASSUME TInv, BdyInv, RunInv, TInv', BdyInv', [Next]_vars, pc # "down", pc' # "down", NEW t, SavesAt(nml, t)
  PROVE  /\ Behind(t) => Behind(t)'
         /\ Behind(t)' => Behind(t) \/ (NextStep /\ t = Clock)
         /\ NextStep => Behind(Clock)'
<1>1. /\ t \in Nat /\ Clock \in Nat /\ Clock' \in Nat /\ Step \in Nat \ {0} /\ KTau(1) \in Nat
      /\ Clock = KTau(1) * Step
  BY StepMoves, CoarseTime, SaveTime DEF RunInv
<1>2. PICK j \in Nat : t = j * Step
  BY SaveTime DEF TInv, SetsTyped
<1>3. CASE SolveCoarse /\ Clock' = Clock + Step /\ pc = "solve" /\ ~ AtStep'
  <2>1. t < Clock + Step => t <= Clock
    BY <1>1, <1>2, StepsApart
  <2>2. ~ NextStep
    BY <1>3 DEF NextStep
  <2> QED BY <1>1, <1>3, <2>1, <2>2 DEF Behind, AtStep
<1>4. CASE NextStep /\ Clock' = Clock /\ pc = "output" /\ AtStep'
  BY <1>1, <1>4 DEF Behind, AtStep
<1>5. CASE Clock' = Clock /\ (AtStep' <=> AtStep)
  <2>1. Behind(t)' <=> Behind(t)
    BY <1>5 DEF Behind
  <2>2. ~ NextStep
    <3>1. NextStep => pc = "output" /\ pc' = "loop"
      BY DEF NextStep, GoDown
    <3> QED BY <1>5, <3>1 DEF AtStep
  <2> QED BY <2>1, <2>2
<1> QED BY <1>3, <1>4, <1>5, StepMoves

\* What a step does to the restart files: whole ones that are new are of this
\* time, and what is gone had its name.
LEMMA FilesStep ==
  ASSUME TInv, BdyInv, RunInv, SavInv, [Next]_vars
  PROVE  /\ \A f \in files' : f.whole /\ f \notin files =>
              /\ pc = "output" /\ SavesAt(nml, Clock) /\ FileOf(f, Clock) /\ f.name = SaveName
              /\ f.p \in Proc /\ f.d \in active /\ f.mem = mem[f.p][f.d]
              /\ (f.p = Monitor => outs = {}) /\ \E p \in Proc : Save(p)
         /\ \A f \in files : f \notin files' =>
              pc = "output" /\ SavesAt(nml, Clock) /\ f.name = SaveName
<1>1. CASE files' = files
  BY <1>1
<1>2. ASSUME NEW p \in Proc, Save(p)
      PROVE  /\ \A f \in files' : f.whole /\ f \notin files =>
                  /\ pc = "output" /\ SavesAt(nml, Clock) /\ FileOf(f, Clock) /\ f.name = SaveName
                  /\ f.p \in Proc /\ f.d \in active /\ f.mem = mem[f.p][f.d]
                  /\ (f.p = Monitor => outs = {}) /\ \E q \in Proc : Save(q)
             /\ \A f \in files : f \notin files' =>
                  pc = "output" /\ SavesAt(nml, Clock) /\ f.name = SaveName
  <2>1. PICK d \in active : \E n :
          /\ n.p = p /\ n.d = d /\ n.name = SaveName /\ n.whole /\ n.mem = mem[p][d]
          /\ files' = Overwritten(p, d) \union {n} \/ files' = files
    BY <1>2, SaveStep
  <2>2. PICK n : /\ n.p = p /\ n.d = d /\ n.name = SaveName /\ n.whole /\ n.mem = mem[p][d]
                 /\ files' = Overwritten(p, d) \union {n} \/ files' = files
    BY <2>1
  <2> QED BY <1>2, SaveStep, <2>2, SavedNow DEF Overwritten
<1>3. CASE Crash
  <2>1. ASSUME NEW f \in files, f \notin files'
        PROVE  pc = "output" /\ SavesAt(nml, Clock) /\ f.name = SaveName
    BY <1>3, <2>1, CrashStep DEF TInv, SetsTyped, SavInv, Saving
  <2> QED BY <1>3, CrashStep, <2>1
<1>4. (\E p \in Proc : Save(p)) \/ Crash \/ files' = files
  BY DEF Next, Start, RestartAny, Restart, ReadBoundary, CheckSkips, Deactivate, Activate, SolveCoarse,
     SolveNest, NextTurn, FeedBack, Output, WriteOutput, NextStep, Over, vars
<1> QED BY <1>1, <1>2, <1>3, <1>4

\* Files of other times are not touched, unless SVLAST is set.
LEMMA OtherFiles ==
  ASSUME TInv, BdyInv, RunInv, SavInv, [Next]_vars, ~ nml.svlast, NEW t, pc = "output" => t # Clock
  PROVE  \A f : f.whole /\ FileOf(f, t) => (f \in files' <=> f \in files)
<1>1. nml \in Namelists /\ Clock \in Nat
  BY CoarseTime DEF RunInv
<1> SUFFICES ASSUME NEW f, f.whole, FileOf(f, t)
             PROVE  f \in files' <=> f \in files
  OBVIOUS
<1>2. SavesAt(nml, t) /\ f.name = Nint(t, nml.minute) /\ t \in Nat
  BY <1>1, SaveTime DEF FileOf
<1>3. ASSUME f \in files', f \notin files
      PROVE  FALSE
  BY <1>3, FilesStep DEF FileOf
<1>4. ASSUME f \in files, f \notin files'
      PROVE  FALSE
  <2>1. pc = "output" /\ SavesAt(nml, Clock) /\ f.name = Nint(Clock, nml.minute)
    BY <1>4, FilesStep DEF SaveName
  <2>2. Nint(t, nml.minute) # Nint(Clock, nml.minute)
    <3>1. t < Clock => Nint(t, nml.minute) < Nint(Clock, nml.minute)
      BY <1>1, <1>2, <2>1, SavesApart
    <3>2. Clock < t => Nint(Clock, nml.minute) < Nint(t, nml.minute)
      BY <1>1, <1>2, <2>1, SavesApart
    <3> QED BY <1>1, <1>2, <2>1, SaveNamed, <3>1, <3>2
  <2> QED BY <1>2, <2>1, <2>2
<1> QED BY <1>3, <1>4

\* There is something that only a run beyond time t leaves.
Reached(t) ==
  \/ Behind(t)
  \/ \E f \in files : f.whole /\ \E u \in Nat : t < u /\ FileOf(f, u)
  \/ \E r \in tapes : r[1] # 1 /\ ActTime(r[1]) >= t

\* As long as none is lost, a run does not get beyond a time of restart files
\* that are good for something without writing them; and none is ahead of a run.
Passing ==
  lost = 0 /\ ~ nml.svlast =>
    \A t \in Nat : Usable(t) /\ Reached(t) => Can(t) /\ (pc # "down" => Behind(t))
Ahead == pc # "down" => \A t : Can(t) => t <= Clock

\* The domains that have files of this time are those that have taken the step.
LEMMA ActiveAt ==
  ASSUME TInv, BdyInv, RunInv, pc \in {"nests", "end", "output"}, NEW d \in Dom, HasFile(d, Clock)
  PROVE  d \in active
<1>1. nml \in Namelists /\ Step \in Nat \ {0} /\ Clock = KTau(1) * Step /\ KTau(1) \in Nat /\ Nest = Dom \ {1}
  BY CoarseTime, RunNumbers DEF RunInv
<1>2. CASE d = 1
  BY <1>2 DEF TInv, SetsTyped
<1>3. CASE d # 1
  <2>1. d \in Nest /\ ActTime(d) < Clock /\ Clock <= DeactTime(d)
    BY <1>1, <1>3 DEF HasFile
  <2>2. PICK j \in Nat, k \in Nat : ActTime(d) = j * Step /\ DeactTime(d) = k * Step
    BY <1>1, <2>1, NestTimes
  <2>3. j * Step + Step <= Clock
    <3>1. j * Step < KTau(1) * Step
      BY <1>1, <2>1, <2>2
    <3>2. j < KTau(1)
      BY <1>1, <3>1, StepsApart
    <3> QED BY <1>1, <3>2, StepsApart
  <2>4. j * Step \in Nat /\ k * Step \in Nat
    BY <1>1, StepsApart
  <2>5. TakesPart(d, Clock - Step)
    BY <1>1, <2>1, <2>2, <2>3, <2>4 DEF TakesPart
  <2>6. Settled(d, Clock - Step)
    BY <2>1 DEF RunInv, NestsOfTheTime
  <2> QED BY <2>5, <2>6 DEF Settled
<1> QED BY <1>2, <1>3

\* What is saved when all have is all that there may be.
LEMMA AllSaved ==
  ASSUME TInv, BdyInv, RunInv, SavInv, StoreInv, lost = 0, pc = "output", SavesAt(nml, Clock),
         NEW p \in Proc, saving[p] = {}, NEW d \in Dom, HasFile(d, Clock)
  PROVE  d \in active /\ \E f : FileAt(f, p, d, Clock) /\ f.mem = mem[p][d]
<1>1. d \in active
  BY ActiveAt
<1>2. SavedOf(p, d)
  BY <1>1 DEF StoreInv, SavedSoFar
<1>3. PICK f \in files : f.p = p /\ f.d = d /\ f.name = SaveName /\ f.whole /\ f.mem = mem[p][d]
  BY <1>2 DEF SavedOf
<1> QED BY <1>1, <1>3, SavedNow DEF FileAt

LEMMA PassedNow ==
  ASSUME TInv, BdyInv, RunInv, SavInv, StoreInv, lost = 0, pc = "output", \A p \in Proc : saving[p] = {},
         Usable(Clock)
  PROVE  Can(Clock)
<1>1. SavesAt(nml, Clock)
  BY DEF Usable
<1> QED BY <1>1, AllSaved, UsableCan DEF StoreInv

\* What is reached by a step of a run was before.
LEMMA ReachedRunning ==
  ASSUME TInv, BdyInv, RunInv, SavInv, UnitsInv, TInv', BdyInv', [Next]_vars, pc # "down", pc' # "down",
         NEW t \in Nat, SavesAt(nml, t), Reached(t)', ~ Reached(t)
  PROVE  NextStep /\ t = Clock
<1>1. nml' = nml /\ Clock \in Nat /\ nml \in Namelists
  BY StepMoves DEF TInv, SetsTyped
<1>2. CASE Behind(t)'
  BY <1>2, BehindMoves DEF Reached
<1>3. ASSUME NEW f \in files', f.whole, NEW u \in Nat, t < u, FileOf(f, u)
      PROVE  Reached(t)
  <2>1. CASE f \in files
    BY <1>3, <2>1 DEF Reached
  <2>2. CASE f \notin files
    <3>1. FileOf(f, Clock)
      BY <1>3, <2>2, FilesStep
    <3>2. u = Clock
      BY <1>3, <3>1 DEF FileOf
    <3> QED BY <1>3, <3>2 DEF Reached, Behind
  <2> QED BY <2>1, <2>2
<1>4. ASSUME NEW r \in tapes', r[1] # 1, ActTime(r[1]) >= t
      PROVE  Reached(t)
  <2>1. CASE r \in tapes
    BY <1>4, <2>1 DEF Reached
  <2>2. CASE r \notin tapes
    <3>1. CASE Quiet
      BY <1>4, <2>2, <3>1 DEF Quiet
    <3>2. ASSUME NEW d \in Dom, Writes(d)
          PROVE  Reached(t)
      <4>1. PICK u : OutTap(d, Count(d), u)
        BY <3>2 DEF Writes
      <4>2. PICK n : n = Suffix(d, Count(d))
        OBVIOUS
      <4>3. r = <<d, n, u>>
        BY <1>4, <2>2, <4>1, <4>2 DEF OutTap
      <4>4. r[1] = d
        BY <4>3
      <4>5. d \in active /\ d # 1 /\ ActTime(d) >= t
        BY <1>4, <3>2, <4>4 DEF Writes
      <4>6. d \in Nest /\ ActTime(d) \in Nat /\ DeactTime(d) \in Nat
        <5>1. d \in Nest
          BY <1>1, <4>5, RunNumbers
        <5> QED BY <1>1, <5>1, NestTimes
      <4>7. ActTime(d) < Clock
        <5>1. CASE pc = "output"
          BY <4>5, <5>1, NotYetBegun
        <5>2. CASE DeactTime(d) <= Clock
          <6>1. ActTime(d) < DeactTime(d)
            BY <4>5 DEF UnitsInv
          <6> QED BY <1>1, <4>6, <5>2, <6>1
        <5> QED BY <3>2, <5>1, <5>2 DEF Writes
      <4> QED BY <1>1, <4>5, <4>6, <4>7 DEF Reached, Behind
    <3>3. ASSUME NEW d \in Nest, Activates(d)
          PROVE  Reached(t)
      <4>1. PICK n : n = Suffix(d, Count(Mother(d)))
        OBVIOUS
      <4>2. r = <<d, n, Clock>>
        BY <1>4, <2>2, <3>3, <4>1 DEF Activates, OutTap
      <4>3. r[1] = d
        BY <4>2
      <4>4. Clock >= t /\ pc = "check"
        BY <1>4, <3>3, <4>3 DEF Activates
      <4> QED BY <1>1, <4>4 DEF Reached, Behind, AtStep
    <3> QED BY <3>1, <3>2, <3>3, StepKinds
  <2> QED BY <2>1, <2>2
<1>5. \/ \E f \in files' : f.whole /\ \E u \in Nat : t < u /\ FileOf(f, u)
      \/ \E r \in tapes' : r[1] # 1 /\ ActTime(r[1]) >= t
      \/ Behind(t)'
  <2>1. \A f, u : FileOf(f, u)' <=> FileOf(f, u)
    BY <1>1, FileOfKept
  <2>2. \A d : ActTime(d)' = ActTime(d)
    BY <1>1, NamelistKept
  <2> QED BY <2>1, <2>2 DEF Reached
<1> QED BY <1>2, <1>3, <1>4, <1>5

LEMMA PassingRunning ==
  ASSUME TInv, BdyInv, RunInv, SavInv, UnitsInv, StoreInv, TInv', BdyInv', [Next]_vars,
         Passing, pc # "down", pc' # "down"
  PROVE  Passing'
<1>1. nml' = nml /\ Clock \in Nat
  BY StepMoves
<1> SUFFICES ASSUME lost' = 0, ~ nml.svlast, NEW t \in Nat, Usable(t)', Reached(t)'
             PROVE  Can(t)' /\ Behind(t)'
  BY <1>1 DEF Passing
<1>2. lost = 0 /\ Usable(t) /\ SavesAt(nml, t)
  <2>1. Usable(t)
    BY <1>1, UsableSame
  <2> QED BY <2>1, LostGrows DEF Usable
<1>3. CASE Reached(t)
  <2>1. Can(t) /\ Behind(t)
    BY <1>2, <1>3 DEF Passing
  <2>2. Can(t)'
    BY <1>1, <2>1, OtherFiles, CanKept DEF Behind, AtStep
  <2> QED BY <1>2, <2>1, <2>2, BehindMoves
<1>4. CASE ~ Reached(t)
  <2>1. NextStep /\ t = Clock
    BY <1>2, <1>4, ReachedRunning
  <2>2. Can(t)
    BY <1>2, <2>1, PassedNow DEF NextStep
  <2>3. files' = files
    BY <2>1 DEF NextStep
  <2>4. Can(t)'
    BY <1>1, <2>2, <2>3, CanKept
  <2> QED BY <2>4, <2>1 DEF Behind, AtStep, Clock, XTime, NextStep, GoDown
<1> QED BY <1>3, <1>4

LEMMA PassingDown ==
  ASSUME TInv, BdyInv, RunInv, SavInv, [Next]_vars,
         Passing, pc # "down", GoDown, nml' = nml, lost' = lost, tapes' = tapes, files' = files \/ Crash
  PROVE  Passing'
<1>1. pc' = "down" /\ Clock \in Nat
  BY CoarseTime DEF RunInv, GoDown
<1> SUFFICES ASSUME lost = 0, ~ nml.svlast, NEW t \in Nat, Usable(t)', Reached(t)'
             PROVE  Can(t)'
  BY <1>1 DEF Passing
<1>2. Usable(t)
  BY UsableSame
<1>3. Reached(t)
  BY <1>1, FileOfKept, NamelistKept, CrashStep DEF Reached, Behind
<1>4. Can(t) /\ Behind(t)
  BY <1>2, <1>3 DEF Passing
<1> QED BY <1>4, <1>1, OtherFiles, CanKept DEF Behind, AtStep

LEMMA PassingStart ==
  ASSUME TInv, BdyInv, RunInv, StoreInv, Passing, Start
  PROVE  Passing'
<1>1. /\ pc = "down" /\ UNCHANGED <<nml, lost, files, mem>> /\ Monitor \in Proc /\ 1 \in Dom
      /\ tapes' = {r \in tapes : ~ (r[1] = 1 /\ r[2] = 0)} \union {<<1, 0, 0>>}
      /\ nml \in Namelists
  BY RunNumbers DEF Start, TInv, SetsTyped
<1>2. Clock' = 0
  BY <1>1 DEF RunInv, AllGone, Zero, Clock, XTime
<1> SUFFICES ASSUME lost = 0, ~ nml.svlast, NEW t \in Nat, Usable(t)', Reached(t)'
             PROVE  FALSE
  BY <1>1 DEF Passing
<1>3. Usable(t) /\ t # 0
  <2>1. Usable(t)
    BY <1>1, UsableSame
  <2> QED BY <1>1, <2>1, SaveTime DEF Usable
<1>4. Reached(t)
  <2>1. ~ Behind(t)'
    BY <1>2, <1>3 DEF Behind
  <2> QED BY <1>1, FileOfKept, NamelistKept, <2>1 DEF Reached
<1>5. Can(t)
  BY <1>3, <1>4 DEF Passing
<1> QED BY <1>5, StartCannot DEF StoreInv

\* A run goes on at the latest time there is.
ResumedAt(t) ==
  /\ Can(t) /\ (\A u : Can(u) => u <= t)
  /\ Clock' = t /\ CameAt' = t /\ AtStep' /\ pc = "down" /\ pc' # "down"
  /\ job'.ifrest /\ opened = {} /\ opened' = {}
  /\ UNCHANGED <<nml, files, tapes, lost>> /\ active' \subseteq Dom /\ 1 \in active'
  /\ \A d \in active' : \E f : FileAt(f, Monitor, d, t) /\ Count(d)' = f.mem.itap

LEMMA RestartAt ==
  ASSUME TInv, BdyInv, SavInv, StoreInv, UnitsInv, NEW ixtimr \in Saved, NEW given \in Givens,
         Restart(ixtimr, given), \A later \in Saved : later > ixtimr => ~ CanRestart(later)
  PROVE  \E t \in Nat : ResumedAt(t)
<1>1. nml \in Namelists /\ Monitor \in Proc /\ 1 \in Dom /\ Step \in Nat \ {0} /\ DtMin[1] = Step
  BY RunNumbers, DtMinFacts DEF TInv, SetsTyped
<1>2. PICK t \in Nat :
        /\ Can(t) /\ (\A u : Can(u) => u <= t)
        /\ \A p \in Proc : \A d \in active' : d \in Dom /\ \E f : FileAt(f, p, d, t) /\ mem'[p][d] = f.mem
  BY RestartCan DEF StoreInv
<1>3. /\ pc = "down" /\ pc' \in {"loop", "check"} /\ UNCHANGED <<nml, files, tapes, lost, opened>>
      /\ active' = Corrected(given, Minutes(ixtimr))
  BY DEF Restart, ChecksNests
<1>4. 1 \in active' /\ active' \subseteq Dom
  BY <1>1, <1>3, CorrectedDom
<1>5. PICK f : FileAt(f, Monitor, 1, t) /\ mem'[Monitor][1] = f.mem
  BY <1>1, <1>2, <1>4
<1>6. f \in files /\ f.d = 1 /\ FileOf(f, t)
  BY <1>5 DEF FileAt
<1>7. Clock' = t
  <2>1. Clock' = mem'[Monitor][1].xtime
    BY DEF Clock, XTime
  <2>2. f.mem.xtime = t
    BY <1>6, FileClock
  <2> QED BY <1>5, <2>1, <2>2
<1>8. CameAt' = t /\ job'.ifrest
  <2>1. f.mem.ktau \in Nat
    BY <1>6 DEF TInv, FilesTyped, Clocks
  <2>2. f.mem.ktau * Step = t
    <3>1. ActTime(1) = 0
      BY DEF ActTime
    <3> QED BY <1>1, <1>6, <2>1, <3>1 DEF FileOf
  <2>3. job'.ktaur = f.mem.ktau
    BY <1>5, RestartState
  <2>4. job'.ifrest
    <3>1. PICK k : \E u \in nml.timax : job' = [timax |-> u, ifrest |-> TRUE, ixtimr |-> ixtimr, ktaur |-> k]
      BY DEF Restart
    <3> QED BY <3>1
  <2>5. Step' = Step
    BY <1>3, NamelistKept
  <2> QED BY <2>2, <2>3, <2>4, <2>5 DEF CameAt
<1>9. opened = {} /\ opened' = {}
  BY <1>3 DEF UnitsInv
<1>10. AtStep' /\ pc' # "down"
  BY <1>3 DEF AtStep
<1>11. \A d \in active' : \E g : FileAt(g, Monitor, d, t) /\ Count(d)' = g.mem.itap
  <2> SUFFICES ASSUME NEW d \in active'
               PROVE  \E g : FileAt(g, Monitor, d, t) /\ Count(d)' = g.mem.itap
    OBVIOUS
  <2>1. PICK g : FileAt(g, Monitor, d, t) /\ mem'[Monitor][d] = g.mem
    BY <1>1, <1>2
  <2>2. Count(d)' = g.mem.itap
    BY <2>1 DEF Count
  <2> QED BY <2>1, <2>2
<1>12. ResumedAt(t)
  BY <1>2, <1>3, <1>4, <1>7, <1>8, <1>9, <1>10, <1>11 DEF ResumedAt
<1> QED BY <1>12

LEMMA PassingRestart ==
  ASSUME TInv, BdyInv, SavInv, Passing, NEW t0 \in Nat, ResumedAt(t0)
  PROVE  Passing' /\ Ahead'
<1>1. /\ pc = "down" /\ pc' # "down" /\ UNCHANGED <<nml, files, tapes, lost>> /\ Clock' = t0 /\ AtStep'
      /\ Can(t0) /\ (\A u : Can(u) => u <= t0) /\ Monitor \in Proc /\ nml \in Namelists
  BY RunNumbers DEF ResumedAt, TInv, SetsTyped
<1>2. \A t : Can(t)' <=> Can(t)
  BY <1>1, CanKept, CanWas
<1>3. Ahead'
  BY <1>1, <1>2 DEF Ahead
<1>4. ASSUME lost = 0, ~ nml.svlast, NEW t \in Nat, Usable(t)', Reached(t)'
      PROVE  Can(t) /\ t <= t0
  <2>1. Usable(t)
    BY <1>1, <1>4, UsableSame
  <2>2. \A f, u : FileOf(f, u)' <=> FileOf(f, u)
    BY <1>1, FileOfKept
  <2>3. \A d : ActTime(d)' = ActTime(d)
    BY <1>1, NamelistKept
  <2>4. Behind(t)' => t <= t0
    BY <1>1 DEF Behind
  <2>5. CASE t = t0
    BY <1>1, <2>5
  <2>6. CASE t # t0
    <3>1. PICK f : FileAt(f, Monitor, 1, t0)
      BY <1>1, CanNumbers
    <3>2. t < t0 => Reached(t)
      BY <3>1 DEF FileAt, Reached
    <3>3. Reached(t)
      BY <1>1, <1>4, <2>2, <2>3, <2>4, <2>6, <3>2 DEF Reached
    <3> QED BY <1>1, <1>4, <2>1, <3>3 DEF Passing
  <2> QED BY <2>5, <2>6
<1>5. \A t \in Nat : t <= t0 => Behind(t)'
  BY <1>1 DEF Behind
<1>6. Passing'
  BY <1>1, <1>2, <1>4, <1>5 DEF Passing
<1> QED BY <1>3, <1>6

LEMMA AheadRunning ==
  ASSUME TInv, BdyInv, RunInv, SavInv, TInv', BdyInv', Ahead, [Next]_vars, pc # "down", pc' # "down"
  PROVE  Ahead'
<1>1. nml' = nml /\ Clock \in Nat /\ Clock' \in Nat /\ Clock <= Clock' /\ nml \in Namelists
  BY RunNumbers, StepMoves DEF TInv, SetsTyped
<1> SUFFICES ASSUME NEW t, Can(t)'
             PROVE  t <= Clock'
  BY DEF Ahead
<1>2. CASE t = Clock
  BY <1>1, <1>2
<1>3. CASE t # Clock
  <2>1. ASSUME NEW f \in files', f.whole, FileOf(f, t)
        PROVE  f \in files
    BY <1>3, <2>1, FilesStep DEF FileOf
  <2>2. Can(t)
    BY <1>1, <2>1, CanWas
  <2> QED BY <1>1, <2>2, CanNumbers DEF Ahead
<1> QED BY <1>2, <1>3

\* No run begins anew while there is such a time.
LEMMA AheadStart ==
  ASSUME TInv, StoreInv, Start
  PROVE  Ahead' /\ \A t : ~ Can(t)'
<1> QED BY CanWas, StartCannot DEF Ahead, StoreInv, Start

LEMMA PassingInit == Init => Passing /\ Ahead
  BY DEF Init, Passing, Ahead, Reached, Behind

LEMMA PassingNext ==
  ASSUME TInv, BdyInv, RunInv, SavInv, UnitsInv, StoreInv, TInv', BdyInv', Passing, Ahead, [Next]_vars
  PROVE  Passing' /\ Ahead'
<1>1. CASE pc # "down" /\ pc' # "down"
  BY <1>1, PassingRunning, AheadRunning
<1>2. CASE Start
  BY <1>2, PassingStart, AheadStart
<1>3. ASSUME NEW ixtimr \in Saved, NEW given \in Givens,
             \A later \in Saved : later > ixtimr => ~ CanRestart(later), Restart(ixtimr, given)
      PROVE  Passing' /\ Ahead'
  <2>1. \E t \in Nat : ResumedAt(t)
    BY <1>3, RestartAt
  <2> QED BY <2>1, PassingRestart
<1>4. CASE pc # "down" /\ GoDown /\ UNCHANGED <<nml, lost, tapes>> /\ (files' = files \/ Crash)
  <2>1. pc' = "down"
    BY <1>4 DEF GoDown
  <2> QED BY <1>4, <2>1, PassingDown DEF Ahead
<1>5. CASE pc = "down" /\ UNCHANGED vars
  <2>1. pc' = "down" /\ UNCHANGED <<nml, lost, tapes, files, pc>>
    BY <1>5 DEF vars, running
  <2>2. \A t : (Usable(t)' <=> Usable(t)) /\ (Can(t)' <=> Can(t))
    BY <2>1, UsableSame, CanKept, CanWas
  <2>3. \A t \in Nat : Reached(t)' => Reached(t)
    <3>1. \A f, u : FileOf(f, u)' <=> FileOf(f, u)
      BY <2>1, FileOfKept
    <3>2. \A d : ActTime(d)' = ActTime(d)
      BY <2>1, NamelistKept
    <3> QED BY <2>1, <3>1, <3>2 DEF Reached, Behind
  <2> QED BY <1>5, <2>1, <2>2, <2>3 DEF Passing, Ahead
<1> QED BY <1>1, <1>2, <1>3, <1>4, <1>5, StepPhases

\* What a run that is restarted at time t0 comes to keep.
LEMMA OldRestart ==
  ASSUME TInv, TInv', NEW t0 \in Nat, ResumedAt(t0),
         lost = 0 => \A d \in Lasting : KeptAny(d, t0) /\
           \A f : MonFile(f, t0) /\ f.d = d => KeptTo(d, t0, f.mem.itap + 1)
  PROVE  OldKept'
<1>1. /\ UNCHANGED <<nml, tapes, lost>> /\ CameAt' = t0 /\ opened' = {}
      /\ active' \subseteq Dom /\ \A d \in active' : \E f : FileAt(f, Monitor, d, t0) /\ Count(d)' = f.mem.itap
  BY DEF ResumedAt
<1> SUFFICES ASSUME lost = 0, NEW d \in Lasting
             PROVE  OldKeptOf(d)'
  BY <1>1 DEF OldKept, Lasting
<1>2. KeptAny(d, CameAt)'
  BY <1>1, OwedSame DEF KeptAny, Kept, KeptTo, InTapes
<1>3. ASSUME d \in active'
      PROVE  KeptTo(d, CameAt, NextCount(d))'
  <2>1. PICK f : FileAt(f, Monitor, d, t0) /\ Count(d)' = f.mem.itap
    BY <1>1, <1>3
  <2> QED BY <1>1, <2>1, OwedSame DEF KeptTo, InTapes, NextCount, FileAt, MonFile
<1> QED BY <1>2, <1>3 DEF OldKeptOf

LEMMA OldNext ==
  ASSUME TInv, BdyInv, RunInv, SavInv, UnitsInv, CameFrom, TInv', BdyInv', OldKept, [Next]_vars,
         \A t0 \in Nat : ResumedAt(t0) /\ lost = 0 => \A d \in Lasting : KeptAny(d, t0) /\
            \A f : MonFile(f, t0) /\ f.d = d => KeptTo(d, t0, f.mem.itap + 1),
         StoreInv
  PROVE  OldKept'
<1>1. CASE pc # "down" /\ pc' # "down"
  BY <1>1, LostGrows, StepKinds, OldQuiet, OldWrites, OldActivates
<1>2. CASE Start
  <2>1. job'.ifrest = FALSE
    <3>1. PICK t : job' = [Dead EXCEPT !.timax = t]
      BY <1>2 DEF Start
    <3> QED BY <3>1 DEF Dead
  <2> QED BY <2>1 DEF OldKept
<1>3. ASSUME NEW ixtimr \in Saved, NEW given \in Givens,
             \A later \in Saved : later > ixtimr => ~ CanRestart(later), Restart(ixtimr, given)
      PROVE  OldKept'
  <2>1. PICK t \in Nat : ResumedAt(t)
    BY <1>3, RestartAt
  <2> QED BY <2>1, OldRestart
<1>4. CASE pc # "down" /\ GoDown
  BY <1>4 DEF GoDown, OldKept
<1>5. CASE pc = "down" /\ UNCHANGED vars
  BY <1>5 DEF vars, running, OldKept
<1> QED BY <1>1, <1>2, <1>3, <1>4, <1>5, StepPhases

-------------------------------------------------------------------------------
(* What is kept since the latest time one can go on from *)

\* The latest such time L that is passed, unless SVLAST is set: all runs since
\* then have begun from it, but perhaps the first.
Passed(t) == pc = "down" \/ Behind(t)
Base(L)   == Can(L) /\ Passed(L) /\ \A t \in Nat : Can(t) /\ Passed(t) => t <= L

\* The nests that begin after it, and those of them whose mother has opened no file
\* until then.
NewAt(L)     == {d \in Nest : ActTime(d) >= L}
Silent(L, d) == /\ Mother(d) \notin NewAt(L)
                /\ ~ \E t \in Nat : L < t /\ t <= ActTime(d) /\ GivesOutput(Mother(d), t)

\* No run since L has opened a file of domain d with a number beyond M[d].
Limits(L, M) ==
  /\ \A f : MonFile(f, L) => M[f.d] = f.mem.itap + 2
  /\ \A d \in NewAt(L) : M[d] = M[Mother(d)] + (IF Silent(L, d) THEN 0 ELSE 2)

\* The output up to L is where the next runs from it do not open files.
FilesLast(L) == \A f : MonFile(f, L) => KeptTo(f.d, L, f.mem.itap + 1)
AnyKept(L)   == \A d \in Dom : KeptAny(d, L)

\* Domain d still counts as the restart file of L does, or has opened a file.
SinceFile(d, c, L) ==
  IF d \notin opened THEN job.ifrest /\ Count(d) = c
  ELSE \/ Count(d) = c
       \/ /\ Count(d) \in {c + 1, c + 2} /\ TapeExists(d, c + 1)
          /\ \E t \in Nat : L < t /\ t <= Clock /\ GivesOutput(d, t)
OldCounts(L) ==
  \A d \in active \ NewAt(L) : \E f : MonFile(f, L) /\ f.d = d /\ SinceFile(d, f.mem.itap, L)
NewOpened(L) == active \cap NewAt(L) \subseteq opened

\* The files of new nests are numbered on from those of their mothers.
NewLinked(L) ==
  \A d \in NewAt(L) : \A v : TapeExists(d, v) =>
    /\ Mother(d) \in NewAt(L) => \E w : TapeExists(Mother(d), w) /\ v <= w + 2
    /\ Mother(d) \notin NewAt(L) =>
         \A f : MonFile(f, L) /\ f.d = Mother(d) =>
           v <= f.mem.itap + 2 \/ TapeExists(Mother(d), f.mem.itap + 1)
NewNone(L) ==
  pc # "down" /\ ~ job.ifrest => \A d \in NewAt(L) \ opened : \A v : ~ TapeExists(d, v)
NewLimited(L, M) ==
  /\ \A d \in NewAt(L) : \A v : TapeExists(d, v) => v <= M[d] /\ (v = M[d] => TapeExists(d, v - 1))
  /\ \A d \in active \cap NewAt(L) : Count(d) <= M[d]

\* When the mother has a file, the one that a nest is about to open is either new
\* or the last that it may open.
NewBehind(L, M) ==
  \A d \in NewAt(L) \ opened :
    ActTime(d) >= Clock /\ Mother(d) \in active \cap opened /\ Count(Mother(d)) + 2 < M[d] =>
      \A v : TapeExists(d, v) => v <= Count(Mother(d)) + 1

\* Restart files of later times that not all processors have.
LaterFiles(L, M) ==
  \A u \in Nat : u > L => \A f : MonFile(f, u) =>
    KeptTo(f.d, u, f.mem.itap + 1) \/ f.mem.itap + 1 >= M[f.d]

Held(L)      == /\ FilesLast(L) /\ AnyKept(L) /\ OldCounts(L) /\ NewOpened(L)
                /\ NewLinked(L) /\ NewNone(L)
HeldTo(L, M) == NewLimited(L, M) /\ NewBehind(L, M) /\ LaterFiles(L, M)
KeepInv ==
  lost = 0 /\ ~ nml.svlast =>
    \A L \in Nat : Base(L) =>
      Held(L) /\ \A M \in [Dom -> Nat] : Limits(L, M) => HeldTo(L, M)

\* Files of the monitor of time t are left alone.
SameFilesAt(t) == \A f : MonFile(f, t)' <=> MonFile(f, t)

LEMMA LimitsSame ==
  ASSUME nml' = nml, NEW L, SameFilesAt(L), NEW M
  PROVE  NewAt(L)' = NewAt(L) /\ (Limits(L, M)' <=> Limits(L, M))
<1> QED BY NamelistKept, OutputsSame DEF Limits, SameFilesAt, NewAt, Silent

\* A step within a run, or to its end, before another such time is passed.
LEMMA SameBase ==
  ASSUME TInv, BdyInv, RunInv, SavInv, TInv', BdyInv', [Next]_vars, ~ nml.svlast,
         pc # "down", nml' = nml, NEW L \in Nat, Behind(L), Base(L)'
  PROVE  Base(L) /\ SameFilesAt(L)
<1>1. \A t : Behind(t) => \A f : f.whole /\ FileOf(f, t) => (f \in files' <=> f \in files)
  <2> SUFFICES ASSUME NEW t, Behind(t)
               PROVE  \A f : f.whole /\ FileOf(f, t) => (f \in files' <=> f \in files)
    OBVIOUS
  <2> QED BY CoarseTime, OtherFiles DEF Behind, AtStep, RunInv
<1>2. SameFilesAt(L)
  BY <1>1, FileOfKept DEF SameFilesAt, MonFile
<1>3. Base(L)
  BY <1>1, CanKept, CanWas, BehindMoves DEF Base, Passed, Can
<1> QED BY <1>2, <1>3

\* Where files are as they were, so is what is kept.
LEMMA KeptSame ==
  ASSUME nml' = nml, tapes' = tapes
  PROVE  /\ \A d, u, n : KeptTo(d, u, n)' <=> KeptTo(d, u, n)
         /\ \A d, u : KeptAny(d, u)' <=> KeptAny(d, u)
         /\ \A d, v : TapeExists(d, v)' <=> TapeExists(d, v)
  BY OwedSame DEF KeptTo, KeptAny, InTapes, Kept, TapeExists

\* Steps that open no file, whatever they write.
Calm ==
  /\ RunsOn /\ opened' = opened /\ Clock <= Clock' /\ active' \subseteq active
  /\ \A d \in Dom : Count(d)' = Count(d)
  /\ \A d, v : TapeExists(d, v)' <=> TapeExists(d, v)
  /\ \A d, u : KeptAny(d, u) => KeptAny(d, u)'
  /\ \A d, u, n : KeptTo(d, u, n) => KeptTo(d, u, n)'

LEMMA QuietCalm ==
  ASSUME Quiet
  PROVE  Calm
  BY KeptSame DEF Quiet, RunsOn, Calm

LEMMA WritesCalm ==
  ASSUME TInv, UnitsInv, NEW d \in opened, d \in Dom, Writes(d)
  PROVE  Calm
<1>1. PICK u \in Nat : OutTap(d, Count(d), u)
  BY DEF Writes
<1>2. PICK n : n = Suffix(d, Count(d))
  OBVIOUS
<1>3. /\ opened' = opened \union {d}
      /\ \A e, v : TapeExists(e, v)' <=> TapeExists(e, v) \/ (e = d /\ v = n)
      /\ n = Count(d)
  <2>1. PICK c : c = Count(d)
    OBVIOUS
  <2>2. n = Suffix(d, c) /\ OutTap(d, c, u)
    BY <1>1, <1>2, <2>1
  <2>3. /\ opened' = opened \union {d}
        /\ \A e, v : TapeExists(e, v)' <=> TapeExists(e, v) \/ (e = d /\ v = n)
        /\ d \in opened => n = c
    <3>1. opened' = opened \union {d}
      BY <2>2 DEF OutTap
    <3>2. d \in opened => n = c
      BY <2>2 DEF Suffix
    <3> QED BY <2>2, <3>1, <3>2, OutTapFiles
  <2> QED BY <2>1, <2>3
<1>4. /\ RunsOn /\ Clock' = Clock /\ active' \subseteq active
      /\ Count(d)' = n /\ \A e \in Dom \ {d} : Count(e)' = Count(e)
  BY <1>2 DEF Writes, Counted
<1>5. nml' = nml /\ Clock \in Nat
  BY <1>4 DEF RunsOn
<1>6. \A e, v : TapeExists(e, v)' <=> TapeExists(e, v)
  BY <1>3 DEF UnitsInv
<1>7. OutTapTo(d, n, u)
  <2>1. n \in Nat
    BY <1>3, CountTyped2
  <2> QED BY <1>1, <1>2, <2>1 DEF OutTapTo
<1>8. \A e, t : (Kept(e, t) => Kept(e, t)') /\ \A k : InTapes(e, t, k) => InTapes(e, t, k)'
  BY <1>7, OpenKeeps DEF TInv
<1>9. /\ \A e, t : KeptAny(e, t) => KeptAny(e, t)'
      /\ \A e, t, k : KeptTo(e, t, k) => KeptTo(e, t, k)'
  BY <1>5, <1>8, OwedSame DEF KeptAny, KeptTo
<1>10. opened' = opened /\ Clock <= Clock' /\ \A e \in Dom : Count(e)' = Count(e)
  BY <1>3, <1>4, <1>5
<1> QED BY <1>4, <1>6, <1>9, <1>10 DEF Calm

LEMMA KeepCalm ==
  ASSUME TInv, Calm, NEW L \in Nat, SameFilesAt(L), Held(L)
  PROVE  Held(L)'
<1>1. /\ nml' = nml /\ job' = job /\ opened' = opened /\ pc # "down" /\ pc' # "down"
      /\ Clock \in Nat /\ Clock' \in Nat /\ Clock <= Clock' /\ active' \subseteq active /\ active \subseteq Dom
      /\ \A d \in Dom : Count(d)' = Count(d)
  BY DEF Calm, RunsOn, TInv, SetsTyped
<1>2. /\ NewAt(L)' = NewAt(L) /\ \A d : Mother(d)' = Mother(d)
      /\ \A d, t : GivesOutput(d, t)' <=> GivesOutput(d, t)
  BY <1>1, LimitsSame, NamelistKept, OutputsSame
<1>3. FilesLast(L)' /\ AnyKept(L)'
  BY DEF Calm, Held, FilesLast, AnyKept, SameFilesAt
<1>4. \A d, v : TapeExists(d, v)' <=> TapeExists(d, v)
  BY DEF Calm
<1>5. OldCounts(L)'
  <2> SUFFICES ASSUME NEW d \in active', d \notin NewAt(L)
               PROVE  \E f : MonFile(f, L)' /\ f.d = d /\ SinceFile(d, f.mem.itap, L)'
    BY <1>2 DEF OldCounts
  <2>1. PICK f : MonFile(f, L) /\ f.d = d /\ SinceFile(d, f.mem.itap, L)
    BY <1>1 DEF Held, OldCounts
  <2>2. PICK c : c = f.mem.itap
    OBVIOUS
  <2>3. SinceFile(d, c, L)'
    BY <1>1, <1>2, <1>4, <2>1, <2>2 DEF SinceFile
  <2> QED BY <2>1, <2>2, <2>3 DEF SameFilesAt
<1>6. NewOpened(L)' /\ NewNone(L)'
  BY <1>1, <1>2, <1>4 DEF Held, NewOpened, NewNone
<1>7. NewLinked(L)'
  <2>1. \A d, v : TapeExists(Mother(d), v)' <=> TapeExists(Mother(d), v)
    <3>1. \A d, v : (\E m : m = Mother(d) /\ TapeExists(m, v))' <=> \E m : m = Mother(d) /\ TapeExists(m, v)
      BY <1>2, <1>4
    <3> QED BY <3>1
  <2> QED BY <1>2, <1>4, <2>1 DEF Held, NewLinked, SameFilesAt
<1> QED BY <1>3, <1>5, <1>6, <1>7 DEF Held

LEMMA KeepCalmTo ==
  ASSUME TInv, Calm, NEW L \in Nat, SameFilesAt(L), NEW M \in [Dom -> Nat], HeldTo(L, M),
         \A u \in Nat : \A f : MonFile(f, u)' => MonFile(f, u) \/ KeptTo(f.d, u, f.mem.itap + 1)
  PROVE  HeldTo(L, M)'
<1>1. /\ nml' = nml /\ job' = job /\ opened' = opened
      /\ Clock \in Nat /\ Clock' \in Nat /\ Clock <= Clock' /\ active' \subseteq active /\ active \subseteq Dom
      /\ \A d \in Dom : Count(d)' = Count(d)
      /\ nml \in Namelists
  BY DEF Calm, RunsOn, TInv, SetsTyped
<1>2. /\ NewAt(L)' = NewAt(L) /\ \A d : Mother(d)' = Mother(d) /\ ActTime(d)' = ActTime(d)
  BY <1>1, LimitsSame, NamelistKept
<1>3. NewBehind(L, M)'
  <2> SUFFICES ASSUME NEW d \in NewAt(L), d \notin opened, ActTime(d) >= Clock',
                      Mother(d) \in active' \cap opened', Count(Mother(d))' + 2 < M[d], NEW v, TapeExists(d, v)'
               PROVE  v <= Count(Mother(d))' + 1
    BY <1>1, <1>2 DEF NewBehind
  <2>1. Count(Mother(d))' = Count(Mother(d)) /\ Mother(d) \in active \cap opened
    <3>1. PICK m : m = Mother(d)
      OBVIOUS
    <3> QED BY <1>1, <1>2, <3>1 DEF Count
  <2> QED BY <1>1, NestTimes, <2>1 DEF HeldTo, NewBehind, Calm, NewAt
<1> QED BY <1>1, <1>2, <1>3 DEF HeldTo, Calm, LaterFiles, NewLimited

\* A step that opens file n of domain d.
Opens(d, n) ==
  /\ RunsOn /\ Clock' = Clock /\ files' = files /\ d \in Dom \ opened /\ opened' = opened \union {d}
  /\ n \in Nat /\ Counted(d, n)
  /\ \A e, v : TapeExists(e, v)' <=> TapeExists(e, v) \/ (e = d /\ v = n)
  /\ \A e, u : e # d /\ KeptAny(e, u) => KeptAny(e, u)'
  /\ \A e, u, k : e # d /\ KeptTo(e, u, k) => KeptTo(e, u, k)'
  /\ \A u : \A k \in Nat : k < n /\ KeptTo(d, u, k) => KeptTo(d, u, k)'
  /\ ~ TapeExists(d, n) => \A u : /\ KeptAny(d, u) => KeptAny(d, u)'
                                  /\ \A k : KeptTo(d, u, k) => KeptTo(d, u, k)'

\* What number it has, k being ITAPCNT before that.
NumbersOn(d, n, k) ==
  IF job.ifrest THEN (n = k + 1 /\ ~ TapeExists(d, n)) \/ (n = k + 2 /\ TapeExists(d, k + 1))
                ELSE n = k

LEMMA OutTapExists ==
  ASSUME NEW d, NEW n, NEW u, OutTapTo(d, n, u)
  PROVE  /\ opened' = opened \union {d}
         /\ \A e, v : TapeExists(e, v)' <=> TapeExists(e, v) \/ (e = d /\ v = n)
<1>1. PICK count : n = Suffix(d, count) /\ OutTap(d, count, u)
  BY DEF OutTapTo
<1>2. <<d, n, u>>[1] = d /\ <<d, n, u>>[2] = n
  OBVIOUS
<1>3. ASSUME NEW e, NEW v
      PROVE  TapeExists(e, v)' <=> TapeExists(e, v) \/ (e = d /\ v = n)
  BY <1>1, <1>2 DEF TapeExists, OutTap
<1> QED BY <1>1, <1>3 DEF OutTap

LEMMA OutTapOpens ==
  ASSUME TInv, RunsOn, Clock' = Clock, files' = files, NEW d \in Dom \ opened, NEW k \in Nat, NEW u,
         OutTap(d, k, u), NEW n, n = Suffix(d, k), Counted(d, n)
  PROVE  Opens(d, n) /\ NumbersOn(d, n, k)
<1>1. /\ ~ job.ifrest => n = k
      /\ job.ifrest => \/ n = k + 1 /\ ~ TapeExists(d, k + 1)
                       \/ n = k + 2 /\ TapeExists(d, k + 1)
  BY DEF Suffix
<1>2. n \in Nat
  BY <1>1
<1>3. NumbersOn(d, n, k)
  BY <1>1 DEF NumbersOn
<1>4. OutTapTo(d, n, u)
  BY <1>2 DEF OutTapTo
<1>5. /\ opened' = opened \union {d}
      /\ \A e, v : TapeExists(e, v)' <=> TapeExists(e, v) \/ (e = d /\ v = n)
  BY <1>4, OutTapExists
<1>6. /\ \A e, t, j : e # d /\ InTapes(e, t, j) => InTapes(e, t, j)'
      /\ \A e, t : e # d /\ Kept(e, t) => Kept(e, t)'
      /\ \A t : \A j \in Nat : InTapes(d, t, j) /\ j < n => InTapes(d, t, j)'
      /\ d \in opened \/ ~ TapeExists(d, n) =>
           \A e, t : (Kept(e, t) => Kept(e, t)') /\ \A j : InTapes(e, t, j) => InTapes(e, t, j)'
  <2>1. TapesTyped
    BY DEF TInv
  <2>2. \A e, t, j : e # d /\ InTapes(e, t, j) => InTapes(e, t, j)'
    BY <1>4, <2>1, OpenKeeps
  <2>3. \A e, t : e # d /\ Kept(e, t) => Kept(e, t)'
    BY <1>4, <2>1, OpenKeeps
  <2>4. \A t : \A j \in Nat : InTapes(d, t, j) /\ j < n => InTapes(d, t, j)'
    BY <1>4, <2>1, OpenKeeps
  <2>5. d \in opened \/ ~ TapeExists(d, n) =>
          \A e, t : (Kept(e, t) => Kept(e, t)') /\ \A j : InTapes(e, t, j) => InTapes(e, t, j)'
    BY <1>4, <2>1, OpenKeeps
  <2> QED BY <2>2, <2>3, <2>4, <2>5
<1>7. \A e, t : Owed(e, t)' <=> Owed(e, t)
  BY OwedSame DEF RunsOn
<1>8. /\ \A e, t : e # d /\ KeptAny(e, t) => KeptAny(e, t)'
      /\ \A e, t, j : e # d /\ KeptTo(e, t, j) => KeptTo(e, t, j)'
      /\ \A t : \A j \in Nat : j < n /\ KeptTo(d, t, j) => KeptTo(d, t, j)'
      /\ ~ TapeExists(d, n) => \A t : /\ KeptAny(d, t) => KeptAny(d, t)'
                                      /\ \A j : KeptTo(d, t, j) => KeptTo(d, t, j)'
  BY <1>6, <1>7 DEF KeptAny, KeptTo
<1> QED BY <1>2, <1>3, <1>8, <1>5 DEF Opens

LEMMA WritesOpens ==
  ASSUME TInv, NEW d \in Dom \ opened, Writes(d)
  PROVE  \E n : Opens(d, n) /\ NumbersOn(d, n, Count(d)) /\ active' \subseteq active
<1>1. PICK u \in Nat : OutTap(d, Count(d), u)
  BY DEF Writes
<1>2. PICK k : k = Count(d)
  OBVIOUS
<1>3. PICK n : n = Suffix(d, k)
  OBVIOUS
<1> QED BY <1>2, <1>3, <1>1, CountTyped2, OutTapOpens DEF Writes, Counted

LEMMA ActivatesOpens ==
  ASSUME TInv, UnitsInv, NEW d \in Nest, Activates(d), NEW m, m = Mother(d)
  PROVE  \E n : Opens(d, n) /\ NumbersOn(d, n, Count(m)) /\ active' = active \union {d} /\ m \in active \cap Dom
<1>1. d \notin opened /\ d \in Dom /\ m \in Dom
  BY NewUnit, RunNumbers DEF TInv, SetsTyped
<1>2. PICK k : k = Count(m)
  OBVIOUS
<1>3. PICK n : n = Suffix(d, k)
  OBVIOUS
<1>4. k \in Nat /\ OutTap(d, k, Clock) /\ Counted(d, n)
  <2>1. Counted(d, Suffix(d, Count(Mother(d)))) /\ OutTap(d, Count(Mother(d)), Clock)
    BY DEF Activates
  <2>2. Suffix(d, Count(Mother(d))) = n /\ Count(Mother(d)) = k
    BY <1>2, <1>3
  <2>3. Counted(d, n)
    BY <2>1, <2>2 DEF Counted
  <2> QED BY <1>1, <1>2, <2>1, <2>2, <2>3, CountTyped2
<1>5. RunsOn /\ Clock' = Clock /\ files' = files /\ active' = active \union {d} /\ m \in active
  BY DEF Activates
<1>6. Opens(d, n) /\ NumbersOn(d, n, k)
  BY <1>1, <1>3, <1>4, <1>5, OutTapOpens
<1> QED BY <1>1, <1>2, <1>5, <1>6

\* A number of files of domain d that has been active since L or before it.
OldNumber(d, n, L) ==
  \E f : /\ MonFile(f, L) /\ f.d = d
         /\ \/ n = f.mem.itap + 1 /\ ~ TapeExists(d, n)
            \/ n = f.mem.itap + 2 /\ TapeExists(d, f.mem.itap + 1)

LEMMA OpensFacts ==
  ASSUME TInv, NEW d, NEW n, Opens(d, n), NEW L
  PROVE  /\ nml' = nml /\ job' = job /\ pc # "down" /\ pc' # "down" /\ Clock' = Clock /\ Clock \in Nat
         /\ \A u : SameFilesAt(u)
         /\ opened' = opened \union {d} /\ d \in Dom /\ d \notin opened
         /\ Count(d)' = n /\ n \in Nat /\ \A e \in Dom \ {d} : Count(e)' = Count(e)
         /\ NewAt(L)' = NewAt(L) /\ \A e : Mother(e)' = Mother(e) /\ ActTime(e)' = ActTime(e)
         /\ \A e, t : GivesOutput(e, t)' <=> GivesOutput(e, t)
         /\ \A e, v : TapeExists(e, v) => TapeExists(e, v)'
         /\ \A e, v : e # d => (TapeExists(e, v)' <=> TapeExists(e, v))
         /\ \A v : TapeExists(d, v)' <=> TapeExists(d, v) \/ v = n
<1>1. /\ nml' = nml /\ job' = job /\ pc # "down" /\ pc' # "down" /\ Clock' = Clock /\ Clock \in Nat
      /\ opened' = opened \union {d} /\ d \in Dom /\ d \notin opened /\ files' = files
      /\ Count(d)' = n /\ n \in Nat /\ \A e \in Dom \ {d} : Count(e)' = Count(e)
  BY DEF Opens, RunsOn, Counted
<1>2. /\ \A e, v : TapeExists(e, v) => TapeExists(e, v)'
      /\ \A e, v : e # d => (TapeExists(e, v)' <=> TapeExists(e, v))
      /\ \A v : TapeExists(d, v)' <=> TapeExists(d, v) \/ v = n
  BY DEF Opens
<1>3. \A u : SameFilesAt(u)
  <2>1. \A f, u : FileOf(f, u)' <=> FileOf(f, u)
    BY <1>1, FileOfKept
  <2> QED BY <1>1, <2>1 DEF SameFilesAt, MonFile
<1>4. NewAt(L)' = NewAt(L)
  BY <1>1, <1>3, LimitsSame
<1> QED BY <1>1, <1>2, <1>3, <1>4, NamelistKept, OutputsSame

LEMMA OldOpens ==
  ASSUME TInv, SavInv, NEW L \in Nat, Held(L), NEW d \in active \ opened, NEW n,
         Opens(d, n), NumbersOn(d, n, Count(d)), active' \subseteq active,
         d \in active' => L < Clock /\ GivesOutput(d, Clock)
  PROVE  Held(L)' /\ d \notin NewAt(L) /\ OldNumber(d, n, L)
<1>1. /\ nml' = nml /\ job' = job /\ pc # "down" /\ Clock' = Clock /\ Clock \in Nat
      /\ SameFilesAt(L) /\ opened' = opened \union {d} /\ d \in Dom
      /\ Count(d)' = n /\ n \in Nat /\ \A e \in Dom \ {d} : Count(e)' = Count(e)
      /\ NewAt(L)' = NewAt(L) /\ \A e : Mother(e)' = Mother(e)
      /\ \A e, t : GivesOutput(e, t)' <=> GivesOutput(e, t)
      /\ \A e, v : TapeExists(e, v) => TapeExists(e, v)'
      /\ \A e, v : e # d => (TapeExists(e, v)' <=> TapeExists(e, v))
      /\ \A v : TapeExists(d, v)' <=> TapeExists(d, v) \/ v = n
      /\ active \subseteq Dom
  BY OpensFacts DEF TInv, SetsTyped
<1>2. d \notin NewAt(L)
  BY DEF Held, NewOpened
<1>3. PICK g : MonFile(g, L) /\ g.d = d /\ SinceFile(d, g.mem.itap, L)
  BY <1>2 DEF Held, OldCounts
<1>4. PICK c : c = g.mem.itap
  OBVIOUS
<1>5. c \in Nat /\ job.ifrest /\ Count(d) = c
  BY <1>3, <1>4 DEF SinceFile, MonFile, TInv, FilesTyped, Clocks
<1>6. (n = c + 1 /\ ~ TapeExists(d, n)) \/ (n = c + 2 /\ TapeExists(d, c + 1))
  <2>1. PICK k : k = Count(d)
    OBVIOUS
  <2>2. NumbersOn(d, n, k) /\ k = c
    BY <1>5, <2>1
  <2> QED BY <1>5, <2>2 DEF NumbersOn
<1>7. OldNumber(d, n, L)
  BY <1>3, <1>4, <1>6 DEF OldNumber
<1>8. KeptTo(d, L, c + 1)'
  <2>1. KeptTo(d, L, c + 1)
    BY <1>3, <1>4 DEF Held, FilesLast
  <2>2. c + 1 \in Nat /\ (~ TapeExists(d, n) \/ c + 1 < n)
    BY <1>5, <1>6
  <2>3. /\ \A u : \A k \in Nat : k < n /\ KeptTo(d, u, k) => KeptTo(d, u, k)'
        /\ ~ TapeExists(d, n) => \A u : \A k : KeptTo(d, u, k) => KeptTo(d, u, k)'
    BY DEF Opens
  <2> QED BY <2>1, <2>2, <2>3
<1>9. FilesLast(L)'
  <2> SUFFICES ASSUME NEW f, MonFile(f, L)
               PROVE  KeptTo(f.d, L, f.mem.itap + 1)'
    BY <1>1 DEF FilesLast, SameFilesAt
  <2>1. CASE f.d = d
    <3>1. f = g
      <4>1. \A h : MonFile(h, L) => h \in files /\ h.p = Monitor /\ FileOf(h, L)
        BY DEF MonFile
      <4> QED BY <1>3, <2>1, <4>1, OneFile
    <3> QED BY <1>3, <1>4, <1>8, <3>1
  <2>2. CASE f.d # d
    <3>1. PICK e, k : e = f.d /\ k = f.mem.itap + 1
      OBVIOUS
    <3>2. KeptTo(e, L, k) /\ e # d
      BY <2>2, <3>1 DEF Held, FilesLast
    <3>3. KeptTo(e, L, k)'
      BY <3>2 DEF Opens
    <3> QED BY <3>1, <3>3
  <2> QED BY <2>1, <2>2
<1>10. AnyKept(L)'
  <2>1. KeptAny(d, L)'
    BY <1>8 DEF KeptTo, KeptAny, InTapes, Kept
  <2>2. \A e \in Dom : e # d => KeptAny(e, L)'
    BY DEF Held, AnyKept, Opens
  <2> QED BY <2>1, <2>2 DEF AnyKept
<1>11. OldCounts(L)'
  <2> SUFFICES ASSUME NEW e \in active', e \notin NewAt(L)
               PROVE  \E f : MonFile(f, L)' /\ f.d = e /\ SinceFile(e, f.mem.itap, L)'
    BY <1>1 DEF OldCounts
  <2>1. CASE e = d
    <3>1. TapeExists(d, c + 1)'
      BY <1>1, <1>6
    <3>2. n \in {c + 1, c + 2} /\ L < Clock /\ GivesOutput(d, Clock) /\ d \in opened'
      BY <1>1, <1>6, <2>1
    <3>3. SinceFile(d, c, L)'
      BY <1>1, <3>1, <3>2 DEF SinceFile
    <3> QED BY <1>1, <1>3, <1>4, <2>1, <3>3 DEF SameFilesAt
  <2>2. CASE e # d
    <3>1. PICK f : MonFile(f, L) /\ f.d = e /\ SinceFile(e, f.mem.itap, L)
      BY DEF Held, OldCounts
    <3>2. PICK k : k = f.mem.itap
      OBVIOUS
    <3>3. SinceFile(e, k, L)
      BY <3>1, <3>2
    <3>4. Count(e)' = Count(e) /\ (e \in opened' <=> e \in opened)
      BY <1>1, <2>2
    <3>5. SinceFile(e, k, L)'
      BY <1>1, <2>2, <3>3, <3>4 DEF SinceFile
    <3> QED BY <1>1, <3>1, <3>2, <3>5 DEF SameFilesAt
  <2> QED BY <2>1, <2>2
<1>12. NewOpened(L)' /\ NewNone(L)'
  BY <1>1, <1>5 DEF Held, NewOpened, NewNone
<1>13. NewLinked(L)'
  <2> SUFFICES ASSUME NEW e \in NewAt(L), NEW v, TapeExists(e, v)
               PROVE  /\ Mother(e)' \in NewAt(L) => (\E w : TapeExists(Mother(e), w) /\ v <= w + 2)'
                      /\ Mother(e)' \notin NewAt(L) =>
                           \A f : MonFile(f, L) /\ f.d = Mother(e)' =>
                             v <= f.mem.itap + 2 \/ TapeExists(Mother(e), f.mem.itap + 1)'
    BY <1>1, <1>2 DEF NewLinked, SameFilesAt
  <2>1. PICK m : m = Mother(e)
    OBVIOUS
  <2>2. m = Mother(e)'
    BY <1>1, <2>1
  <2>3. /\ m \in NewAt(L) => \E w : TapeExists(m, w) /\ v <= w + 2
        /\ m \notin NewAt(L) =>
             \A f : MonFile(f, L) /\ f.d = m => v <= f.mem.itap + 2 \/ TapeExists(m, f.mem.itap + 1)
    BY <2>1 DEF Held, NewLinked
  <2>4. /\ m \in NewAt(L) => \E w : TapeExists(m, w)' /\ v <= w + 2
        /\ m \notin NewAt(L) =>
             \A f : MonFile(f, L) /\ f.d = m => v <= f.mem.itap + 2 \/ TapeExists(m, f.mem.itap + 1)'
    BY <1>1, <2>3
  <2> QED BY <2>2, <2>4 DEF TapeExists
<1> QED BY <1>2, <1>7, <1>9, <1>10, <1>11, <1>12, <1>13 DEF Held

LEMMA LaterOpens ==
  ASSUME TInv, NEW L \in Nat, NEW M \in [Dom -> Nat], LaterFiles(L, M), NEW d, NEW n, Opens(d, n),
         n >= M[d] \/ ~ TapeExists(d, n)
  PROVE  LaterFiles(L, M)'
<1> SUFFICES ASSUME NEW u \in Nat, u > L, NEW f, MonFile(f, u), ~ f.mem.itap + 1 >= M[f.d]
             PROVE  KeptTo(f.d, u, f.mem.itap + 1)'
  BY OpensFacts DEF LaterFiles, SameFilesAt
<1>1. PICK e, k : e = f.d /\ k = f.mem.itap + 1
  OBVIOUS
<1>2. KeptTo(e, u, k) /\ e \in Dom /\ k \in Nat /\ M[e] \in Nat /\ k < M[e]
  <2>1. f \in files
    BY DEF MonFile
  <2>2. f.d \in Dom /\ f.mem.itap \in Nat
    BY <2>1 DEF TInv, FilesTyped, Clocks
  <2>3. KeptTo(f.d, u, f.mem.itap + 1)
    BY DEF LaterFiles
  <2> QED BY <1>1, <2>2, <2>3
<1>3. KeptTo(e, u, k)'
  <2>1. CASE e # d
    BY <1>2, <2>1 DEF Opens
  <2>2. CASE e = d
    <3>1. n \in Nat /\ (k < n \/ ~ TapeExists(d, n))
      BY <1>2, <2>2, OpensFacts
    <3>2. /\ \A x : \A j \in Nat : j < n /\ KeptTo(d, x, j) => KeptTo(d, x, j)'
          /\ ~ TapeExists(d, n) => \A x : \A j : KeptTo(d, x, j) => KeptTo(d, x, j)'
      BY DEF Opens
    <3> QED BY <1>2, <2>2, <3>1, <3>2
  <2> QED BY <2>1, <2>2
<1> QED BY <1>1, <1>3

\* What is to be shown of a nest whose mother has a file.
LEMMA BehindOpens ==
  ASSUME TInv, NEW L \in Nat, NEW M \in [Dom -> Nat], NewBehind(L, M), NEW d, NEW n, Opens(d, n),
         active' \subseteq active \union {d},
         \A e \in NewAt(L) : e # d /\ Mother(e) = d /\ n + 2 < M[e] =>
           \A v : TapeExists(e, v) => v <= n + 1
  PROVE  NewBehind(L, M)'
<1>1. /\ Clock' = Clock /\ opened' = opened \union {d} /\ d \in Dom
      /\ Count(d)' = n /\ n \in Nat /\ \A e \in Dom \ {d} : Count(e)' = Count(e)
      /\ NewAt(L)' = NewAt(L) /\ \A e : Mother(e)' = Mother(e) /\ ActTime(e)' = ActTime(e)
      /\ \A e, v : e # d => (TapeExists(e, v)' <=> TapeExists(e, v))
      /\ active \subseteq Dom
  BY OpensFacts DEF TInv, SetsTyped
<1> SUFFICES ASSUME NEW e \in NewAt(L), e \notin opened', ActTime(e) >= Clock,
                    Mother(e)' \in active' \cap opened', Count(Mother(e))' + 2 < M[e], NEW v, TapeExists(e, v)'
             PROVE  v <= Count(Mother(e))' + 1
  BY <1>1 DEF NewBehind
<1>2. PICK m : m = Mother(e)
  OBVIOUS
<1>3. CASE m = d
  BY <1>1, <1>2, <1>3 DEF Count
<1>4. CASE m # d
  BY <1>4, <1>2, <1>1 DEF NewBehind, Count
<1> QED BY <1>3, <1>4

LEMMA OldOpensTo ==
  ASSUME TInv, NEW L \in Nat, Held(L), NEW M \in [Dom -> Nat], Limits(L, M), HeldTo(L, M),
         NEW d, d \notin NewAt(L), NEW n, Opens(d, n), OldNumber(d, n, L), active' \subseteq active
  PROVE  HeldTo(L, M)'
<1>1. /\ d \in Dom /\ n \in Nat /\ \A e \in Dom \ {d} : Count(e)' = Count(e)
      /\ NewAt(L)' = NewAt(L) /\ active \subseteq Dom
      /\ \A e, v : e # d => (TapeExists(e, v)' <=> TapeExists(e, v))
  BY OpensFacts DEF TInv, SetsTyped
<1>2. PICK g : /\ MonFile(g, L) /\ g.d = d
               /\ \/ n = g.mem.itap + 1 /\ ~ TapeExists(d, n)
                  \/ n = g.mem.itap + 2 /\ TapeExists(d, g.mem.itap + 1)
  BY DEF OldNumber
<1>3. PICK c : c = g.mem.itap
  OBVIOUS
<1>4. c \in Nat /\ M[d] = c + 2 /\ ((n = c + 1 /\ ~ TapeExists(d, n)) \/ n = c + 2)
  <2>1. c \in Nat
    BY <1>2, <1>3 DEF MonFile, TInv, FilesTyped, Clocks
  <2> QED BY <1>2, <1>3, <2>1 DEF Limits
<1>5. NewLimited(L, M)'
  <2>1. \A e \in NewAt(L) : e # d
    OBVIOUS
  <2>2. \A e \in active' \cap NewAt(L) : Count(e)' = Count(e) /\ e \in active
    BY <1>1, <2>1
  <2> QED BY <1>1, <2>1, <2>2 DEF HeldTo, NewLimited
<1>6. NewBehind(L, M)'
  <2>1. ASSUME NEW e \in NewAt(L), Mother(e) = d, n + 2 < M[e], NEW v, TapeExists(e, v)
        PROVE  v <= n + 1
    <3>1. M[e] = M[Mother(e)] + (IF Silent(L, e) THEN 0 ELSE 2)
      BY DEF Limits
    <3>2. M[e] <= c + 4
      BY <1>4, <2>1, <3>1
    <3>3. e \in Dom /\ M[e] \in Nat
      BY RunNumbers DEF NewAt, TInv, SetsTyped
    <3>4. n = c + 1 /\ ~ TapeExists(d, c + 1)
      BY <1>4, <2>1, <3>2, <3>3
    <3>5. v <= g.mem.itap + 2 \/ TapeExists(Mother(e), g.mem.itap + 1)
      BY <1>2, <2>1 DEF Held, NewLinked
    <3>6. v <= c + 2
      BY <1>3, <2>1, <3>4, <3>5
    <3> QED BY <1>4, <3>4, <3>6
  <2>2. NewBehind(L, M) /\ active' \subseteq active \union {d}
    BY DEF HeldTo
  <2> QED BY <2>1, <2>2, BehindOpens
<1>7. LaterFiles(L, M)'
  <2>1. n >= M[d] \/ ~ TapeExists(d, n)
    BY <1>4
  <2> QED BY <2>1, LaterOpens DEF HeldTo
<1> QED BY <1>5, <1>6, <1>7 DEF HeldTo

LEMMA TapeNumber ==
  ASSUME TInv, NEW d, NEW v, TapeExists(d, v)
  PROVE  v \in Nat
  BY DEF TapeExists, TInv, TapesTyped

\* The number of a new nest's file, k being ITAPCNT of its mother m.
LEMMA NewNumber ==
  ASSUME TInv, BdyInv, RunInv, UnitsInv, OutInv, pc = "check",
         NEW L \in Nat, job.ifrest => CameAt <= L, Held(L),
         NEW M \in [Dom -> Nat], Limits(L, M), HeldTo(L, M),
         NEW d \in NewAt(L), d \notin opened, ActTime(d) = Clock,
         NEW m \in active, m = Mother(d), NEW n \in Nat, NumbersOn(d, n, Count(m))
  PROVE  /\ n <= M[d] /\ (n = M[d] => TapeExists(d, n - 1))
         /\ n < M[d] => \A v : TapeExists(d, v) => v < n
<1>1. m \in Dom /\ d \in Dom /\ d \in Nest /\ Clock \in Nat /\ L \in Nat /\ M[d] \in Nat /\ M[m] \in Nat
  BY RunNumbers, CoarseTime DEF NewAt, TInv, SetsTyped, RunInv
<1>2. PICK k : k = Count(m)
  OBVIOUS
<1>3. k \in Nat /\ NumbersOn(d, n, k)
  BY <1>1, <1>2, CountTyped2
<1>4. M[d] = M[m] + (IF Silent(L, d) THEN 0 ELSE 2)
  BY DEF Limits
<1>5. m \in NewAt(L) => ~ Silent(L, d) /\ m \in opened /\ k <= M[m]
  BY <1>2 DEF Silent, Held, NewOpened, HeldTo, NewLimited
<1>6. ASSUME m \notin NewAt(L)
      PROVE  \E c \in Nat : M[m] = c + 2 /\ SinceFile(m, c, L)
  <2>1. PICK f : MonFile(f, L) /\ f.d = m /\ SinceFile(m, f.mem.itap, L)
    BY <1>6 DEF Held, OldCounts
  <2>2. f.mem.itap \in Nat
    BY <2>1 DEF MonFile, TInv, FilesTyped, Clocks
  <2>3. M[m] = f.mem.itap + 2
    BY <2>1 DEF Limits
  <2> QED BY <2>1, <2>2, <2>3
<1>7. ASSUME NEW t \in Nat, L < t, t <= Clock, GivesOutput(m, t)
      PROVE  ~ Silent(L, d)
  BY <1>7 DEF Silent
<1>8. k + 2 <= M[d]
  <2>1. CASE m \in NewAt(L)
    BY <1>1, <1>3, <1>4, <1>5, <2>1
  <2>2. CASE m \notin NewAt(L)
    <3>1. PICK c \in Nat : M[m] = c + 2 /\ SinceFile(m, c, L)
      BY <1>6, <2>2
    <3>2. CASE k = c
      BY <1>1, <1>4, <3>1, <3>2
    <3>3. CASE k # c
      <4>1. k \in {c + 1, c + 2} /\ \E t \in Nat : L < t /\ t <= Clock /\ GivesOutput(m, t)
        BY <1>2, <3>1, <3>3 DEF SinceFile
      <4>2. ~ Silent(L, d)
        BY <1>7, <4>1
      <4> QED BY <1>1, <1>4, <3>1, <4>1, <4>2
    <3> QED BY <3>2, <3>3
  <2> QED BY <2>1, <2>2
<1>9. CASE ~ job.ifrest
  <2>1. n = k
    BY <1>3, <1>9 DEF NumbersOn
  <2>2. \A v : ~ TapeExists(d, v)
    BY <1>9 DEF Held, NewNone
  <2> QED BY <1>1, <1>3, <1>8, <2>1, <2>2
<1>10. CASE job.ifrest
  <2>1. (n = k + 1 /\ ~ TapeExists(d, n)) \/ (n = k + 2 /\ TapeExists(d, k + 1))
    BY <1>3, <1>10 DEF NumbersOn
  <2>2. n <= M[d] /\ (n = M[d] => TapeExists(d, n - 1))
    <3>1. n <= M[d] /\ (n = M[d] => n = k + 2 /\ TapeExists(d, k + 1) /\ n - 1 = k + 1)
      BY <1>1, <1>3, <1>8, <2>1
    <3> QED BY <3>1
  <2>3. ASSUME n < M[d], NEW v, TapeExists(d, v)
        PROVE  v < n
    <3>1. v \in Nat
      BY <2>3, TapeNumber
    <3>2. CASE k + 2 = M[d]
      <4>1. n = k + 1 /\ ~ TapeExists(d, k + 1)
        BY <1>1, <1>3, <2>1, <2>3, <3>2
      <4>2. v <= M[d] /\ (v = M[d] => TapeExists(d, v - 1))
        BY <2>3 DEF HeldTo, NewLimited
      <4>3. v # k + 1
        BY <2>3, <4>1
      <4>4. v # k + 2
        <5>1. v = k + 2 => v - 1 = k + 1 /\ v = M[d]
          BY <1>3, <3>2
        <5> QED BY <4>1, <4>2, <5>1
      <4> QED BY <1>1, <1>3, <3>1, <3>2, <4>1, <4>2, <4>3, <4>4
    <3>3. CASE k + 2 # M[d]
      <4>1. m \in opened
        <5> SUFFICES ASSUME m \notin opened
                     PROVE  FALSE
          OBVIOUS
        <5>1. PICK c \in Nat : M[m] = c + 2 /\ SinceFile(m, c, L)
          BY <1>5, <1>6
        <5>2. k = c
          BY <1>2, <5>1 DEF SinceFile
        <5>3. ~ Silent(L, d) /\ m \notin NewAt(L)
          BY <1>1, <1>4, <1>5, <3>3, <5>1, <5>2
        <5>4. PICK t \in Nat : L < t /\ t <= ActTime(d) /\ GivesOutput(m, t)
          BY <5>3 DEF Silent
        <5>5. OfRun(t) /\ Past(m, t)
          <6>1. CameAt \in Nat
            BY RunLater
          <6> QED BY <1>1, <1>10, <5>4, <6>1 DEF OfRun, Past, CameAt
        <5>6. Written(m, t)
          BY <1>1, <5>4, <5>5 DEF OutInv, PastWritten
        <5> QED BY <5>6 DEF Written
      <4>2. Mother(d) \in active \cap opened /\ Count(Mother(d)) = k /\ ActTime(d) >= Clock
        BY <1>1, <1>2, <4>1
      <4>3. k + 2 < M[d]
        BY <1>1, <1>3, <1>8, <3>3
      <4>4. v <= k + 1
        BY <2>3, <4>2, <4>3 DEF HeldTo, NewBehind
      <4>5. n = k + 1 => v # k + 1
        BY <1>3, <2>1, <2>3
      <4> QED BY <1>3, <2>1, <3>1, <4>4, <4>5
    <3> QED BY <3>2, <3>3
  <2> QED BY <2>2, <2>3
<1> QED BY <1>9, <1>10

LEMMA NewLink ==
  ASSUME TInv, UnitsInv, SavInv, NEW L \in Nat, Held(L), NEW d, NEW m \in active,
         NEW n \in Nat, NumbersOn(d, n, Count(m))
  PROVE  /\ m \in NewAt(L) => \E w : TapeExists(m, w) /\ n <= w + 2
         /\ m \notin NewAt(L) => \A f : MonFile(f, L) /\ f.d = m =>
                                   n <= f.mem.itap + 2 \/ TapeExists(m, f.mem.itap + 1)
<1>1. PICK k : k = Count(m)
  OBVIOUS
<1>2. n <= k + 2
  BY <1>1, CountTyped2 DEF NumbersOn, TInv, SetsTyped
<1>3. ASSUME m \in NewAt(L)
      PROVE  \E w : TapeExists(m, w) /\ n <= w + 2
  <2>1. m \in opened
    BY <1>3 DEF Held, NewOpened
  <2>2. TapeExists(m, k)
    BY <1>1, <2>1 DEF UnitsInv
  <2> QED BY <1>2, <2>2
<1>4. ASSUME m \notin NewAt(L), NEW f, MonFile(f, L), f.d = m
      PROVE  n <= f.mem.itap + 2 \/ TapeExists(m, f.mem.itap + 1)
  <2>1. PICK g : MonFile(g, L) /\ g.d = m /\ SinceFile(m, g.mem.itap, L)
    BY <1>4 DEF Held, OldCounts
  <2>2. f = g
    BY <1>4, <2>1, OneFile DEF MonFile
  <2>3. PICK c : c = g.mem.itap
    OBVIOUS
  <2> QED BY <1>2, <2>2, <2>3, <1>1, <2>1 DEF SinceFile
<1> QED BY <1>3, <1>4

LEMMA NewOpens ==
  ASSUME TInv, NEW L \in Nat, SavesAt(nml, L), Held(L), NEW d \in NewAt(L), NEW m, m = Mother(d),
         NEW n, Opens(d, n), active' = active \union {d},
         m \in NewAt(L) => \E w : TapeExists(m, w) /\ n <= w + 2,
         m \notin NewAt(L) => \A f : MonFile(f, L) /\ f.d = m =>
                                n <= f.mem.itap + 2 \/ TapeExists(m, f.mem.itap + 1)
  PROVE  Held(L)'
<1>1. /\ nml' = nml /\ job' = job /\ pc # "down" /\ Clock' = Clock /\ Clock \in Nat
      /\ SameFilesAt(L) /\ opened' = opened \union {d} /\ d \in Dom
      /\ Count(d)' = n /\ n \in Nat /\ \A e \in Dom \ {d} : Count(e)' = Count(e)
      /\ NewAt(L)' = NewAt(L) /\ \A e : Mother(e)' = Mother(e)
      /\ \A e, t : GivesOutput(e, t)' <=> GivesOutput(e, t)
      /\ \A e, v : TapeExists(e, v) => TapeExists(e, v)'
      /\ \A e, v : e # d => (TapeExists(e, v)' <=> TapeExists(e, v))
      /\ \A v : TapeExists(d, v)' <=> TapeExists(d, v) \/ v = n
      /\ active \subseteq Dom /\ nml \in Namelists
  BY OpensFacts DEF TInv, SetsTyped
<1>2. d \in Nest /\ ActTime(d) \in Nat /\ ActTime(d) >= L
  BY <1>1, NestTimes DEF NewAt
<1>3. \A f : MonFile(f, L) => f.d # d
  BY <1>2 DEF MonFile, FileOf
<1>4. FilesLast(L)'
  <2> SUFFICES ASSUME NEW f, MonFile(f, L)
               PROVE  KeptTo(f.d, L, f.mem.itap + 1)'
    BY <1>1 DEF FilesLast, SameFilesAt
  <2>1. PICK e, k : e = f.d /\ k = f.mem.itap + 1
    OBVIOUS
  <2>2. KeptTo(e, L, k) /\ e # d
    BY <1>3, <2>1 DEF Held, FilesLast
  <2>3. KeptTo(e, L, k)'
    BY <2>2 DEF Opens
  <2> QED BY <2>1, <2>3
<1>5. AnyKept(L)'
  <2>1. \A e \in Dom : e # d => KeptAny(e, L)'
    BY DEF Held, AnyKept, Opens
  <2>2. ASSUME NEW t \in Nat, Owed(d, t), t <= L
        PROVE  FALSE
    <3>1. ActTime(d) <= t
      BY <1>1, <2>2, OutputStep DEF Owed
    <3>2. t = L
      BY <1>2, <2>2, <3>1
    <3> QED BY <2>2, <3>2 DEF Owed
  <2>3. \A t : Owed(d, t)' <=> Owed(d, t)
    BY <1>1, OwedSame
  <2>4. KeptAny(d, L)'
    BY <2>2, <2>3 DEF KeptAny
  <2> QED BY <2>1, <2>4 DEF AnyKept
<1>6. OldCounts(L)'
  <2> SUFFICES ASSUME NEW e \in active', e \notin NewAt(L)
               PROVE  \E f : MonFile(f, L)' /\ f.d = e /\ SinceFile(e, f.mem.itap, L)'
    BY <1>1 DEF OldCounts
  <2>1. e # d /\ e \in active /\ e \in Dom
    BY <1>1
  <2>2. PICK f : MonFile(f, L) /\ f.d = e /\ SinceFile(e, f.mem.itap, L)
    BY <2>1 DEF Held, OldCounts
  <2>3. PICK k : k = f.mem.itap
    OBVIOUS
  <2>4. SinceFile(e, k, L)
    BY <2>2, <2>3
  <2>5. Count(e)' = Count(e) /\ (e \in opened' <=> e \in opened)
    BY <1>1, <2>1
  <2>6. SinceFile(e, k, L)'
    BY <1>1, <2>1, <2>4, <2>5 DEF SinceFile
  <2> QED BY <1>1, <2>2, <2>3, <2>6 DEF SameFilesAt
<1>7. NewOpened(L)' /\ NewNone(L)'
  BY <1>1 DEF Held, NewOpened, NewNone
<1>8. NewLinked(L)'
  <2> SUFFICES ASSUME NEW e \in NewAt(L), NEW v, TapeExists(e, v)'
               PROVE  /\ Mother(e)' \in NewAt(L) => (\E w : TapeExists(Mother(e), w) /\ v <= w + 2)'
                      /\ Mother(e)' \notin NewAt(L) =>
                           \A f : MonFile(f, L) /\ f.d = Mother(e)' =>
                             v <= f.mem.itap + 2 \/ TapeExists(Mother(e), f.mem.itap + 1)'
    BY <1>1 DEF NewLinked, SameFilesAt
  <2>1. PICK x : x = Mother(e)
    OBVIOUS
  <2>2. x = Mother(e)'
    BY <1>1, <2>1
  <2>3. /\ x \in NewAt(L) => \E w : TapeExists(x, w) /\ v <= w + 2
        /\ x \notin NewAt(L) =>
             \A f : MonFile(f, L) /\ f.d = x => v <= f.mem.itap + 2 \/ TapeExists(x, f.mem.itap + 1)
    <3>1. CASE TapeExists(e, v)
      BY <2>1, <3>1 DEF Held, NewLinked
    <3>2. CASE ~ TapeExists(e, v)
      <4>1. e = d /\ v = n
        BY <1>1, <3>2
      <4> QED BY <2>1, <4>1
    <3> QED BY <3>1, <3>2
  <2>4. /\ x \in NewAt(L) => \E w : TapeExists(x, w)' /\ v <= w + 2
        /\ x \notin NewAt(L) =>
             \A f : MonFile(f, L) /\ f.d = x => v <= f.mem.itap + 2 \/ TapeExists(x, f.mem.itap + 1)'
    BY <1>1, <2>3
  <2> QED BY <2>2, <2>4 DEF TapeExists
<1> QED BY <1>4, <1>5, <1>6, <1>7, <1>8 DEF Held

LEMMA NewOpensTo ==
  ASSUME TInv, NEW L \in Nat, Held(L), NEW M \in [Dom -> Nat], Limits(L, M), HeldTo(L, M),
         NEW d \in NewAt(L), NEW n, Opens(d, n), active' = active \union {d},
         n <= M[d], n = M[d] => TapeExists(d, n - 1),
         n < M[d] => \A v : TapeExists(d, v) => v < n
  PROVE  HeldTo(L, M)'
<1>1. /\ d \in Dom /\ n \in Nat /\ Count(d)' = n /\ \A e \in Dom \ {d} : Count(e)' = Count(e)
      /\ NewAt(L)' = NewAt(L) /\ active \subseteq Dom /\ M[d] \in Nat
      /\ \A e, v : e # d => (TapeExists(e, v)' <=> TapeExists(e, v))
      /\ \A e, v : TapeExists(e, v) => TapeExists(e, v)'
      /\ \A v : TapeExists(d, v)' <=> TapeExists(d, v) \/ v = n
  BY OpensFacts DEF TInv, SetsTyped
<1>2. NewLimited(L, M)'
  <2>1. ASSUME NEW e \in NewAt(L), NEW v, TapeExists(e, v)'
        PROVE  v <= M[e] /\ (v = M[e] => TapeExists(e, v - 1)')
    <3>1. CASE TapeExists(e, v)
      BY <1>1, <3>1 DEF HeldTo, NewLimited
    <3>2. CASE ~ TapeExists(e, v)
      BY <2>1, <3>2, <1>1
    <3> QED BY <3>1, <3>2
  <2>2. ASSUME NEW e \in active', e \in NewAt(L)
        PROVE  Count(e)' <= M[e]
    <3>1. CASE e = d
      BY <1>1, <3>1
    <3>2. CASE e # d
      BY <1>1, <2>2, <3>2 DEF HeldTo, NewLimited
    <3> QED BY <3>1, <3>2
  <2> QED BY <1>1, <2>1, <2>2 DEF NewLimited
<1>3. NewBehind(L, M)'
  <2>1. ASSUME NEW e \in NewAt(L), e # d, Mother(e) = d, n + 2 < M[e], NEW v, TapeExists(e, v)
        PROVE  v <= n + 1
    <3>1. n < M[d]
      BY <1>1, <2>1 DEF Limits, Silent
    <3>2. PICK w : TapeExists(d, w) /\ v <= w + 2
      BY <2>1 DEF Held, NewLinked
    <3>3. w < n
      BY <3>1, <3>2
    <3> QED BY <1>1, <3>2, <2>1, TapeNumber, <3>3
  <2> QED BY <2>1, BehindOpens DEF HeldTo
<1> QED BY <1>2, <1>3, <1>1, LaterOpens DEF HeldTo

\* At a time of restart files everything is kept that was due before it.
LEMMA KeptBySaves ==
  ASSUME TInv, BdyInv, RunInv, OutInv, OldKept, pc # "down", lost = 0, SavesAt(nml, Clock),
         NEW d \in Lasting
  PROVE  KeptAny(d, Clock) /\ (d \in active => \A k \in Nat : NextCount(d) <= k => KeptTo(d, Clock, k))
<1>1. Clock \in Nat /\ d \in Dom
  BY CoarseTime, RunNumbers DEF RunInv, Lasting, TInv, SetsTyped
<1>2. ASSUME NEW t \in Nat, Owed(d, t), t <= Clock
      PROVE  Kept(d, t) /\ (d \in active => \A k \in Nat : NextCount(d) <= k => InTapes(d, t, k))
  <2>1. Past(d, t)
    BY <1>1, <1>2 DEF Owed, Past
  <2>2. Kept(d, t) /\ (d \in active => InTapes(d, t, NextCount(d)))
    BY <1>2, <2>1, KeptNow
  <2>3. NextCount(d) \in Nat /\ TapesTyped
    BY <1>1, CountTyped2 DEF TInv
  <2> QED BY <2>2, <2>3, KeptMore
<1> QED BY <1>2 DEF KeptAny, KeptTo

\* So a restart file that the monitor has just written can be gone on from.
LEMMA NewFileKept ==
  ASSUME TInv, BdyInv, RunInv, SavInv, OutInv, OldKept, lost = 0, ~ nml.svlast, [Next]_vars,
         pc # "down", nml' = nml
  PROVE  \A u \in Nat : \A f : MonFile(f, u)' => MonFile(f, u) \/ KeptTo(f.d, u, f.mem.itap + 1)
<1> SUFFICES ASSUME NEW u \in Nat, NEW f, MonFile(f, u)', ~ MonFile(f, u)
             PROVE  KeptTo(f.d, u, f.mem.itap + 1)
  OBVIOUS
<1>1. SavesAt(nml, Clock) /\ FileOf(f, Clock) /\ f.d \in active /\ f.mem = mem[Monitor][f.d]
  BY FileOfKept, FilesStep DEF MonFile
<1>2. u = Clock
  BY FileOfKept, <1>1 DEF FileOf, MonFile
<1>3. PICK d : d = f.d
  OBVIOUS
<1>4. d \in active /\ d \in Dom /\ d \in Lasting /\ Count(d) = f.mem.itap
  BY <1>1, <1>3 DEF TInv, SetsTyped, Lasting, Count
<1> QED BY <1>2, <1>3, <1>4, <1>1, CountTyped2, KeptBySaves DEF NextCount

\* A run goes on from a time that one can go on from, and has passed it.
Backed == pc # "down" /\ job.ifrest /\ ~ nml.svlast => Can(CameAt) /\ Behind(CameAt)

LEMMA BackedNext ==
  ASSUME TInv, BdyInv, RunInv, SavInv, UnitsInv, StoreInv, TInv', BdyInv', Backed, [Next]_vars
  PROVE  Backed'
<1>1. CASE pc # "down" /\ pc' # "down"
  <2> SUFFICES ASSUME job.ifrest, ~ nml.svlast
               PROVE  Can(CameAt)' /\ Behind(CameAt)'
    BY <1>1, StepMoves DEF Backed
  <2>1. nml' = nml /\ job' = job
    BY <1>1, StepMoves
  <2>2. PICK c : c = CameAt
    OBVIOUS
  <2>3. c = CameAt'
    BY <2>1, <2>2, NamelistKept DEF CameAt
  <2>4. Can(c) /\ Behind(c)
    BY <1>1, <2>2 DEF Backed
  <2>5. Can(c)'
    BY <2>1, <2>4, CoarseTime, OtherFiles, CanKept DEF Behind, AtStep, RunInv
  <2>6. Behind(c)'
    BY <1>1, <2>4, BehindMoves DEF Can
  <2>7. Behind(CameAt)'
    BY <2>3, <2>6 DEF Behind
  <2>8. Can(CameAt)'
    BY <2>3, <2>5 DEF Can
  <2> QED BY <2>7, <2>8
<1>2. CASE Start
  <2>1. job'.ifrest = FALSE
    <3>1. PICK t : job' = [Dead EXCEPT !.timax = t]
      BY <1>2 DEF Start
    <3> QED BY <3>1 DEF Dead
  <2> QED BY <2>1 DEF Backed
<1>3. ASSUME NEW ixtimr \in Saved, NEW given \in Givens,
             \A later \in Saved : later > ixtimr => ~ CanRestart(later), Restart(ixtimr, given)
      PROVE  Backed'
  <2>1. PICK t \in Nat : ResumedAt(t)
    BY <1>3, RestartAt
  <2>2. Can(t)'
    BY <2>1, CanKept DEF ResumedAt
  <2> QED BY <2>1, <2>2 DEF Backed, Behind, Can, ResumedAt
<1>4. CASE pc # "down" /\ GoDown
  BY <1>4 DEF GoDown, Backed
<1>5. CASE pc = "down" /\ UNCHANGED vars
  BY <1>5 DEF vars, running, Backed
<1> QED BY <1>1, <1>2, <1>3, <1>4, <1>5, StepPhases

\* A run passes such a time, and what it has is what the restart files have.
LEMMA KeepPasses ==
  ASSUME TInv, BdyInv, RunInv, SavInv, UnitsInv, OutInv, StoreInv, OldKept, Passing,
         lost = 0, ~ nml.svlast, NextStep, pc' # "down", NEW L \in Nat, L = Clock, Can(L)
  PROVE  Held(L)' /\ \A M \in [Dom -> Nat] : HeldTo(L, M)'
<1>1. /\ UNCHANGED <<nml, files, tapes, job, mem, active, opened>> /\ pc = "output"
      /\ \A p \in Proc : saving[p] = {}
      /\ active \subseteq Dom /\ Monitor \in Proc /\ nml \in Namelists /\ pc # "down"
  BY RunNumbers DEF NextStep, GoDown, TInv, SetsTyped
<1>2. SavesAt(nml, L) /\ ~ Reached(L) /\ ~ Behind(L)
  <2>1. ~ Behind(L)
    BY <1>1, CoarseTime DEF Behind, AtStep, RunInv
  <2>2. Usable(L)
    BY CanUsable DEF StoreInv
  <2> QED BY <1>1, <2>1, <2>2 DEF Passing, Can
<1>3. \A f : MonFile(f, L)' <=> MonFile(f, L)
  BY <1>1, FileOfKept DEF MonFile
<1>4. NewAt(L)' = NewAt(L) /\ \A d : Mother(d)' = Mother(d)
  BY <1>1, <1>3, LimitsSame, NamelistKept DEF SameFilesAt
<1>5. \A d \in active : \E f : MonFile(f, L) /\ f.d = d /\ f.mem.itap = Count(d)
  <2> SUFFICES ASSUME NEW d \in active
               PROVE  \E f : MonFile(f, L) /\ f.d = d /\ f.mem.itap = Count(d)
    OBVIOUS
  <2>1. SavedOf(Monitor, d)
    BY <1>1, <1>2 DEF StoreInv, SavedSoFar
  <2>2. PICK f \in files : f.p = Monitor /\ f.d = d /\ f.name = SaveName /\ f.whole /\ f.mem = mem[Monitor][d]
    BY <2>1 DEF SavedOf
  <2>3. FileOf(f, L)
    BY <1>1, <1>2, <2>2, SavedNow
  <2> QED BY <2>2, <2>3 DEF MonFile, Count
<1>6. \A f : MonFile(f, L) => f.d \in active /\ f.mem.itap = Count(f.d)
  <2> SUFFICES ASSUME NEW f, MonFile(f, L)
               PROVE  f.d \in active /\ f.mem.itap = Count(f.d)
    OBVIOUS
  <2>1. f \in files /\ f.p = Monitor /\ f.whole /\ FileOf(f, L) /\ f.d \in Dom
    BY DEF MonFile, TInv, FilesTyped
  <2>2. HasFile(f.d, L)
    <3>1. f.d = 1 \/ f.d \in Nest
      BY <1>1, <2>1, RunNumbers
    <3> QED BY <2>1, <3>1 DEF FileOf, HasFile
  <2>3. f.d \in active
    BY <1>1, <1>2, <2>1, <2>2, AllSaved
  <2>4. PICK g : MonFile(g, L) /\ g.d = f.d /\ g.mem.itap = Count(f.d)
    BY <1>5, <2>3
  <2>5. g = f
    <3>1. g \in files /\ g.p = Monitor /\ FileOf(g, L)
      BY <2>4 DEF MonFile
    <3> QED BY <2>1, <2>4, <3>1, OneFile
  <2> QED BY <2>3, <2>4, <2>5
<1>7. \A d \in active : d \notin NewAt(L)
  <2> SUFFICES ASSUME NEW d \in active, d \in NewAt(L)
               PROVE  FALSE
    OBVIOUS
  <2>1. ActTime(d) < L
    BY <1>1, NotYetBegun
  <2>2. ActTime(d) >= L /\ ActTime(d) \in Nat
    BY <1>1, NestTimes DEF NewAt
  <2> QED BY <2>1, <2>2
<1>8. \A d \in NewAt(L) : \A v : ~ TapeExists(d, v)
  <2> SUFFICES ASSUME NEW d \in NewAt(L), NEW v, TapeExists(d, v)
               PROVE  FALSE
    OBVIOUS
  <2>1. PICK r \in tapes : r[1] = d /\ r[2] = v
    BY DEF TapeExists
  <2>2. r[1] # 1 /\ ActTime(r[1]) >= L
    BY <1>1, <2>1, RunNumbers DEF NewAt
  <2> QED BY <1>2, <2>2 DEF Reached
<1>9. FilesLast(L)' /\ AnyKept(L)'
  <2>1. FilesLast(L)
    <3> SUFFICES ASSUME NEW f, MonFile(f, L)
                 PROVE  KeptTo(f.d, L, f.mem.itap + 1)
      BY DEF FilesLast
    <3>1. PICK d : d = f.d
      OBVIOUS
    <3>2. d \in active /\ d \in Lasting /\ f.mem.itap = Count(d)
      BY <1>1, <1>6, <3>1 DEF Lasting
    <3>3. Count(d) + 1 \in Nat /\ NextCount(d) <= Count(d) + 1
      BY <1>1, <3>2, CountTyped2 DEF NextCount
    <3>4. KeptTo(d, L, Count(d) + 1)
      BY <1>1, <1>2, <3>2, <3>3, KeptBySaves
    <3> QED BY <3>1, <3>2, <3>4
  <2>2. AnyKept(L)
    BY <1>1, <1>2, KeptBySaves DEF AnyKept, Lasting
  <2> QED BY <1>1, <1>3, <2>1, <2>2, KeptSame DEF FilesLast, AnyKept
<1>10. OldCounts(L)'
  <2> SUFFICES ASSUME NEW d \in active
               PROVE  \E f : MonFile(f, L)' /\ f.d = d /\ SinceFile(d, f.mem.itap, L)'
    BY <1>1 DEF OldCounts
  <2>1. PICK f : MonFile(f, L) /\ f.d = d /\ f.mem.itap = Count(d)
    BY <1>5
  <2>2. d \notin opened => job.ifrest
    BY <1>1 DEF UnitsInv
  <2>3. Count(d)' = Count(d)
    BY <1>1 DEF Count
  <2>4. PICK k : k = Count(d)
    OBVIOUS
  <2>5. SinceFile(d, k, L)'
    BY <1>1, <2>2, <2>3, <2>4 DEF SinceFile
  <2> QED BY <1>3, <2>1, <2>4, <2>5
<1>11. \A d, v : TapeExists(d, v)' <=> TapeExists(d, v)
  BY <1>1 DEF TapeExists
<1>12. NewOpened(L)' /\ NewNone(L)' /\ NewLinked(L)'
  BY <1>1, <1>4, <1>7, <1>8, <1>11 DEF NewOpened, NewNone, NewLinked
<1>13. ASSUME NEW M \in [Dom -> Nat]
       PROVE  HeldTo(L, M)'
  <2>1. NewLimited(L, M)' /\ NewBehind(L, M)'
    BY <1>1, <1>4, <1>7, <1>8, <1>11 DEF NewLimited, NewBehind
  <2>2. LaterFiles(L, M)'
    <3> SUFFICES ASSUME NEW u \in Nat, u > L, NEW f, MonFile(f, u)'
                 PROVE  FALSE
      BY DEF LaterFiles
    <3>1. f \in files /\ f.whole /\ FileOf(f, u)
      BY <1>1, FileOfKept DEF MonFile
    <3> QED BY <1>2, <3>1 DEF Reached
  <2> QED BY <2>1, <2>2 DEF HeldTo
<1> QED BY <1>9, <1>10, <1>12, <1>13 DEF Held

LEMMA KeepRunning ==
  ASSUME TInv, BdyInv, RunInv, SavInv, UnitsInv, OutInv, StoreInv, OldKept, Passing, Backed,
         TInv', BdyInv', [Next]_vars, pc # "down", pc' # "down", KeepInv
  PROVE  KeepInv'
<1>1. nml' = nml /\ job' = job /\ Clock \in Nat /\ active \subseteq Dom /\ Clock' \in Nat
  BY StepMoves DEF TInv, SetsTyped
<1> SUFFICES ASSUME lost' = 0, ~ nml.svlast, NEW L \in Nat, Base(L)'
             PROVE  Held(L)' /\ \A M \in [Dom -> Nat] : Limits(L, M)' => HeldTo(L, M)'
  BY <1>1 DEF KeepInv
<1>2. lost = 0
  BY LostGrows
<1>3. CASE Behind(L)
  <2>1. Base(L) /\ SameFilesAt(L)
    BY <1>1, <1>3, SameBase
  <2>2. Held(L) /\ \A M \in [Dom -> Nat] : Limits(L, M) => HeldTo(L, M)
    BY <1>2, <2>1 DEF KeepInv
  <2>3. \A M : Limits(L, M)' <=> Limits(L, M)
    BY <1>1, <2>1, LimitsSame
  <2>4. SavesAt(nml, L) /\ (job.ifrest => CameAt <= L)
    <3>1. CameAt \in Nat
      BY RunLater
    <3> QED BY <2>1, <3>1 DEF Base, Can, Backed, Passed
  <2>5. CASE Calm
    <3>1. Held(L)'
      BY <2>1, <2>2, <2>5, KeepCalm
    <3>2. \A u \in Nat : \A f : MonFile(f, u)' => MonFile(f, u) \/ KeptTo(f.d, u, f.mem.itap + 1)
      BY <1>1, <1>2, NewFileKept
    <3>3. \A M \in [Dom -> Nat] : HeldTo(L, M) => HeldTo(L, M)'
      BY <2>1, <2>5, <3>2, KeepCalmTo
    <3> QED BY <2>2, <2>3, <3>1, <3>3
  <2>6. ASSUME NEW d \in Dom \ opened, Writes(d)
        PROVE  Held(L)' /\ \A M \in [Dom -> Nat] : Limits(L, M)' => HeldTo(L, M)'
    <3>1. PICK n : Opens(d, n) /\ NumbersOn(d, n, Count(d)) /\ active' \subseteq active
      BY <2>6, WritesOpens
    <3>2. d \in active
      BY <2>6 DEF Writes
    <3>3. d \in active' => L < Clock /\ GivesOutput(d, Clock)
      <4>1. d \in active' => pc = "output" /\ d \in outs
        BY <2>6 DEF Writes
      <4>2. pc = "output" => L < Clock
        BY <1>3 DEF Behind, AtStep
      <4> QED BY <4>1, <4>2 DEF StoreInv, OutputClock
    <3>4. Held(L)' /\ d \notin NewAt(L) /\ OldNumber(d, n, L)
      BY <2>2, <2>6, <3>1, <3>2, <3>3, OldOpens
    <3>5. \A M \in [Dom -> Nat] : Limits(L, M) /\ HeldTo(L, M) => HeldTo(L, M)'
      BY <2>2, <3>1, <3>4, OldOpensTo
    <3> QED BY <2>2, <2>3, <3>4, <3>5
  <2>7. ASSUME NEW d \in Nest, Activates(d)
        PROVE  Held(L)' /\ \A M \in [Dom -> Nat] : Limits(L, M)' => HeldTo(L, M)'
    <3>1. PICK m : m = Mother(d)
      OBVIOUS
    <3>2. PICK n : Opens(d, n) /\ NumbersOn(d, n, Count(m)) /\ active' = active \union {d} /\ m \in active \cap Dom
      BY <2>7, <3>1, ActivatesOpens
    <3>3. d \in NewAt(L) /\ d \notin opened /\ ActTime(d) = Clock /\ pc = "check" /\ n \in Nat
      <4>1. ActTime(d) = Clock /\ pc = "check"
        BY <2>7 DEF Activates
      <4>2. L <= Clock
        BY <1>1, <1>3 DEF Behind
      <4>3. d \notin opened /\ n \in Nat
        BY <3>2 DEF Opens
      <4> QED BY <1>1, <4>1, <4>2, <4>3 DEF NewAt
    <3>4. /\ m \in NewAt(L) => \E w : TapeExists(m, w) /\ n <= w + 2
          /\ m \notin NewAt(L) => \A f : MonFile(f, L) /\ f.d = m =>
                                     n <= f.mem.itap + 2 \/ TapeExists(m, f.mem.itap + 1)
      BY <2>2, <3>2, <3>3, NewLink
    <3>5. Held(L)'
      BY <2>2, <2>4, <3>1, <3>2, <3>3, <3>4, NewOpens
    <3>6. ASSUME NEW M \in [Dom -> Nat], Limits(L, M)
          PROVE  HeldTo(L, M)'
      <4>1. HeldTo(L, M)
        BY <2>2, <3>6
      <4>2. /\ n <= M[d] /\ (n = M[d] => TapeExists(d, n - 1))
            /\ n < M[d] => \A v : TapeExists(d, v) => v < n
        BY <2>2, <2>4, <3>1, <3>2, <3>3, <3>6, <4>1, NewNumber
      <4> QED BY <2>2, <3>2, <3>3, <3>6, <4>1, <4>2, NewOpensTo
    <3> QED BY <2>3, <3>5, <3>6
  <2>8. Quiet \/ (\E d \in Dom : Writes(d)) \/ (\E d \in Nest : Activates(d))
    BY StepKinds
  <2>9. CASE Quiet
    BY <2>5, <2>9, QuietCalm
  <2>10. ASSUME NEW d \in Dom, Writes(d)
         PROVE  Held(L)' /\ \A M \in [Dom -> Nat] : Limits(L, M)' => HeldTo(L, M)'
    <3>1. CASE d \in opened
      BY <2>5, <2>10, <3>1, WritesCalm
    <3>2. CASE d \notin opened
      BY <2>6, <2>10, <3>2
    <3> QED BY <3>1, <3>2
  <2> QED BY <2>7, <2>8, <2>9, <2>10
<1>4. CASE ~ Behind(L)
  <2>1. Can(L)' /\ Passed(L)'
    BY DEF Base
  <2>2. SavesAt(nml, L)
    BY <1>1, <2>1 DEF Can
  <2>3. Behind(L)'
    BY <2>1 DEF Passed
  <2>4. NextStep /\ L = Clock
    BY <1>4, <2>2, <2>3, BehindMoves
  <2>5. files' = files
    BY <2>4 DEF NextStep
  <2>6. Can(L)
    BY <1>1, <2>1, <2>5, CanWas
  <2> QED BY <1>2, <2>4, <2>6, KeepPasses
<1> QED BY <1>3, <1>4

LEMMA KeepRestart ==
  ASSUME TInv, KeepInv, NEW t0 \in Nat, ResumedAt(t0)
  PROVE  KeepInv'
<1>1. /\ pc = "down" /\ pc' # "down" /\ UNCHANGED <<nml, files, tapes, lost>> /\ Clock' = t0 /\ AtStep'
      /\ Can(t0) /\ (\A u : Can(u) => u <= t0) /\ job'.ifrest /\ opened = {} /\ opened' = {}
      /\ active' \subseteq Dom
      /\ \A d \in active' : \E f : FileAt(f, Monitor, d, t0) /\ Count(d)' = f.mem.itap
      /\ nml \in Namelists
  BY DEF ResumedAt, TInv, SetsTyped
<1> SUFFICES ASSUME lost = 0, ~ nml.svlast, NEW L \in Nat, Base(L)'
             PROVE  Held(L)' /\ \A M \in [Dom -> Nat] : Limits(L, M)' => HeldTo(L, M)'
  BY <1>1 DEF KeepInv
<1>2. \A t : Can(t)' <=> Can(t)
  BY <1>1, CanKept, CanWas
<1>3. L = t0
  <2>1. Behind(t0)'
    BY <1>1 DEF Behind
  <2>2. Can(t0)'
    BY <1>1, <1>2
  <2>3. Can(L)'
    BY DEF Base
  <2>4. Can(L)
    BY <1>2, <2>3
  <2>5. L <= t0 /\ t0 <= L
    BY <1>1, <2>1, <2>2, <2>4 DEF Base, Passed
  <2> QED BY <2>5
<1>4. Base(L)
  BY <1>1, <1>3 DEF Base, Passed
<1>5. SameFilesAt(L) /\ \A u : SameFilesAt(u)
  BY <1>1, FileOfKept DEF SameFilesAt, MonFile
<1>6. /\ NewAt(L)' = NewAt(L) /\ \A M : Limits(L, M)' <=> Limits(L, M)
      /\ \A d : Mother(d)' = Mother(d)
  BY <1>1, <1>5, LimitsSame, NamelistKept
<1>7. /\ \A d, u, n : KeptTo(d, u, n)' <=> KeptTo(d, u, n)
      /\ \A d, u : KeptAny(d, u)' <=> KeptAny(d, u)
      /\ \A d, v : TapeExists(d, v)' <=> TapeExists(d, v)
  BY <1>1, KeptSame
<1>8. Held(L) /\ \A M \in [Dom -> Nat] : Limits(L, M) => HeldTo(L, M)
  BY <1>4 DEF KeepInv
<1>9. \A d \in active' : d \notin NewAt(L)
  <2> SUFFICES ASSUME NEW d \in active', d \in NewAt(L)
               PROVE  FALSE
    OBVIOUS
  <2>1. PICK f : FileAt(f, Monitor, d, t0)
    BY <1>1
  <2>2. ActTime(d) < L /\ d \in Nest
    BY <1>3, <2>1 DEF FileAt, FileOf, NewAt
  <2>3. ActTime(d) >= L /\ ActTime(d) \in Nat
    BY <1>1, <2>2, NestTimes DEF NewAt
  <2> QED BY <2>2, <2>3
<1>10. FilesLast(L)' /\ AnyKept(L)'
  BY <1>5, <1>7, <1>8 DEF Held, FilesLast, AnyKept, SameFilesAt
<1>11. OldCounts(L)'
  <2> SUFFICES ASSUME NEW d \in active'
               PROVE  \E f : MonFile(f, L)' /\ f.d = d /\ SinceFile(d, f.mem.itap, L)'
    BY DEF OldCounts
  <2>1. PICK f : FileAt(f, Monitor, d, t0) /\ Count(d)' = f.mem.itap
    BY <1>1
  <2>2. MonFile(f, L)' /\ f.d = d
    BY <1>3, <1>5, <2>1 DEF FileAt, MonFile, SameFilesAt
  <2>3. PICK k : k = f.mem.itap
    OBVIOUS
  <2>4. SinceFile(d, k, L)'
    BY <1>1, <2>1, <2>3 DEF SinceFile
  <2> QED BY <2>2, <2>3, <2>4
<1>12. NewOpened(L)' /\ NewNone(L)'
  BY <1>1, <1>6, <1>9 DEF NewOpened, NewNone
<1>13. NewLinked(L)'
  <2>1. \A d, v : TapeExists(Mother(d), v)' <=> TapeExists(Mother(d), v)
    <3>1. \A d, v : (\E m : m = Mother(d) /\ TapeExists(m, v))' <=> \E m : m = Mother(d) /\ TapeExists(m, v)
      BY <1>6, <1>7
    <3> QED BY <3>1
  <2> QED BY <1>5, <1>6, <1>7, <1>8, <2>1 DEF Held, NewLinked, SameFilesAt
<1>14. ASSUME NEW M \in [Dom -> Nat], Limits(L, M)
       PROVE  HeldTo(L, M)'
  <2>1. HeldTo(L, M)
    BY <1>8, <1>14
  <2>2. NewLimited(L, M)'
    BY <1>6, <1>7, <1>9, <2>1 DEF HeldTo, NewLimited
  <2>3. NewBehind(L, M)'
    BY <1>1, <1>6 DEF NewBehind
  <2>4. LaterFiles(L, M)'
    BY <1>5, <1>7, <2>1 DEF HeldTo, LaterFiles, SameFilesAt
  <2> QED BY <2>2, <2>3, <2>4 DEF HeldTo
<1> QED BY <1>6, <1>10, <1>11, <1>12, <1>13, <1>14 DEF Held

\* There are such limits: f has those of the first n domains.
IsLimit(L, f, n) ==
  /\ f \in [1..n -> Nat]
  /\ \A g : MonFile(g, L) /\ g.d <= n => f[g.d] = g.mem.itap + 2
  /\ \A d \in NewAt(L) : d <= n => f[d] = f[Mother(d)] + (IF Silent(L, d) THEN 0 ELSE 2)

LEMMA LimitNext ==
  ASSUME TInv, SavInv, NEW L \in Nat, NEW n \in Nat, n < MaxNes, NEW f, IsLimit(L, f, n)
  PROVE  \E h : IsLimit(L, h, n + 1)
<1>1. /\ f \in [1..n -> Nat] /\ n + 1 \in Dom /\ n + 1 \in Nat
      /\ \A d \in NewAt(L) : d \in Nest /\ Mother(d) \in 1..(d - 1) /\ ActTime(d) >= L /\ ActTime(d) \in Nat
      /\ nml \in Namelists /\ MaxNes \in Nat
  <2>1. nml \in Namelists /\ MaxNes \in Nat
    BY RunNumbers DEF TInv, SetsTyped
  <2> QED BY <2>1, RunNumbers, NestTimes DEF IsLimit, NewAt, Dom
<1>2. \A g : MonFile(g, L) => g.d \in Dom /\ g.d \notin NewAt(L) /\ g.mem.itap \in Nat
  <2> SUFFICES ASSUME NEW g, MonFile(g, L)
               PROVE  g.d \in Dom /\ g.d \notin NewAt(L) /\ g.mem.itap \in Nat
    OBVIOUS
  <2> QED BY <1>1 DEF MonFile, TInv, FilesTyped, Clocks, FileOf
<1>3. \E v \in Nat :
        /\ \A g : MonFile(g, L) /\ g.d = n + 1 => v = g.mem.itap + 2
        /\ n + 1 \in NewAt(L) => v = f[Mother(n + 1)] + (IF Silent(L, n + 1) THEN 0 ELSE 2)
  <2>1. CASE n + 1 \in NewAt(L)
    <3>1. PICK k \in Nat : k = f[Mother(n + 1)]
      BY <1>1, <2>1
    <3> QED BY <1>2, <2>1, <3>1
  <2>2. CASE n + 1 \notin NewAt(L) /\ \E g : MonFile(g, L) /\ g.d = n + 1
    <3>1. PICK g : MonFile(g, L) /\ g.d = n + 1
      BY <2>2
    <3> QED BY <2>2, <3>1, OneFile, <1>2 DEF MonFile
  <2>3. CASE n + 1 \notin NewAt(L) /\ ~ \E g : MonFile(g, L) /\ g.d = n + 1
    BY <2>3
  <2> QED BY <2>1, <2>2, <2>3
<1>4. PICK v \in Nat :
        /\ \A g : MonFile(g, L) /\ g.d = n + 1 => v = g.mem.itap + 2
        /\ n + 1 \in NewAt(L) => v = f[Mother(n + 1)] + (IF Silent(L, n + 1) THEN 0 ELSE 2)
  BY <1>3
<1>5. PICK h : h = [e \in 1..(n + 1) |-> IF e = n + 1 THEN v ELSE f[e]]
  OBVIOUS
<1>6. h \in [1..(n + 1) -> Nat] /\ h[n + 1] = v /\ \A e \in 1..n : h[e] = f[e]
  BY <1>1, <1>4, <1>5
<1>7. ASSUME NEW g, MonFile(g, L), g.d <= n + 1
      PROVE  h[g.d] = g.mem.itap + 2
  <2>1. CASE g.d = n + 1
    BY <1>4, <1>6, <1>7, <2>1
  <2>2. CASE g.d # n + 1
    <3>1. g.d \in 1..n
      <4>1. PICK e : e = g.d
        OBVIOUS
      <4>2. e \in 1..MaxNes
        BY <1>2, <1>7, <4>1 DEF Dom
      <4> QED BY <1>7, <2>2, <4>1, <4>2
    <3> QED BY <1>6, <1>7, <3>1 DEF IsLimit
  <2> QED BY <2>1, <2>2
<1>8. ASSUME NEW d \in NewAt(L), d <= n + 1
      PROVE  h[d] = h[Mother(d)] + (IF Silent(L, d) THEN 0 ELSE 2)
  <2>1. h[Mother(d)] = f[Mother(d)]
    BY <1>6, <1>1, <1>8 DEF Nest
  <2>2. CASE d = n + 1
    BY <1>4, <1>6, <2>1, <2>2
  <2>3. CASE d # n + 1
    <3>1. d \in 1..n
      BY <1>1, <1>8, <2>3 DEF Nest
    <3> QED BY <1>6, <2>1, <3>1 DEF IsLimit
  <2> QED BY <2>2, <2>3
<1> QED BY <1>6, <1>7, <1>8 DEF IsLimit

LEMMA LimitsExist ==
  ASSUME TInv, SavInv, NEW L \in Nat
  PROVE  \E M \in [Dom -> Nat] : Limits(L, M)
<1>1. MaxNes \in Nat /\ \A f \in files : f.d \in Dom
  BY RunNumbers DEF TInv, SetsTyped, FilesTyped
<1> DEFINE T == {n \in 0..MaxNes : ~ \E f : IsLimit(L, f, n)}
<1>2. T = {}
  <2> SUFFICES ASSUME T # {}
               PROVE  FALSE
    OBVIOUS
  <2>1. T \in SUBSET Nat
    BY <1>1
  <2>2. PICK n : n = Least(T)
    OBVIOUS
  <2>3. n \in T /\ \A m \in T : n <= m
    BY <2>1, <2>2, LeastOf
  <2>4. IsLimit(L, <<>>, 0)
    BY <1>1 DEF IsLimit, MonFile, Dom, NewAt, Nest
  <2>5. PICK f : IsLimit(L, f, n - 1)
    BY <1>1, <2>4, <2>3
  <2> QED BY <2>3, <1>1, <2>4, <2>5, LimitNext
<1>3. PICK f : IsLimit(L, f, MaxNes)
  <2>1. MaxNes \in 0..MaxNes /\ MaxNes \notin T
    BY <1>1, <1>2
  <2> QED BY <2>1
<1> QED BY <1>1, <1>3 DEF IsLimit, Dom, Limits, MonFile, NewAt, Nest

\* And of the times one can go on from and is beyond, there is a latest.
LEMMA BaseExists ==
  ASSUME NEW b \in Nat, \A u : Can(u) /\ Passed(u) => u \in Nat /\ u <= b, NEW t, Can(t), Passed(t)
  PROVE  \E L \in Nat : Base(L)
<1> DEFINE T == {k \in 0..b : Can(b - k) /\ Passed(b - k)}
<1>1. T \in SUBSET Nat /\ b - t \in T
  <2>1. PICK k \in 0..b : k = b - t /\ b - k = t
    OBVIOUS
  <2>2. k \in T
    BY <2>1
  <2> QED BY <2>1, <2>2
<1>2. PICK k : k = Least(T)
  OBVIOUS
<1>3. k \in T /\ \A j \in T : k <= j
  BY <1>1, <1>2, LeastOf
<1>4. PICK L : L = b - k
  OBVIOUS
<1>5. ASSUME NEW u \in Nat, Can(u), Passed(u)
      PROVE  u <= L
  <2>1. u <= b
    BY <1>5
  <2>2. PICK j \in 0..b : j = b - u /\ b - j = u
    BY <2>1
  <2>3. j \in T
    BY <1>5, <2>2
  <2>4. k <= j
    BY <1>3, <2>3
  <2> QED BY <1>3, <1>4, <2>1, <2>2, <2>4
<1> QED BY <1>3, <1>4, <1>5 DEF Base

\* A run ends: it leaves its output, and no whole restart file that is new.
LEMMA EndLeaves ==
  ASSUME TInv, pc # "down", GoDown, UNCHANGED <<nml, lost, tapes>>, files' = files \/ Crash
  PROVE  /\ pc' = "down" /\ active' = {} /\ opened' = {}
         /\ \A f \in files' : f.whole => f \in files
         /\ \A f, t : MonFile(f, t)' => MonFile(f, t)
         /\ \A t : Can(t)' => Can(t)
<1> QED BY CrashStep, FileOfKept, CanWas DEF GoDown, MonFile

\* How the next run would count: at most as the limits say.
LEMMA CountLimited ==
  ASSUME TInv, NEW L \in Nat, Held(L), NEW M \in [Dom -> Nat], Limits(L, M), HeldTo(L, M), NEW d \in active
  PROVE  NextCount(d) <= M[d]
<1>1. d \in Dom /\ Count(d) \in Nat /\ M[d] \in Nat
  BY CountTyped2 DEF TInv, SetsTyped
<1>2. CASE d \in NewAt(L)
  BY <1>1, <1>2 DEF Held, NewOpened, HeldTo, NewLimited, NextCount
<1>3. CASE d \notin NewAt(L)
  <2>1. PICK g : MonFile(g, L) /\ g.d = d /\ SinceFile(d, g.mem.itap, L)
    BY <1>3 DEF Held, OldCounts
  <2>2. PICK c \in Nat : c = g.mem.itap
    BY <2>1 DEF MonFile, TInv, FilesTyped, Clocks
  <2>3. M[d] = c + 2
    BY <2>1, <2>2 DEF Limits
  <2>4. SinceFile(d, c, L)
    BY <2>1, <2>2
  <2> QED BY <1>1, <2>3, <2>4 DEF SinceFile, NextCount
<1> QED BY <1>2, <1>3

\* Where a run ends that has not passed the latest time one can go on from: it is
\* the run's own, and what is in the files of the monitor is kept.
LEMMA KeepEnds ==
  ASSUME TInv, BdyInv, RunInv, SavInv, UnitsInv, OutInv, OldKept, Passing, Ahead, Backed, KeepInv,
         lost = 0, ~ nml.svlast, pc # "down", NEW L \in Nat, SavesAt(nml, L), L = Clock, ~ AtStep,
         NEW f, MonFile(f, L)
  PROVE  KeptTo(f.d, L, f.mem.itap + 1)
<1>1. f.d \in Dom /\ f.mem.itap \in Nat /\ TapesTyped
  BY DEF MonFile, TInv, FilesTyped, Clocks
<1>2. f.d \in active
  <2>1. HasFile(f.d, Clock)
    BY <1>1, RunNumbers DEF MonFile, FileOf, HasFile, TInv, SetsTyped
  <2>2. pc \in {"nests", "end", "output"}
    BY DEF AtStep, TInv, SetsTyped
  <2> QED BY <1>1, <2>1, <2>2, ActiveAt
<1>3. \A k \in Nat : NextCount(f.d) <= k => KeptTo(f.d, L, k)
  BY <1>1, <1>2, KeptBySaves DEF Lasting
<1>4. NextCount(f.d) <= f.mem.itap + 1 => KeptTo(f.d, L, f.mem.itap + 1)
  BY <1>1, <1>3
<1>5. CASE \E t : Can(t) /\ Passed(t)
  <2>1. \A u : Can(u) /\ Passed(u) => u \in Nat /\ u < L
    <3>1. \A u : Can(u) => u \in Nat
      BY CanNumbers
    <3> QED BY <3>1 DEF Passed, Behind
  <2>2. PICK L0 \in Nat : Base(L0)
    <3>1. \A u : Can(u) /\ Passed(u) => u \in Nat /\ u <= L
      BY <2>1
    <3> QED BY <1>5, <3>1, BaseExists
  <2>3. L > L0
    BY <2>1, <2>2 DEF Base
  <2>4. PICK M \in [Dom -> Nat] : Limits(L0, M)
    BY LimitsExist
  <2>5. Held(L0) /\ HeldTo(L0, M)
    BY <2>2, <2>4 DEF KeepInv
  <2>6. KeptTo(f.d, L, f.mem.itap + 1) \/ f.mem.itap + 1 >= M[f.d]
    BY <2>3, <2>5 DEF HeldTo, LaterFiles
  <2>7. NextCount(f.d) <= M[f.d] /\ NextCount(f.d) \in Nat /\ M[f.d] \in Nat
    BY <1>1, <1>2, <2>4, <2>5, CountLimited, CountTyped2
  <2> QED BY <1>1, <1>4, <2>6, <2>7
<1>6. CASE ~ \E t : Can(t) /\ Passed(t)
  <2>1. ~ job.ifrest
    BY <1>6 DEF Backed, Passed
  <2>2. NextCount(f.d) = 0
    BY <1>2, <2>1 DEF UnitsInv, NextCount
  <2> QED BY <1>1, <1>4, <2>2
<1> QED BY <1>5, <1>6

\* Where nothing runs any more, and files of the monitor are not new.
LEMMA KeepLeft ==
  ASSUME TInv, UNCHANGED <<nml, tapes>>, pc' = "down", active' = {}, opened' = {},
         \A f, t : MonFile(f, t)' => MonFile(f, t), NEW L \in Nat, SameFilesAt(L),
         Held(L), \A M \in [Dom -> Nat] : Limits(L, M) => HeldTo(L, M)
  PROVE  Held(L)' /\ \A M \in [Dom -> Nat] : Limits(L, M)' => HeldTo(L, M)'
<1>1. /\ \A d, u, n : KeptTo(d, u, n)' <=> KeptTo(d, u, n)
      /\ \A d, u : KeptAny(d, u)' <=> KeptAny(d, u)
      /\ \A d, v : TapeExists(d, v)' <=> TapeExists(d, v)
  BY KeptSame
<1>2. OldCounts(L)' /\ NewOpened(L)' /\ NewNone(L)' /\ \A M : NewBehind(L, M)'
  BY DEF OldCounts, NewOpened, NewNone, NewBehind
<1>3. NewAt(L)' = NewAt(L) /\ \A M : Limits(L, M)' <=> Limits(L, M)
  BY LimitsSame
<1>4. FilesLast(L)' /\ AnyKept(L)'
  BY <1>1 DEF Held, FilesLast, AnyKept, SameFilesAt
<1>5. NewLinked(L)'
  <2>1. \A d : Mother(d)' = Mother(d)
    BY NamelistKept
  <2>2. \A d, v : (\E m : m = Mother(d) /\ TapeExists(m, v))' <=> \E m : m = Mother(d) /\ TapeExists(m, v)
    BY <1>1, <2>1
  <2>3. \A d, v : TapeExists(Mother(d), v)' <=> TapeExists(Mother(d), v)
    BY <2>2
  <2> QED BY <1>1, <1>3, <2>1, <2>3 DEF Held, NewLinked, SameFilesAt
<1>6. ASSUME NEW M \in [Dom -> Nat], Limits(L, M)
      PROVE  HeldTo(L, M)'
  <2>1. HeldTo(L, M)
    BY <1>6
  <2>2. NewLimited(L, M)'
    BY <1>1, <1>3, <2>1 DEF HeldTo, NewLimited
  <2>3. LaterFiles(L, M)'
    BY <1>1, <2>1 DEF HeldTo, LaterFiles
  <2> QED BY <1>2, <2>2, <2>3 DEF HeldTo
<1> QED BY <1>2, <1>3, <1>4, <1>5, <1>6 DEF Held

LEMMA KeepDown ==
  ASSUME TInv, BdyInv, RunInv, SavInv, UnitsInv, OutInv, StoreInv, OldKept, Passing, Ahead, Backed,
         TInv', BdyInv', [Next]_vars, KeepInv,
         pc # "down", GoDown, UNCHANGED <<nml, lost, tapes>>, files' = files \/ Crash
  PROVE  KeepInv'
<1>1. /\ pc' = "down" /\ active' = {} /\ opened' = {} /\ Clock \in Nat /\ nml \in Namelists
      /\ \A f \in files' : f.whole => f \in files
      /\ \A f, t : MonFile(f, t)' => MonFile(f, t)
      /\ \A t : Can(t)' => Can(t)
  BY EndLeaves, CoarseTime DEF RunInv
<1> SUFFICES ASSUME lost = 0, ~ nml.svlast, NEW L \in Nat, Base(L)'
             PROVE  Held(L)' /\ \A M \in [Dom -> Nat] : Limits(L, M)' => HeldTo(L, M)'
  BY DEF KeepInv
<1>2. /\ \A d, u, n : KeptTo(d, u, n)' <=> KeptTo(d, u, n)
      /\ \A d, u : KeptAny(d, u)' <=> KeptAny(d, u)
      /\ \A d, v : TapeExists(d, v)' <=> TapeExists(d, v)
  BY KeptSame
<1>3. OldCounts(L)' /\ NewOpened(L)' /\ NewNone(L)' /\ \A M : NewBehind(L, M)'
  BY <1>1 DEF OldCounts, NewOpened, NewNone, NewBehind
<1>4. Can(L) /\ SavesAt(nml, L)
  <2>1. Can(L)'
    BY DEF Base
  <2> QED BY <1>1, <2>1 DEF Can
<1>5. CASE Behind(L)
  <2>1. Base(L) /\ SameFilesAt(L)
    BY <1>5, SameBase
  <2>2. Held(L) /\ \A M \in [Dom -> Nat] : Limits(L, M) => HeldTo(L, M)
    BY <2>1 DEF KeepInv
  <2> QED BY <1>1, <2>1, <2>2, KeepLeft
<1>6. CASE ~ Behind(L)
  <2>1. L = Clock /\ ~ AtStep
    BY <1>1, <1>4, <1>6 DEF Ahead, Behind
  <2>2. ~ Reached(L)
    BY <1>4, <1>6, CanUsable DEF StoreInv, Passing
  <2>3. AnyKept(L)'
    BY <1>2, <1>4, <2>1, KeptBySaves DEF AnyKept, Lasting
  <2>4. FilesLast(L)'
    <3>1. \A f : MonFile(f, L) => KeptTo(f.d, L, f.mem.itap + 1)
      BY <1>4, <2>1, KeepEnds
    <3> QED BY <1>1, <1>2, <3>1 DEF FilesLast
  <2>5. \A d \in NewAt(L)' : \A v : ~ TapeExists(d, v)'
    <3>1. NewAt(L)' = NewAt(L)
      BY NamelistKept DEF NewAt
    <3>2. \A d \in NewAt(L) : \A v : ~ TapeExists(d, v)
      BY <2>2 DEF Reached, TapeExists, NewAt, Nest
    <3> QED BY <1>2, <3>1, <3>2
  <2>6. NewLinked(L)' /\ \A M : NewLimited(L, M)'
    BY <1>1, <2>5 DEF NewLinked, NewLimited
  <2>7. \A M : LaterFiles(L, M)'
    <3>1. \A u \in Nat : u > L => \A f : ~ MonFile(f, u)
      BY <2>2 DEF Reached, MonFile
    <3> QED BY <1>1, <3>1 DEF LaterFiles
  <2> QED BY <1>3, <2>3, <2>4, <2>6, <2>7 DEF Held, HeldTo
<1> QED BY <1>5, <1>6

LEMMA KeepInit ==
  ASSUME Init
  PROVE  KeepInv /\ Backed /\ OldKept
<1>1. \A t : ~ Can(t)
  <2> SUFFICES ASSUME NEW t, Can(t)
               PROVE  FALSE
    OBVIOUS
  <2> QED BY TypesInit, CanNumbers, RunNumbers DEF FileAt, TInv, SetsTyped, Init
<1> QED BY TypesInit, <1>1 DEF KeepInv, Base, Backed, OldKept, Init

LEMMA KeepNext ==
  ASSUME TInv, BdyInv, RunInv, SavInv, UnitsInv, OutInv, StoreInv, OldKept, Passing, Ahead, Backed,
         TInv', BdyInv', [Next]_vars, KeepInv
  PROVE  KeepInv'
<1>1. CASE pc # "down" /\ pc' # "down"
  BY <1>1, KeepRunning
<1>2. CASE Start
  <2>1. \A t : ~ Can(t)'
    BY <1>2, AheadStart
  <2> QED BY <2>1 DEF KeepInv, Base
<1>3. ASSUME NEW ixtimr \in Saved, NEW given \in Givens,
             \A later \in Saved : later > ixtimr => ~ CanRestart(later), Restart(ixtimr, given)
      PROVE  KeepInv'
  <2>1. \E t \in Nat : ResumedAt(t)
    BY <1>3, RestartAt
  <2> QED BY <2>1, KeepRestart
<1>4. CASE pc # "down" /\ GoDown /\ UNCHANGED <<nml, lost, tapes>> /\ (files' = files \/ Crash)
  BY <1>4, KeepDown
<1>5. CASE pc = "down" /\ UNCHANGED vars
  <2>1. pc' = "down" /\ UNCHANGED <<nml, lost, tapes, files>> /\ active' = {} /\ opened' = {}
    BY <1>5 DEF vars, running, RunInv, AllGone, UnitsInv
  <2> SUFFICES ASSUME lost = 0, ~ nml.svlast, NEW L \in Nat, Base(L)'
               PROVE  Held(L)' /\ \A M \in [Dom -> Nat] : Limits(L, M)' => HeldTo(L, M)'
    BY <2>1 DEF KeepInv
  <2>2. /\ \A f, t : MonFile(f, t)' <=> MonFile(f, t)
        /\ \A t : Can(t)' <=> Can(t)
    BY <2>1, FileOfKept, CanKept, CanWas DEF MonFile
  <2>3. Base(L) /\ SameFilesAt(L)
    BY <1>5, <2>1, <2>2 DEF Base, Passed, SameFilesAt
  <2> QED BY <2>1, <2>2, <2>3, KeepLeft DEF KeepInv
<1> QED BY <1>1, <1>2, <1>3, <1>4, <1>5, StepPhases

-------------------------------------------------------------------------------
(* The one restart file of SVLAST *)

\* Of the coarse domain the monitor has one restart file; from a restart on, it is
\* that of the run's last step of restart files, or the one it has begun from.
LastOfRun ==
  pc # "down" /\ job.ifrest /\ nml.svlast =>
    \A t \in Nat : \A f : MonFile(f, t) /\ f.d = 1 =>
      /\ t <= Clock
      /\ pc \in {"nests", "end"} => t < Clock
      /\ pc = "output" /\ t = Clock => f.mem.itap = Count(1) /\ outs = {}

\* When all processors have it, the next run keeps what is due until then.
LastKept ==
  lost = 0 /\ nml.svlast =>
    \A t \in Nat : Can(t) => \A f : MonFile(f, t) /\ f.d = 1 =>
      /\ KeptTo(1, t, f.mem.itap + 1)
      /\ pc # "down" /\ 1 \notin opened => job.ifrest /\ Count(1) = f.mem.itap

LEMMA OneLast ==
  ASSUME SavInv, LastNamed, nml.svlast, NEW f, NEW t, MonFile(f, t), NEW g, NEW u, MonFile(g, u), f.d = g.d
  PROVE  f = g /\ t = u
<1>1. f = g
  BY DEF SavInv, FilesRight, MonFile, LastNamed
<1> QED BY <1>1 DEF MonFile, FileOf

LEMMA OutputOn ==
  ASSUME TInv, [Next]_vars, pc # "down", pc' # "down"
  PROVE  /\ pc' \in {"nests", "end"} => SolveCoarse \/ pc \in {"nests", "end"}
         /\ pc' = "output" => pc = "end" \/ (pc = "output" /\ (outs # {} \/ UNCHANGED <<outs, mem>>))
<1>1. CASE ReadBoundary
  BY <1>1 DEF ReadBoundary, GoDown, ChecksNests
<1>2. CASE CheckSkips \/ Deactivate \/ Activate
  BY <1>2 DEF CheckSkips, Deactivate, Activate, NextCheck, TInv, SetsTyped
<1>3. CASE SolveNest \/ NextTurn \/ FeedBack
  BY <1>3 DEF SolveNest, NextTurn, FeedBack
<1>4. CASE Output \/ WriteOutput
  BY <1>4 DEF Output, WriteOutput
<1>5. ASSUME NEW p \in Proc, Save(p)
      PROVE  pc = "output" /\ pc' = "output" /\ UNCHANGED <<outs, mem>>
  BY <1>5 DEF Save
<1>6. CASE NextStep
  BY <1>6 DEF NextStep, GoDown
<1>7. CASE UNCHANGED vars
  BY <1>7 DEF vars, running
<1> QED
  BY <1>1, <1>2, <1>3, <1>4, <1>5, <1>6, <1>7 DEF Next, Start, RestartAny, Restart, SolveCoarse, Crash,
     GoDown, Over

LEMMA LastRunning ==
  ASSUME TInv, BdyInv, RunInv, SavInv, TInv', BdyInv', LastOfRun, [Next]_vars, pc # "down", pc' # "down"
  PROVE  LastOfRun'
<1>1. nml' = nml /\ job' = job /\ Clock \in Nat /\ Clock' \in Nat /\ Step \in Nat \ {0}
  BY StepMoves, CoarseTime DEF RunInv
<1> SUFFICES ASSUME job.ifrest, nml.svlast, NEW t \in Nat, NEW f, MonFile(f, t)', f.d = 1
             PROVE  /\ t <= Clock'
                    /\ pc' \in {"nests", "end"} => t < Clock'
                    /\ pc' = "output" /\ t = Clock' => f.mem.itap = Count(1)' /\ outs' = {}
  BY <1>1 DEF LastOfRun
<1>2. f \in files' /\ f.p = Monitor /\ f.whole /\ FileOf(f, t)
  BY <1>1, FileOfKept DEF MonFile
<1>3. CASE f \notin files
  <2>1. /\ pc = "output" /\ FileOf(f, Clock) /\ f.mem = mem[Monitor][1] /\ outs = {}
        /\ \E p \in Proc : Save(p)
    BY <1>2, <1>3, FilesStep
  <2>2. t = Clock
    BY <1>2, <2>1 DEF FileOf
  <2>3. UNCHANGED <<pc, mem, outs>>
    BY <2>1 DEF Save
  <2>4. Clock' = Clock /\ Count(1)' = Count(1)
    BY <2>3 DEF Clock, XTime, Count
  <2> QED BY <1>1, <2>1, <2>2, <2>3, <2>4 DEF Count
<1>4. CASE f \in files
  <2>1. /\ t <= Clock /\ (pc \in {"nests", "end"} => t < Clock)
        /\ pc = "output" /\ t = Clock => f.mem.itap = Count(1) /\ outs = {}
    BY <1>2, <1>4 DEF LastOfRun, MonFile
  <2>2. Clock <= Clock' /\ (SolveCoarse => Clock < Clock')
    <3>1. SolveCoarse => Clock' = Clock + Step
      BY StepMoves, <1>1 DEF SolveCoarse, NextStep, AtStep
    <3> QED BY <1>1, <3>1, StepMoves
  <2>3. pc' \in {"nests", "end"} => t < Clock'
    BY <1>1, <2>1, <2>2, OutputOn
  <2>4. ASSUME pc' = "output", t = Clock'
        PROVE  f.mem.itap = Count(1)' /\ outs' = {}
    <3>1. t = Clock
      BY <1>1, <2>1, <2>2, <2>4
    <3>2. pc = "output" /\ UNCHANGED <<outs, mem>>
      BY <2>1, <2>4, <3>1, <1>1, OutputOn
    <3> QED BY <2>1, <3>1, <3>2 DEF Count
  <2>5. t <= Clock'
    BY <1>1, <2>1, <2>2
  <2> QED BY <2>3, <2>4, <2>5
<1> QED BY <1>3, <1>4

LEMMA LastRestart ==
  ASSUME TInv, SavInv, LastNamed, LastKept, NEW t0 \in Nat, ResumedAt(t0)
  PROVE  LastOfRun' /\ LastKept'
<1>1. /\ pc' # "down" /\ UNCHANGED <<nml, files, tapes, lost>> /\ Clock' = t0 /\ AtStep' /\ job'.ifrest
      /\ 1 \in active' /\ \A d \in active' : \E f : FileAt(f, Monitor, d, t0) /\ Count(d)' = f.mem.itap
  BY DEF ResumedAt
<1>2. PICK g : MonFile(g, t0) /\ g.d = 1 /\ Count(1)' = g.mem.itap
  BY <1>1 DEF FileAt, MonFile
<1>3. \A f, t : MonFile(f, t)' <=> MonFile(f, t)
  BY <1>1, FileOfKept DEF MonFile
<1>4. nml.svlast => \A f, t : MonFile(f, t) /\ f.d = 1 => f = g /\ t = t0
  BY <1>2, OneLast
<1>5. LastOfRun'
  BY <1>1, <1>3, <1>4 DEF LastOfRun, AtStep
<1>6. \A t : Can(t)' <=> Can(t)
  BY <1>1, CanKept, CanWas
<1>7. \A d, u, n : KeptTo(d, u, n)' <=> KeptTo(d, u, n)
  BY <1>1, KeptSame
<1>8. LastKept'
  <2> SUFFICES ASSUME lost = 0, nml.svlast, NEW t \in Nat, Can(t)', NEW f, MonFile(f, t)', f.d = 1
               PROVE  KeptTo(1, t, f.mem.itap + 1)' /\ Count(1)' = f.mem.itap
    BY <1>1 DEF LastKept
  <2>1. Can(t) /\ MonFile(f, t) /\ f = g
    BY <1>3, <1>4, <1>6
  <2>2. \A k : k = f.mem.itap + 1 => KeptTo(1, t, k)'
    BY <1>7, <2>1 DEF LastKept
  <2> QED BY <1>2, <2>1, <2>2
<1> QED BY <1>5, <1>8

LEMMA LastKeptRunning ==
  ASSUME TInv, BdyInv, RunInv, SavInv, UnitsInv, OutInv, OldKept, TInv', BdyInv', LastOfRun, LastKept,
         [Next]_vars, pc # "down", pc' # "down"
  PROVE  LastKept'
<1>1. nml' = nml /\ job' = job /\ Clock \in Nat /\ TapesTyped /\ 1 \in Dom /\ 1 \in active /\ 1 \notin Nest
  BY StepMoves, RunNumbers DEF TInv, SetsTyped, Nest
<1> SUFFICES ASSUME lost' = 0, nml.svlast, NEW t \in Nat, Can(t)', NEW f, MonFile(f, t)', f.d = 1
             PROVE  /\ KeptTo(1, t, f.mem.itap + 1)'
                    /\ 1 \notin opened' => job.ifrest /\ Count(1)' = f.mem.itap
  BY <1>1 DEF LastKept
<1>2. lost = 0 /\ f \in files' /\ f.p = Monitor /\ f.whole /\ FileOf(f, t)
  BY <1>1, LostGrows, FileOfKept DEF MonFile
<1>3. PICK c : c = f.mem.itap
  OBVIOUS
<1>4. CASE Can(t) /\ f \in files
  <2>1. KeptTo(1, t, c + 1) /\ (1 \notin opened => job.ifrest /\ Count(1) = c) /\ c \in Nat
    <3>1. MonFile(f, t)
      BY <1>2, <1>4 DEF MonFile
    <3> QED BY <1>2, <1>3, <1>4, <3>1 DEF LastKept, TInv, FilesTyped, Clocks
  <2>2. CASE Calm
    BY <1>1, <1>3, <2>1, <2>2 DEF Calm
  <2>3. ASSUME NEW d \in Dom \ {1}, NEW n, Opens(d, n)
        PROVE  KeptTo(1, t, c + 1)' /\ (1 \notin opened' => job.ifrest /\ Count(1)' = c)
    BY <1>1, <2>1, <2>3 DEF Opens, Counted
  <2>4. ASSUME NEW d \in Dom \ opened, Writes(d)
        PROVE  KeptTo(1, t, c + 1)' /\ (1 \notin opened' => job.ifrest /\ Count(1)' = c)
    <3>1. PICK n : Opens(d, n) /\ NumbersOn(d, n, Count(d))
      BY <2>4, WritesOpens
    <3>2. CASE d # 1
      BY <2>3, <3>1, <3>2
    <3>3. CASE d = 1
      <4>1. Opens(1, n) /\ NumbersOn(1, n, c) /\ job.ifrest
        BY <2>1, <3>1, <3>3
      <4>2. KeptTo(1, t, c + 1)'
        <5>1. ~ TapeExists(1, n) \/ (c + 1 < n /\ c + 1 \in Nat)
          BY <2>1, <4>1 DEF NumbersOn
        <5>2. /\ ~ TapeExists(1, n) => \A k : KeptTo(1, t, k) => KeptTo(1, t, k)'
              /\ \A k \in Nat : k < n /\ KeptTo(1, t, k) => KeptTo(1, t, k)'
          BY <4>1 DEF Opens
        <5>3. PICK k : k = c + 1
          OBVIOUS
        <5>4. KeptTo(1, t, k)'
          BY <2>1, <5>1, <5>2, <5>3
        <5> QED BY <5>3, <5>4
      <4> QED BY <4>1, <4>2 DEF Opens
    <3> QED BY <3>2, <3>3
  <2>5. ASSUME NEW d \in Nest, Activates(d)
        PROVE  KeptTo(1, t, c + 1)' /\ (1 \notin opened' => job.ifrest /\ Count(1)' = c)
    <3>1. PICK m : m = Mother(d)
      OBVIOUS
    <3>2. PICK n : Opens(d, n)
      BY <2>5, <3>1, ActivatesOpens
    <3> QED BY <1>1, <2>3, <3>2 DEF Nest, Opens
  <2>6. Quiet \/ (\E d \in Dom : Writes(d)) \/ (\E d \in Nest : Activates(d))
    BY StepKinds
  <2>7. KeptTo(1, t, c + 1)' /\ (1 \notin opened' => job.ifrest /\ Count(1)' = c)
    <3>1. ASSUME NEW d \in Dom, Writes(d)
          PROVE  KeptTo(1, t, c + 1)' /\ (1 \notin opened' => job.ifrest /\ Count(1)' = c)
      <4>1. CASE d \in opened
        BY <1>1, <1>3, <2>2, <3>1, <4>1, WritesCalm
      <4>2. CASE d \notin opened
        BY <2>4, <3>1, <4>2
      <4> QED BY <4>1, <4>2
    <3> QED BY <1>3, <2>2, <2>5, <2>6, <3>1, QuietCalm
  <2> QED BY <1>3, <2>7
<1>5. CASE ~ (Can(t) /\ f \in files)
  <2>1. PICK g \in files' : g.whole /\ FileOf(g, t) /\ g \notin files
    BY <1>1, <1>2, <1>5, CanWas
  <2>2. /\ pc = "output" /\ SavesAt(nml, Clock) /\ FileOf(g, Clock) /\ \E p \in Proc : Save(p)
    BY <2>1, FilesStep
  <2>3. t = Clock
    BY <2>1, <2>2 DEF FileOf
  <2>4. UNCHANGED <<tapes, opened, mem>>
    BY <2>2 DEF Save
  <2>5. job.ifrest => c = Count(1)
    <3>1. CASE f \in files
      BY <1>1, <1>2, <1>3, <2>2, <2>3, <3>1 DEF LastOfRun, MonFile
    <3>2. CASE f \notin files
      BY <1>2, <1>3, <3>2, FilesStep DEF Count
    <3> QED BY <3>1, <3>2
  <2>6. c \in Nat /\ NextCount(1) <= c + 1
    <3>1. c \in Nat
      BY <1>2, <1>3 DEF TInv, FilesTyped, Clocks
    <3>2. ~ job.ifrest => NextCount(1) = 0
      BY <1>1 DEF UnitsInv, NextCount
    <3>3. Count(1) \in Nat
      BY <1>1, CountTyped2
    <3> QED BY <2>5, <3>1, <3>2, <3>3 DEF NextCount
  <2>7. KeptTo(1, t, c + 1)
    BY <1>1, <1>2, <2>2, <2>3, <2>6, KeptBySaves DEF Lasting
  <2>8. KeptTo(1, t, c + 1)'
    <3>1. nml' = nml /\ tapes' = tapes
      BY <1>1, <2>4
    <3>2. \A n : KeptTo(1, t, n)' <=> KeptTo(1, t, n)
      BY <3>1, KeptSame
    <3>3. \A n : n = c + 1 => KeptTo(1, t, n)'
      BY <2>7, <3>2
    <3> QED BY <3>3
  <2>9. 1 \notin opened => job.ifrest
    BY <1>1 DEF UnitsInv
  <2>10. Count(1)' = Count(1)
    BY <2>4 DEF Count
  <2> QED BY <1>3, <2>4, <2>5, <2>8, <2>9, <2>10
<1> QED BY <1>4, <1>5

LEMMA LastNext ==
  ASSUME TInv, BdyInv, RunInv, SavInv, UnitsInv, OutInv, StoreInv, OldKept, TInv', BdyInv', LastOfRun, LastKept,
         [Next]_vars
  PROVE  LastOfRun' /\ LastKept'
<1>1. LastNamed
  BY DEF StoreInv
<1>2. CASE pc # "down" /\ pc' # "down"
  BY <1>2, LastRunning, LastKeptRunning
<1>3. CASE Start
  <2>1. job'.ifrest = FALSE
    <3>1. PICK t : job' = [Dead EXCEPT !.timax = t]
      BY <1>3 DEF Start
    <3> QED BY <3>1 DEF Dead
  <2>2. \A t : ~ Can(t)'
    BY <1>3, AheadStart
  <2> QED BY <2>1, <2>2 DEF LastOfRun, LastKept
<1>4. ASSUME NEW ixtimr \in Saved, NEW given \in Givens,
             \A later \in Saved : later > ixtimr => ~ CanRestart(later), Restart(ixtimr, given)
      PROVE  LastOfRun' /\ LastKept'
  <2>1. \E t \in Nat : ResumedAt(t)
    BY <1>4, RestartAt
  <2> QED BY <1>1, <2>1, LastRestart
<1>5. CASE pc # "down" /\ GoDown /\ UNCHANGED <<nml, lost, tapes>> /\ (files' = files \/ Crash)
  <2>1. pc' = "down" /\ (\A f, t : MonFile(f, t)' => MonFile(f, t)) /\ \A t : Can(t)' => Can(t)
    BY <1>5, EndLeaves
  <2>2. \A d, u, n : KeptTo(d, u, n)' <=> KeptTo(d, u, n)
    BY <1>5, KeptSame
  <2> QED BY <1>5, <2>1, <2>2 DEF LastOfRun, LastKept
<1>6. CASE pc = "down" /\ UNCHANGED vars
  <2>1. pc' = "down" /\ UNCHANGED <<nml, lost, tapes, files>>
    BY <1>6 DEF vars, running
  <2>2. (\A f, t : MonFile(f, t)' <=> MonFile(f, t)) /\ \A t : Can(t)' <=> Can(t)
    BY <2>1, FileOfKept, CanKept, CanWas DEF MonFile
  <2>3. \A d, u, n : KeptTo(d, u, n)' <=> KeptTo(d, u, n)
    BY <2>1, KeptSame
  <2> QED BY <2>1, <2>2, <2>3 DEF LastOfRun, LastKept
<1> QED BY <1>2, <1>3, <1>4, <1>5, <1>6, StepPhases

\* So a run that is restarted comes to keep what was due until then.
LEMMA ResumedKept ==
  ASSUME TInv, KeepInv, LastKept, NEW t0 \in Nat, ResumedAt(t0), lost = 0, NEW d \in Lasting
  PROVE  KeptAny(d, t0) /\ \A f : MonFile(f, t0) /\ f.d = d => KeptTo(d, t0, f.mem.itap + 1)
<1>1. Can(t0) /\ (\A u : Can(u) => u <= t0) /\ pc = "down"
  BY DEF ResumedAt
<1>2. CASE nml.svlast
  <2>1. d = 1
    BY <1>2 DEF Lasting
  <2>2. \A f : MonFile(f, t0) /\ f.d = d => KeptTo(d, t0, f.mem.itap + 1)
    BY <1>1, <1>2, <2>1 DEF LastKept
  <2>3. PICK f : FileAt(f, Monitor, 1, t0)
    BY <1>1, CanNumbers, RunNumbers DEF TInv, SetsTyped
  <2>4. f.mem.itap + 1 \in Nat /\ TapesTyped
    BY <2>3 DEF FileAt, TInv, FilesTyped, Clocks
  <2>5. KeptTo(d, t0, f.mem.itap + 1)
    BY <2>1, <2>2, <2>3 DEF FileAt, MonFile
  <2>6. KeptAny(d, t0)
    BY <2>4, <2>5, KeptToMore
  <2> QED BY <2>2, <2>6
<1>3. CASE ~ nml.svlast
  <2>1. Base(t0)
    BY <1>1 DEF Base, Passed
  <2>2. FilesLast(t0) /\ AnyKept(t0)
    BY <1>3, <2>1 DEF KeepInv, Held
  <2>3. d \in Dom
    BY <1>3 DEF Lasting
  <2> QED BY <2>2, <2>3 DEF FilesLast, AnyKept
<1> QED BY <1>2, <1>3

LEMMA OldInvOutputs ==
  ASSUME TInv, BdyInv, RunInv, OutInv, CutInv, OldKept
  PROVE  OutputsKept
<1> SUFFICES ASSUME pc = "solve", lost = 0, NEW d \in Lasting, NEW t \in OutputTimes(d),
                    t <= Clock, ~ SavesAt(nml, t)
             PROVE  \E r \in tapes : r[1] = d /\ r[3] = t /\ (r \in cut => EndOfFile(r))
  BY DEF OutputsKept, Lasting
<1>1. d \in Dom
  BY RunNumbers DEF Lasting, TInv, SetsTyped
<1>2. Kept(d, t)
  BY <1>1, DueOutput, KeptNow DEF Owed
<1> QED BY <1>2 DEF Kept, CutInv

\* What restarts lose of the output is at most what a file ends with: whatever the
\* files of earlier runs are called and wherever they were killed, each output that
\* was due by now and is not of a time of restart files is in some file, and whole
\* unless it is the last in it and a kill has cut it, as long as no restart file
\* could not be opened, and with SVLAST of the coarse domain.
THEOREM OutputsAlwaysKept == Spec => []OutputsKept
<1> DEFINE Run == TInv /\ BdyInv /\ RunInv /\ SavInv /\ CameFrom /\ UnitsInv /\ OutInv /\ CutInv /\ StoreInv
           Inv == Run /\ Passing /\ Ahead /\ Backed /\ OldKept /\ KeepInv /\ LastOfRun /\ LastKept
<1>1. Init => Inv
  <2> SUFFICES ASSUME Init
               PROVE  Inv
    OBVIOUS
  <2>1. Run
    BY TypesInit, BdyInit, RunInit, SavInit, UnitsInit, OutInit, CutInit, StoreInit DEF Init, CameFrom
  <2> QED BY <2>1, PassingInit, KeepInit DEF Init, LastOfRun, LastKept, MonFile
<1>2. Inv /\ [Next]_vars => Inv'
  <2> SUFFICES ASSUME Inv, [Next]_vars
               PROVE  Inv'
    OBVIOUS
  <2>1. Run'
    BY TypesNext, BdyNext, RunNext, SavNext, CameNext, UnitsNext, OutNext, CutNext, StoreNext
  <2>2. OldKept'
    BY <2>1, ResumedKept, OldNext
  <2>3. KeepInv'
    BY <2>1, KeepNext
  <2> QED BY <2>1, PassingNext, BackedNext, <2>2, <2>3, LastNext
<1>3. Inv => OutputsKept
  BY OldInvOutputs
<1> QED BY <1>1, <1>2, <1>3, PTL DEF Spec
===============================================================================
