------------------------------- MODULE Mm5Run -------------------------------
(***************************************************************************)
(* The main program of MM5 (Run/mm5.F): the time steps of the coarse       *)
(* domain and of the nests in it, the records of lateral boundaries it     *)
(* reads, the output and restart files it writes, and starting it again    *)
(* after it has been killed, from the restart files or from the beginning. *)
(*                                                                         *)
(* The processors step together, since none gets through SOLVE without the *)
(* others; but each writes restart files of its own, at its own pace, and  *)
(* only the monitor writes output.  Fields are modelled by the clocks they *)
(* belong to.  Times are whole numbers of ticks of the namelist's choice.  *)
(***************************************************************************)
EXTENDS Integers, Sequences, FiniteSets, SequencesExt

CONSTANTS
  NProc,          \* rsl_nproc_all
  MaxNes,         \* MAXNES: the number of domains
  Namelists,      \* mmlif: see NamelistOK
  MaxStart,       \* bound: how often the program is started
  MaxLost         \* bound: how many restart files cannot be opened

VARIABLES
  nml,            \* the namelist; of it a restart changes TIMAX, IXTIMR, IACTIV
  starts, lost,   \* starts and lost restart files so far
  files,          \* ./restrts: the restart files of all processors
  tapes,          \* <<d, n, t>>: MMOUT file n of domain d has the output of t
  cut,            \* those of tapes of which a kill may have lost some or all
  job,            \* TIMAX, IFREST, IXTIMR and KTAUR of the coarse domain
  pc,             \* where mm5.F is, "down" when it does not run
  mem,            \* mem[p][d]: KTAU, XTIME and ITAPCNT of domain d on p
  active,         \* the domains with IACTIV = 1
  bdy,            \* TBDYBE and BDYTIM, and the next record of the file
  tap, sav,       \* TAPTIM, SAVTIM
  check, back,    \* the nest CHKNST is called for, and where it returns to
  frames,         \* the calls of NSTLEV1, NSTLEV2 .. in progress
  outs,           \* the domains that OUTPUT still has to write
  saving,         \* saving[p]: those p still has to write restart files of
  opened          \* the domains whose output unit is open

running == <<job, pc, mem, active, bdy, tap, sav, check, back, frames, outs, saving, opened>>
vars == <<nml, starts, lost, files, tapes, cut, running>>

Proc    == 0..(NProc - 1)
Monitor == 0
Dom     == 1..MaxNes
Nest    == 2..MaxNes

Nint(a, b) == (2 * a + b) \div (2 * b)     \* NINT(a / b)
Least(S) == CHOOSE x \in S : \A y \in S : x <= y
Upwards(t, step) == ((t + step - 1) \div step) * step

-------------------------------------------------------------------------------
(* The namelist *)

Step      == nml.step                      \* DTMIN of the coarse domain
Mother(d) == nml.mother[d]                 \* NUMNC
XStNes(d) == nml.start[d]
XEnNes(d) == nml.end[d]
Minutes(n) == n * nml.minute

\* IRAX = 3.
DtMin == LET dt[d \in Dom] == IF d = 1 THEN Step ELSE dt[Mother(d)] \div 3 IN dt

\* The records of BDYOUT_DOMAIN1 begin every BDYFRQ.
Begins(k) == nml.bdyfirst + k * nml.bdyfrq

\* The time INITSAV has when it goes on from files of time t.
Rounded(n, t) == Nint(t, n.minute) * n.minute
SavesAt(n, t) == \E k \in 1..t : Nint(k * n.savfrq, n.step) * n.step = t

\* What is assumed of it.  Ticks are small enough for the steps of all nests.
\* A nest lives while its mother does, and one in a nest begins after time 0:
\* the clock of a mother that a restart leaves out is 0, and such a nest would
\* begin again, without it.  The mother begins with a coarse step, since her
\* clock counts from XSTNES and nests in her begin and end by it.  No interval
\* is shorter than the coarse step, and restart files, which are named by whole
\* minutes, have names of their own.  INITSAV, which has the time in whole
\* minutes, takes no nest that goes on for one yet to begin, as it does in the
\* first minute of a nest, or for one that has ended.  With SVLAST, files of a
\* nest whose clock lags are of no time that is in other files.
NamelistOK(n) ==
  /\ {n.minute, n.step} \subseteq Nat \ {0}
  /\ \E dt \in [Dom -> 1..n.step] :
       dt[1] = n.step /\ \A d \in Nest : 3 * dt[d] = dt[n.mother[d]]
  /\ {n.tapfrq, n.savfrq, n.bdyfrq, n.bdys} \subseteq Nat /\ n.bdyfirst \in Int
  /\ n.tapfrq >= n.step /\ n.savfrq >= n.step + n.minute /\ n.bdyfrq >= n.step
  /\ \A d \in Nest :
       LET m == n.mother[d]
       IN /\ m \in 1..d - 1 /\ n.start[d] \in Nat /\ n.end[d] \in Nat
          /\ m > 1 => /\ n.start[d] > 0 /\ n.start[m] <= n.start[d] /\ n.end[d] <= n.end[m]
                      /\ n.start[m] % n.step = 0
          /\ n.start[d] <= n.end[d]
          /\ \A t \in (n.start[d] + 1)..(n.start[d] + 2 * n.minute) :
               SavesAt(n, t) => Rounded(n, t) > n.start[d] + n.minute
          /\ \A t \in (n.end[d] - n.minute)..(n.end[d] - 1) :
               SavesAt(n, t) => Rounded(n, t) < n.end[d]
          /\ n.svlast /\ n.start[d] % n.step # 0 => n.savfrq >= 2 * n.step + n.minute
  /\ n.inctap \in [Dom -> Nat \ {0}]
  /\ n.svlast \in BOOLEAN /\ n.timax \subseteq Nat \ {0}

ASSUME RunAssumption ==
  /\ NProc \in Nat \ {0} /\ MaxNes \in Nat \ {0}
  /\ MaxStart \in Nat /\ MaxLost \in Nat
  /\ \A n \in Namelists : NamelistOK(n)

-------------------------------------------------------------------------------
(* Clocks *)

Zero == [ktau |-> 0, xtime |-> 0, itap |-> 0]

XTime(d) == mem[Monitor][d].xtime
KTau(d)  == mem[Monitor][d].ktau
Clock    == XTime(1)

\* The end of SOLVE for domain d: KTAU=KTAU+1, XTIME=XSTNES+KTAU*DTMIN.
Solved(d) ==
  mem' = [p \in Proc |->
            [mem[p] EXCEPT ![d].ktau = @ + 1,
                           ![d].xtime = (IF d = 1 THEN 0 ELSE XStNes(d))
                                        + (mem[p][d].ktau + 1) * DtMin[d]]]

\* The first multiple of an interval that the coarse step has not reached
\* (init.F, initsav.F): TAPTIM and SAVTIM.
FirstAfter(frq, ktau) ==
  LET reached == {k \in 1..ktau * Step : Nint(k * frq, Step) <= ktau}
  IN frq * (Cardinality(reached) + 1)

-------------------------------------------------------------------------------
(* Boundary records: BDYIN *)

NoBdy == [tbdybe |-> 0, bdytim |-> 0, next |-> 0]

\* Mutant of BdyRecord: nothing is skipped at a restart.
BdyRecordNext(ktau, ktaur, xtime, next) == next

\* The number of the record BDYIN stops at: at the first step of a run those
\* that end before it are skipped.
BdyRecord(ktau, ktaur, xtime, next) ==
  IF ktau \in {0, ktaur}
  THEN Least({k \in next..nml.bdys :
                k = nml.bdys \/ ~ (Begins(k) < xtime /\ Begins(k + 1) <= xtime)})
  ELSE next

\* The end of the file (9010), or no record that begins with the model (9011).
BdyStops(k, xtime) == k >= nml.bdys \/ (xtime = 0 /\ Begins(k) # 0)
BdyRead(k) == [tbdybe |-> Begins(k), bdytim |-> Begins(k) + nml.bdyfrq, next |-> k + 1]

-------------------------------------------------------------------------------
(* Output: OUTTAP *)

TapeExists(d, n) == \E r \in tapes : r[1] = d /\ r[2] = n

\* Mutant of Suffix: a restart goes on with the file that was written last.
SuffixSame(d, count) == count

\* ITAPCNT when domain d is written: MMOUT_DOMAINd without a suffix, 0 here,
\* or in a restarted run the next one, and once more the next if that exists.
Suffix(d, count) ==
  IF d \in opened THEN count
  ELSE IF ~ job.ifrest THEN count
  ELSE IF TapeExists(d, count + 1) THEN count + 2 ELSE count + 1

\* The output of time t is written; a file that is opened loses what it had.
\* The unit stays open (BUFFRQ < TAPFRQ), and nothing is flushed.
OutTap(d, count, t) ==
  LET n == Suffix(d, count)
      Left(S) == IF d \in opened THEN S ELSE {r \in S : ~ (r[1] = d /\ r[2] = n)}
  IN /\ tapes' = Left(tapes) \union {<<d, n, t>>} /\ cut' = Left(cut)
     /\ opened' = opened \union {d}

\* The last output in its file.
EndOfFile(r) == \A q \in tapes : q[1] = r[1] /\ q[2] = r[2] => q[3] <= r[3]

-------------------------------------------------------------------------------
(* Starting *)

Dead ==
  [timax |-> 0, ifrest |-> FALSE, ixtimr |-> 0, ktaur |-> 0]

Init ==
  /\ nml \in Namelists
  /\ starts = 0 /\ lost = 0 /\ files = {} /\ tapes = {} /\ cut = {}
  /\ job = Dead /\ pc = "down"
  /\ mem = [p \in Proc |-> [d \in Dom |-> Zero]]
  /\ active = {} /\ bdy = NoBdy /\ tap = 0 /\ sav = 0
  /\ check = 2 /\ back = "loop" /\ frames = <<>>
  /\ outs = {} /\ saving = [p \in Proc |-> {}] /\ opened = {}

\* The processors are gone, with all they had in memory.
GoDown ==
  /\ job' = Dead /\ pc' = "down"
  /\ mem' = [p \in Proc |-> [d \in Dom |-> Zero]]
  /\ active' = {} /\ bdy' = NoBdy /\ tap' = 0 /\ sav' = 0
  /\ check' = 2 /\ back' = "loop" /\ frames' = <<>>
  /\ outs' = {} /\ saving' = [p \in Proc |-> {}] /\ opened' = {}

\* CHKNST is about to be called for all nests, and then the program goes on.
ChecksNests(next) == pc' = "check" /\ check' = 2 /\ back' = next

\* The IACTIV that a namelist may give: of a nest only with its mother.
Givens == {given \in SUBSET Nest : \A d \in given : Mother(d) \in given \union {1}}

\* IACTIV as INITSAV corrects it: given is what the namelist says.
Corrected(given, xtimr) ==
  {1} \union {d \in Nest :
                IF d \in given
                THEN ~ (xtimr < XStNes(d) \/ xtimr > XEnNes(d) + Minutes(10))
                ELSE xtimr > XStNes(d) + Minutes(1) /\ xtimr < XEnNes(d)}

\* The file p opens: the one of the time, or that of SVLAST, which is named 0.
Named(p, d, name) == {f \in files : f.p = p /\ f.d = d /\ f.name = name}
ToOpen(p, d, ixtimr) ==
  IF Named(p, d, ixtimr) # {} THEN Named(p, d, ixtimr) ELSE Named(p, d, 0)

\* Mutant of Readable: the time in the file is not looked at.
ReadableAny(p, d, ixtimr) == \E f \in ToOpen(p, d, ixtimr) : f.whole

\* SAVREAD gets to the end of it, and it is of the time asked for.
Readable(p, d, ixtimr) ==
  \E f \in ToOpen(p, d, ixtimr) : f.whole /\ Nint(f.mem.xtime, nml.minute) = ixtimr

\* The times of restart files, and whether the program can go on from one.
Saved == {Nint(f.mem.xtime, nml.minute) : f \in files} \ {0}
Restartable(ixtimr, given) ==
  \A p \in Proc : \A d \in Corrected(given, Minutes(ixtimr)) : Readable(p, d, ixtimr)
CanRestart(ixtimr) == \E given \in Givens : Restartable(ixtimr, given)

\* INIT: the first record of the boundaries, the first output, and the nests.
\* Starting with boundaries that BDYIN refuses changes nothing.  Whoever starts
\* the program begins anew only when there is nothing to go on from.
Start ==
  LET k == BdyRecord(0, 0, 0, 0)
  IN /\ pc = "down" /\ starts < MaxStart /\ starts' = starts + 1
     /\ ~ BdyStops(k, 0)
     /\ ~ \E ixtimr \in Saved : CanRestart(ixtimr)
     /\ \E t \in nml.timax : job' = [Dead EXCEPT !.timax = t]
     /\ bdy' = BdyRead(k)
     /\ active' = {1}
     /\ tapes' = {r \in tapes : ~ (r[1] = 1 /\ r[2] = 0)} \union {<<1, 0, 0>>}
     /\ cut' = {r \in cut : ~ (r[1] = 1 /\ r[2] = 0)}
     /\ opened' = {1}
     /\ tap' = FirstAfter(nml.tapfrq, 0) /\ sav' = FirstAfter(nml.savfrq, 0)
     /\ ChecksNests("loop")
     /\ UNCHANGED <<nml, lost, files, mem, frames, outs, saving>>

\* INITSAV: all domains that are active get what their files have.  If one
\* cannot be read the program stops, and nothing has changed.  Whoever starts
\* it goes on from the latest time there is.
Restart(ixtimr, given) ==
  LET on == Corrected(given, Minutes(ixtimr))
      Was(p, d) == (CHOOSE f \in ToOpen(p, d, ixtimr) : TRUE).mem
      ktau == Was(Monitor, 1).ktau
  IN /\ pc = "down" /\ starts < MaxStart /\ starts' = starts + 1
     /\ Restartable(ixtimr, given)
     /\ \E t \in nml.timax :
          /\ t > Minutes(ixtimr)
          /\ job' = [timax |-> t, ifrest |-> TRUE, ixtimr |-> ixtimr, ktaur |-> ktau]
     /\ mem' = [p \in Proc |-> [d \in Dom |-> IF d \in on THEN Was(p, d) ELSE Zero]]
     /\ active' = on
     /\ tap' = FirstAfter(nml.tapfrq, ktau) /\ sav' = FirstAfter(nml.savfrq, ktau)
     /\ IF Cardinality(on) < MaxNes
        THEN ChecksNests("loop") ELSE pc' = "loop" /\ UNCHANGED <<check, back>>
     /\ UNCHANGED <<nml, lost, files, tapes, cut, bdy, frames, outs, saving, opened>>

-------------------------------------------------------------------------------
(* One coarse step *)

\* XTIME+DTMIN.LT.TIMAX and XTIME.GE.BDYTIM: a record is due.
ReadBoundary ==
  LET due == Clock + Step < job.timax /\ Clock >= bdy.bdytim
      k == BdyRecord(KTau(1), job.ktaur, Clock, bdy.next)
  IN /\ pc = "loop"
     /\ IF due /\ BdyStops(k, Clock)
        THEN GoDown
        ELSE /\ bdy' = IF due THEN BdyRead(k) ELSE bdy
             /\ ChecksNests("solve")
             /\ UNCHANGED <<job, mem, active, tap, sav, frames, outs, saving, opened>>
     /\ UNCHANGED <<nml, starts, lost, files, tapes, cut>>

\* CHKNST for one nest, by the clock of its mother.
Ends(d)   == d \in active /\ XTime(Mother(d)) >= XEnNes(d)
Begun(d)  == d \notin active /\ XStNes(d) <= XTime(Mother(d)) /\ XTime(Mother(d)) < XEnNes(d)

NextCheck == IF check < MaxNes THEN check' = check + 1 /\ pc' = pc ELSE pc' = back /\ check' = 2

CheckSkips ==
  /\ pc = "check" /\ (check \in Nest => ~ Ends(check) /\ ~ Begun(check))
  /\ NextCheck
  /\ UNCHANGED <<nml, starts, lost, files, tapes, cut, job, mem, active, bdy, tap, sav, back,
                 frames, outs, saving, opened>>

\* The nest is switched off, with a last output unless one was just written.
Deactivate ==
  LET d == check  m == Mother(check)
      last == KTau(m) >= Nint(tap - nml.tapfrq + Minutes(5), DtMin[m])
  IN /\ pc = "check" /\ d \in Nest /\ Ends(d)
     /\ active' = active \ {d}
     /\ IF last
        THEN /\ OutTap(d, mem[Monitor][d].itap, XTime(d))
             /\ mem' = [mem EXCEPT ![Monitor][d].itap = Suffix(d, @)]
        ELSE UNCHANGED <<tapes, cut, opened, mem>>
     /\ NextCheck
     /\ UNCHANGED <<nml, starts, lost, files, job, bdy, tap, sav, back, frames, outs, saving>>

\* INITNEST, and the first output of the nest.
Activate ==
  LET d == check  m == Mother(check)
      itap == mem[Monitor][m].itap
  IN /\ pc = "check" /\ d \in Nest /\ Begun(d)
     /\ active' = active \union {d}
     /\ OutTap(d, itap, XTime(m))
     /\ mem' = [p \in Proc |->
                  [mem[p] EXCEPT ![d] =
                     [ktau |-> 0, xtime |-> mem[p][m].xtime,
                      itap |-> IF p = Monitor THEN Suffix(d, itap) ELSE mem[p][m].itap]]]
     /\ NextCheck
     /\ UNCHANGED <<nml, starts, lost, files, job, bdy, tap, sav, back, frames, outs, saving>>

\* The nests of m that take part in its step.
Children(m) == {d \in active \ {1} : Mother(d) = m}
Calls(m) == IF Children(m) = {} THEN <<>> ELSE <<[mother |-> m, nn |-> 1, last |-> 0]>>

\* SOLVE for the coarse domain, and NSTLEV1 is called if there are nests.
SolveCoarse ==
  /\ pc = "solve"
  /\ Solved(1)
  /\ frames' = Calls(1)
  /\ pc' = IF Calls(1) = <<>> THEN "end" ELSE "nests"
  /\ UNCHANGED <<nml, starts, lost, files, tapes, cut, job, active, bdy, tap, sav, check, back,
                 outs, saving, opened>>

Top     == frames[Len(frames)]
Waiting == {d \in Children(Top.mother) : d > Top.last}

\* SOLVE for the next nest of this call, and a call for the nests in it.
SolveNest ==
  LET d == Least(Waiting)
  IN /\ pc = "nests" /\ Waiting # {}
     /\ Solved(d)
     /\ frames' = [frames EXCEPT ![Len(frames)].last = d] \o Calls(d)
     /\ UNCHANGED <<nml, starts, lost, files, tapes, cut, job, pc, active, bdy, tap, sav, check,
                    back, outs, saving, opened>>

\* Mutant of NextTurn: the nests step four times.
NextTurnFour ==
  /\ pc = "nests" /\ Waiting = {} /\ Top.nn < 4
  /\ frames' = [frames EXCEPT ![Len(frames)].nn = @ + 1, ![Len(frames)].last = 0]
  /\ UNCHANGED <<nml, starts, lost, files, tapes, cut, job, pc, mem, active, bdy, tap, sav, check,
                 back, outs, saving, opened>>

\* DO 200 NN=1,IRAX
NextTurn ==
  /\ pc = "nests" /\ Waiting = {} /\ Top.nn < 3
  /\ frames' = [frames EXCEPT ![Len(frames)].nn = @ + 1, ![Len(frames)].last = 0]
  /\ UNCHANGED <<nml, starts, lost, files, tapes, cut, job, pc, mem, active, bdy, tap, sav, check,
                 back, outs, saving, opened>>

\* After the third turn FEEDBK gives the mother what the nests have.
FeedBack ==
  /\ pc = "nests" /\ Waiting = {} /\ Top.nn >= 3
  /\ frames' = Front(frames)
  /\ pc' = IF Len(frames) = 1 THEN "end" ELSE pc
  /\ UNCHANGED <<nml, starts, lost, files, tapes, cut, job, mem, active, bdy, tap, sav, check,
                 back, outs, saving, opened>>

-------------------------------------------------------------------------------
(* OUTPUT *)

\* What is due at the end of a step: output, for which the clocks of nests are
\* set to the coarse one, and restart files.
Output ==
  LET tapes_due == KTau(1) >= Nint(tap, Step)
      saves_due == KTau(1) >= Nint(sav, Step)
      now == {d \in active : tapes_due /\ Nint(Clock, nml.tapfrq) % nml.inctap[d] = 0}
  IN /\ pc = "end" /\ pc' = "output"
     /\ outs' = now
     /\ mem' = [p \in Proc |->
                  [d \in Dom |-> IF d \in now THEN [mem[p][d] EXCEPT !.xtime = mem[p][1].xtime]
                                              ELSE mem[p][d]]]
     /\ tap' = IF tapes_due THEN tap + nml.tapfrq ELSE tap
     /\ saving' = [p \in Proc |-> IF saves_due THEN active ELSE {}]
     /\ sav' = IF saves_due THEN sav + nml.savfrq ELSE sav
     /\ UNCHANGED <<nml, starts, lost, files, tapes, cut, job, active, bdy, check, back, frames,
                    opened>>

\* The monitor writes the output of one domain.
WriteOutput ==
  LET d == Least(outs)
  IN /\ pc = "output" /\ outs # {}
     /\ OutTap(d, mem[Monitor][d].itap, Clock)
     /\ mem' = [mem EXCEPT ![Monitor][d].itap = Suffix(d, @)]
     /\ outs' = outs \ {d}
     /\ UNCHANGED <<nml, starts, lost, files, job, pc, active, bdy, tap, sav, check, back,
                    frames, saving>>

\* Mutant of SaveName: there is one file for all times.
SaveNameLast == 0

\* The time in the name of a restart file.
SaveName == IF nml.svlast THEN 0 ELSE Nint(Clock, nml.minute)

Overwritten(p, d) == {f \in files : ~ (f.p = p /\ f.d = d /\ f.name = SaveName)}
SaveFile(p, d, whole) ==
  Overwritten(p, d) \union {[p |-> p, d |-> d, name |-> SaveName, whole |-> whole,
                             mem |-> IF whole THEN mem[p][d] ELSE Zero]}

\* p writes the restart file of its next domain.  When the file cannot be
\* opened the model continues.  The monitor has written the output by then.
Save(p) ==
  LET d == Least(saving[p])
  IN /\ pc = "output" /\ saving[p] # {} /\ (p = Monitor => outs = {})
     /\ saving' = [saving EXCEPT ![p] = @ \ {d}]
     /\ \/ files' = SaveFile(p, d, TRUE) /\ lost' = lost
        \/ lost < MaxLost /\ lost' = lost + 1 /\ files' = files
     /\ UNCHANGED <<nml, starts, tapes, cut, job, pc, mem, active, bdy, tap, sav, check, back,
                    frames, outs, opened>>

\* IF(XTIME.LT.TIMAX)GOTO 10, or the program ends.
NextStep ==
  /\ pc = "output" /\ outs = {} /\ \A p \in Proc : saving[p] = {}
  /\ IF Clock < job.timax
     THEN /\ pc' = "loop"
          /\ UNCHANGED <<job, mem, active, bdy, tap, sav, check, back, frames, outs, saving,
                         opened>>
     ELSE GoDown
  /\ UNCHANGED <<nml, starts, lost, files, tapes, cut>>

\* The processors are killed; each may have begun a file.  What the monitor's
\* open units had not yet passed on is lost: less than an output is long, so of
\* the last in each file, which it may just have been writing.
Crash ==
  /\ pc # "down"
  /\ \E torn \in SUBSET {p \in Proc : saving[p] # {}} :
       files' = {f \in files : ~ \E p \in torn : f.p = p /\ f.d = Least(saving[p])
                                                /\ f.name = SaveName}
                \union {[p |-> p, d |-> Least(saving[p]), name |-> SaveName, whole |-> FALSE,
                         mem |-> Zero] : p \in torn}
  /\ cut' = cut \union {r \in tapes : /\ r[1] \in opened /\ EndOfFile(r)
                                      /\ r[2] = mem[Monitor][r[1]].itap}
  /\ GoDown
  /\ UNCHANGED <<nml, starts, lost, tapes>>

\* Nobody starts it any more.
Over == pc = "down" /\ UNCHANGED vars

RestartAny ==
  \E ixtimr \in Saved, given \in Givens :
    /\ \A later \in Saved : later > ixtimr => ~ CanRestart(later)
    /\ Restart(ixtimr, given)

Next == \/ Start \/ RestartAny \/ ReadBoundary
        \/ CheckSkips \/ Deactivate \/ Activate
        \/ SolveCoarse \/ SolveNest \/ NextTurn \/ FeedBack
        \/ Output \/ WriteOutput \/ (\E p \in Proc : Save(p)) \/ NextStep
        \/ Crash \/ Over

Spec == Init /\ [][Next]_vars

-------------------------------------------------------------------------------
(* Properties *)

\* The state is as declared; nests take three turns, and only in calls.
TypeOK ==
  /\ nml \in Namelists /\ starts \in 0..MaxStart /\ lost \in 0..MaxLost
  /\ \A f \in files : f.p \in Proc /\ f.d \in Dom /\ f.name \in Nat /\ f.whole \in BOOLEAN
  /\ \A r \in tapes : r[1] \in Dom /\ r[2] \in Nat /\ r[3] \in Nat
  /\ cut \subseteq tapes
  /\ pc \in {"down", "loop", "check", "solve", "nests", "end", "output"}
  /\ active \subseteq Dom /\ outs \subseteq active /\ opened \subseteq Dom
  /\ check \in 2..(MaxNes + 1) /\ back \in {"loop", "solve"}
  /\ \A i \in 1..Len(frames) : frames[i].mother \in active /\ frames[i].nn \in 1..3
  /\ frames # <<>> <=> pc = "nests"
  /\ \A p \in Proc : saving[p] \subseteq active

\* When a nest begins and ends: at the first coarse step of its namelist times.
ActTime(d)   == IF d = 1 THEN 0 ELSE Upwards(XStNes(d), Step)
DeactTime(d) == Upwards(XEnNes(d), Step)

\* The time of the fields of domain d, which the number of its steps tells.
Reckoned(p, d) == ActTime(d) + mem[p][d].ktau * DtMin[d]
InCall(m)  == {i \in 1..Len(frames) : frames[i].mother = m}
Expected(p, d) ==
  LET m == Mother(d)
  IN IF InCall(m) = {} THEN Reckoned(p, m)
     ELSE LET f == frames[CHOOSE i \in InCall(m) : TRUE]
              turns == IF d <= f.last THEN f.nn ELSE f.nn - 1
          IN Reckoned(p, m) - DtMin[m] + turns * DtMin[d]

\* The fields of all domains and processors are always of times that go
\* together, also after a restart from files written at different times and by
\* different runs: every processor is at the same coarse step, a nest has made
\* as many of its steps as its mother's call says, and the nests that take
\* part in a coarse step are those the namelist has at that time.
AllInStep ==
  pc # "down" =>
    /\ \A p \in Proc : Reckoned(p, 1) = Clock
    /\ \A p \in Proc : \A d \in active \ {1} : Reckoned(p, d) = Expected(p, d)
    /\ pc = "solve" =>
         active = {1} \union {d \in Nest : ActTime(d) <= Clock /\ Clock < DeactTime(d)}

\* SOLVE never runs with boundary tendencies of another period: the record in
\* force is that of the time of the step, but for the last step of a run,
\* which reads none and may go on with the one of the step before.
BoundaryInForce ==
  pc = "solve" =>
    IF Clock + Step < job.timax
    THEN bdy.tbdybe <= Clock /\ Clock < bdy.bdytim
    ELSE KTau(1) > job.ktaur => bdy.tbdybe < Clock /\ Clock - Step < bdy.bdytim

\* The times at which domain d gives output: when it begins, and after that
\* every INCTAP'th multiple of TAPFRQ up to its end.
OutputTimes(d) ==
  {t \in {ActTime(d)} : d = 1 \/ t < DeactTime(d)} \union
  {t \in {Nint(k * nml.tapfrq, Step) * Step : k \in {k \in 1..Clock : k % nml.inctap[d] = 0}} :
     ActTime(d) < t /\ (d = 1 \/ t <= DeactTime(d))}

\* What restarts lose of the output is at most what a file ends with: whatever
\* the files of earlier runs are called and wherever they were killed, each output
\* that was due by now is in some file, and whole unless it is the last in it and
\* the run was killed before the unit was closed, as OUTTAP leaves it open and
\* unflushed (outtap.F:1656-1665).  A restart from files of a later time does not write
\* that output again.
\* All this is not so where a run goes on from a restart file that an earlier one
\* left at the same time: such files differ in ITAPCNT, and a file that could not
\* be opened may be one, as may with SVLAST that of a nest that had begun in an
\* earlier run and has in this.  And the output of a time of restart files is lost
\* when the monitor has such a file and is killed before it writes that output,
\* after all others have saved.
OutputsKept ==
  pc = "solve" /\ lost = 0 =>
    \A d \in IF nml.svlast THEN {1} ELSE Dom : \A t \in OutputTimes(d) :
      t <= Clock /\ ~ SavesAt(nml, t) =>
        \E r \in tapes : r[1] = d /\ r[3] = t /\ (r \in cut => EndOfFile(r))

\* The output that falls due while a run lasts is written, and nothing of it is
\* lost yet, without exception.
OutputsOfTheRun ==
  pc = "solve" =>
    \A d \in Dom : \A t \in OutputTimes(d) :
      t <= Clock /\ (job.ifrest => t > job.ktaur * Step) =>
        \E r \in tapes \ cut : r[1] = d /\ r[3] = t

\* What a run was restarted from is not damaged by it, even if it is killed in
\* the middle of writing the next restart files, unless SVLAST is set.
WayBack ==
  [][pc # "down" /\ job.ifrest /\ ~ nml.svlast =>
       \A ixtimr \in {job.ixtimr} : CanRestart(ixtimr)']_vars
===============================================================================
