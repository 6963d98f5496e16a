-------------------------- MODULE RealtimeRunProofs --------------------------
(***************************************************************************)
(* What run_realtime.py guarantees for any number of cycles, any length of *)
(* forecast and any number of failures.                                    *)
(*                                                                         *)
(* MM5's input is right for one of two reasons.  As long as nothing but    *)
(* kills goes wrong, and the converted files of this cycle are whole,      *)
(* every step of a run makes its files anew (Orderly).  As long as no run  *)
(* has been killed, no step finds a file it could take for the right one   *)
(* (Unkilled): pregrid's files are all of this run, an old REGRID_DOMAIN1  *)
(* lacks this run's last time, and without that time LOWBDY_DOMAIN1 is not *)
(* written.                                                                *)
(***************************************************************************)
EXTENDS RealtimeRun, FiniteSetTheorems, TLAPS

-------------------------------------------------------------------------------
(* The inductive invariants *)

\* The loops of dl_ncep and of the check are inside their bounds.
LoopsInBounds == /\ step = "dl_ncep" => at \in 0..Span
                 /\ step = "check" => at \in 1..3

\* A file with all times, of this run's cycle; fields are missing in it only
\* if they are in what was downloaded.
Right(file) ==
  file \in [Times(run) -> {d \in Data : d.of = run /\ (d.whole \/ Lacks(run))}]

\* The order in which the check looks at the files.
Checked == <<"BDYOUT", "MMINPUT", "LOWBDY">>

\* The check has moved some complete files and will find the others.
AllComplete == /\ \A i \in 1..3 : i < at => Right(inp[Checked[i]])
               /\ \A i \in 1..3 : i >= at => Right(out[Checked[i]])

Ready == \A f \in Input : Right(inp[f])

\* Only kills have gone wrong so far, and the forecast has been fetched.
Orderly ==
  kills = faults /\ Fetched(run) =>
    /\ step = "regridder" => \A t \in Times(run) : fg[t] = [of |-> run, whole |-> TRUE]
    /\ step \in {"remove_files", "interpf"} => Right(regrid)
    /\ step = "check" => AllComplete
    /\ step \in {"unlink", "run_mm5"} => Ready

\* The first n times of cycle d, of which some run up to this one is a run.
Part(file, d, n) ==
  file \in [d..(d + n - 1) -> {x \in Data : x.of = d /\ (x.whole \/ Lacks(d))}]
OfOneRun(file) == \E d \in Cycle : \E n \in 1..(Span + 1) : d <= run /\ Part(file, d, n)

\* No run has been killed so far.
Unkilled ==
  kills = 0 =>
    /\ step = "regridder" =>
         \A t \in Time : fg[t] = NoFile \/ (fg[t].of = run /\ (fg[t].whole \/ Lacks(run)))
    /\ step \notin {"regridder", "remove_files"} => \A t \in Time : fg[t] = NoFile
    /\ regrid = NoFile \/ OfOneRun(regrid)
    /\ step \in {"run_mm5", "archiver", "cleanup"} => regrid = NoFile
    /\ out["LOWBDY"] \in {NoFile, Empty} \/ (step = "check" /\ AllComplete)
    /\ step \in {"unlink", "run_mm5"} => Ready

\* Archives that are wrong, and the cycle whose archive is about to be.
Wrong == {c \in Cycle : nc[c] \notin {NoFile, [of |-> c, whole |-> TRUE]}}
Pending == {c \in Cycle : /\ step = "archiver" /\ c = run
                          /\ mmout \notin {NoFile, [of |-> c, whole |-> TRUE]}}
FaultsCover == Cardinality(Wrong \union Pending) <= faults

TInv == TypeOK /\ LoopsInBounds

-------------------------------------------------------------------------------
(* How many times from the start of a run a file has *)

LEMMA ConsecutiveFacts ==
  ASSUME run \in Cycle, NEW S
  PROVE  /\ Consecutive(S) \in 0..(Span + 1)
         /\ \A n \in 0..Consecutive(S) : run..(run + n - 1) \subseteq S
         /\ Times(run) \subseteq S => Consecutive(S) = Span + 1
<1> DEFINE D == {t \in Times(run) : run..t \subseteq S}
<1>1. run \in Int /\ Span \in Nat
  BY RealtimeAssumption DEF Cycle
<1>2. IsFiniteSet(Times(run)) /\ Cardinality(Times(run)) = Span + 1
  BY <1>1, FS_Interval DEF Times
<1>3. IsFiniteSet(D) /\ Cardinality(D) \in 0..(Span + 1)
  BY <1>1, <1>2, FS_Subset, FS_CardinalityType
<1>4. ASSUME NEW n \in 1..Cardinality(D)
      PROVE  run..(run + n - 1) \subseteq S
  <2>1. run + n - 1 \in Times(run)
    BY <1>1, <1>3, <1>4 DEF Times
  <2>2. SUFFICES ASSUME run + n - 1 \notin D
                 PROVE  FALSE
    BY <2>1
  <2>3. ASSUME NEW t \in D
        PROVE  t \in run..(run + n - 2)
    <3>1. t \in Int /\ run <= t /\ run..t \subseteq S
      BY <1>1, <2>3 DEF Times
    <3>2. ~ (run + n - 1 <= t)
      <4>1. SUFFICES ASSUME run + n - 1 <= t
                     PROVE  FALSE
        OBVIOUS
      <4>2. run..(run + n - 1) \subseteq run..t
        BY <1>1, <3>1, <4>1
      <4> QED BY <2>1, <2>2, <3>1, <4>2
    <3> QED BY <1>1, <1>3, <3>1, <3>2
  <2>4. IsFiniteSet(run..(run + n - 2)) /\ Cardinality(run..(run + n - 2)) = n - 1
    <3>1. PICK last : last = run + n - 2
      OBVIOUS
    <3>2. last \in Int /\ last - run + 1 = n - 1 /\ (run > last => n - 1 = 0)
      BY <1>1, <1>3, <3>1
    <3>3. IsFiniteSet(run..last) /\ Cardinality(run..last) = IF run > last THEN 0 ELSE last - run + 1
      BY <1>1, <3>2, FS_Interval
    <3> QED BY <3>1, <3>2, <3>3
  <2>5. Cardinality(D) <= n - 1
    <3>1. D \subseteq run..(run + n - 2)
      BY <2>3
    <3> HIDE DEF D
    <3> QED BY <2>4, <3>1, FS_Subset
  <2> QED BY <1>3, <2>5
<1>5. \A n \in 0..Cardinality(D) : run..(run + n - 1) \subseteq S
  BY <1>1, <1>3, <1>4
<1>6. ASSUME Times(run) \subseteq S
      PROVE  D = Times(run)
  BY <1>1, <1>6 DEF Times
<1>7. Consecutive(S) = Cardinality(D)
  BY DEF Consecutive
<1> HIDE DEF D
<1> QED BY <1>2, <1>3, <1>5, <1>6, <1>7

-------------------------------------------------------------------------------
(* Types *)

\* The files interpf leaves: what it read, nothing, or what was there.
LEMMA WrittenIsData ==
  ASSUME NEW old, IsData(old), NEW data, IsData(data)
  PROVE  IsData(Written(old, data))
BY DEF IsData, Written, Empty

LEMMA FirstTimesIsData ==
  ASSUME TInv, run \in Cycle, regrid # NoFile,
         NEW n \in Int, n <= Consecutive(DOMAIN regrid)
  PROVE  IsData(FirstTimes(n))
<1>1. run \in Int /\ Span \in Nat
  BY RealtimeAssumption DEF Cycle
<1>2. run..(run + n - 1) \subseteq DOMAIN regrid
  <2>1. CASE n >= 0
    <3>1. n \in 0..Consecutive(DOMAIN regrid)
      BY <2>1, ConsecutiveFacts
    <3> QED BY <3>1, ConsecutiveFacts
  <2>2. CASE n < 0
    BY <1>1, <2>2
  <2> QED BY <2>1, <2>2
<1>3. DOMAIN regrid \subseteq Time /\ \A t \in DOMAIN regrid : regrid[t] \in Data
  BY DEF TInv, TypeOK, IsData
<1> QED BY <1>2, <1>3 DEF FirstTimes, IsData

LEMMA TypeInit == Init => TInv
BY RealtimeAssumption DEF Init, TInv, TypeOK, LoopsInBounds, IsData, Cycle, Time, Input

LEMMA TypeNext ==
  ASSUME TInv, [Next]_vars
  PROVE  TInv'
<1> USE DEF TInv, TypeOK, LoopsInBounds
<1>0. /\ NCycle \in Nat \ {0} /\ Span \in Nat /\ MaxFaults \in Nat
      /\ Cycle \subseteq Int /\ Cycle \subseteq Time
  BY RealtimeAssumption DEF Cycle, Time
<1>k. (NoFault \/ Fault \/ Killed) => faults' \in 0..MaxFaults /\ kills' \in 0..faults'
  BY <1>0 DEF NoFault, Fault, Killed
<1>s. /\ \A x : Goes(x) => NoFault /\ step' = x
      /\ \A x : Fails(x) => (Fault \/ Killed) /\ step' \in {x, "idle"}
      /\ Killed => step' = "idle"
  BY DEF Goes, Fails, Killed
<1>1. ASSUME NEW c \in Cycle, StartRun(c)
      PROVE  TInv'
  BY <1>0, <1>1 DEF StartRun, IsData
<1>2. CASE DlNcep
  <2>1. grib' \in [Cycle -> [0..Span -> {"none", "whole", "part", "bad"}]]
    <3>1. CASE grib' = grib
      BY <3>1
    <3>2. ASSUME NEW left \in {"none", "whole", "part", "bad"},
                 grib' = [grib EXCEPT ![run][at] = left]
          PROVE  grib' \in [Cycle -> [0..Span -> {"none", "whole", "part", "bad"}]]
      BY <3>2
    <3> QED BY <1>2, <3>1, <3>2 DEF DlNcep
  <2>2. (NoFault \/ Fault \/ Killed) /\ step' \in {"idle", "dl_ncep", "pregrid"}
    BY <1>2, <1>s DEF DlNcep
  <2>3. step' = "dl_ncep" => at < Span
    BY <1>2, <1>s DEF DlNcep
  <2>4. /\ at \in 0..Span /\ at' = at + 1 /\ run \in Cycle
        /\ UNCHANGED <<run, fg, regrid, out, inp, mmout, nc>>
    BY <1>2 DEF DlNcep
  <2>5. at' \in 0..(Span + 4) /\ (step' = "dl_ncep" => at' \in 0..Span)
    BY <1>0, <2>3, <2>4
  <2> QED BY <1>k, <2>1, <2>2, <2>4, <2>5 DEF IsData
<1>3. CASE Pregrid
  <2>1. run \in Cycle /\ UNCHANGED <<run, at, grib, regrid, out, inp, mmout, nc>>
    BY <1>3 DEF Pregrid
  <2>2. fg' \in [Time -> Data \union {NoFile}]
    <3>1. PICK made : fg' = [t \in Time |->
            IF t \in made
              THEN [of |-> run, whole |-> \A s \in Sources(t) : grib[run][s - run] = "whole"]
              ELSE fg[t]]
      BY <1>3 DEF Pregrid
    <3>2. \A t : [of |-> run, whole |-> \A s \in Sources(t) : grib[run][s - run] = "whole"] \in Data
      BY <2>1 DEF Data
    <3> QED BY <3>1, <3>2
  <2>3. (NoFault \/ Fault \/ Killed) /\ step' \in {"idle", "regridder"}
    BY <1>3, <1>s DEF Pregrid
  <2> QED BY <1>k, <2>1, <2>2, <2>3 DEF IsData
<1>4. CASE Regridder
  <2>1. run \in Cycle /\ UNCHANGED <<run, at, grib, fg, out, inp, mmout, nc>>
    BY <1>4 DEF Regridder
  <2>2. (NoFault \/ Fault \/ Killed) /\ step' \in {"idle", "remove_files"}
    BY <1>4, <1>s DEF Regridder
  <2>3. IsData(regrid')
    <3> DEFINE S == {t \in Time : fg[t] # NoFile}
    <3>1. PICK n \in 0..Consecutive(S) :
            regrid' = IF n = 0 THEN regrid ELSE [t \in run..(run + n - 1) |-> fg[t]]
      BY <1>4 DEF Regridder
    <3>2. run..(run + n - 1) \subseteq S
      BY <2>1, ConsecutiveFacts
    <3>3. \A t \in S : t \in Time /\ fg[t] \in Data
      OBVIOUS
    <3> HIDE DEF S
    <3> QED BY <3>1, <3>2, <3>3 DEF IsData
  <2> QED BY <1>k, <2>1, <2>2, <2>3
<1>5. CASE RemoveFiles
  <2>1. /\ fg' \in [Time -> Data \union {NoFile}]
        /\ (NoFault \/ Killed) /\ step' \in {"idle", "interpf"} /\ run \in Cycle
        /\ UNCHANGED <<run, at, grib, regrid, out, inp, mmout, nc>>
    BY <1>5, <1>s DEF RemoveFiles
  <2> QED BY <1>k, <2>1 DEF IsData
<1>6. CASE InterpfProgram
  <2>1. run \in Cycle /\ at' = 1 /\ UNCHANGED <<run, grib, fg, regrid, inp, mmout, nc>>
    BY <1>6 DEF InterpfProgram
  <2>2. (NoFault \/ Fault \/ Killed) /\ step' \in {"idle", "check"}
    BY <1>6, <1>s DEF InterpfProgram
  <2>3. DOMAIN out' = Input /\ \A f \in Input : IsData(out'[f])
    <3>1. CASE out' = out
      BY <3>1
    <3>2. CASE /\ regrid # NoFile
               /\ \E n \in 0..Consecutive(DOMAIN regrid) : \E b \in {n, n - 1} : \E l \in {0, n} :
                    out' = [MMINPUT |-> Written(out["MMINPUT"], FirstTimes(n)),
                            BDYOUT  |-> Written(out["BDYOUT"], FirstTimes(b)),
                            LOWBDY  |-> Written(out["LOWBDY"], FirstTimes(l))]
      <4>0. Consecutive(DOMAIN regrid) \in 0..(Span + 1)
        BY <2>1, ConsecutiveFacts
      <4>1. \A n \in 0..Consecutive(DOMAIN regrid) : \A b \in {n, n - 1} : \A l \in {0, n} :
              /\ n \in Int /\ b \in Int /\ l \in Int
              /\ n <= Consecutive(DOMAIN regrid) /\ b <= Consecutive(DOMAIN regrid)
              /\ l <= Consecutive(DOMAIN regrid)
        BY <1>0, <4>0
      <4>2. PICK n, b, l \in Int :
              /\ n <= Consecutive(DOMAIN regrid) /\ b <= Consecutive(DOMAIN regrid)
              /\ l <= Consecutive(DOMAIN regrid)
              /\ out' = [MMINPUT |-> Written(out["MMINPUT"], FirstTimes(n)),
                         BDYOUT  |-> Written(out["BDYOUT"], FirstTimes(b)),
                         LOWBDY  |-> Written(out["LOWBDY"], FirstTimes(l))]
        BY <3>2, <4>1
      <4>3. IsData(FirstTimes(n)) /\ IsData(FirstTimes(b)) /\ IsData(FirstTimes(l))
        BY <2>1, <3>2, <4>2, FirstTimesIsData
      <4>4. IsData(out["MMINPUT"]) /\ IsData(out["BDYOUT"]) /\ IsData(out["LOWBDY"])
        BY DEF Input
      <4>5. /\ IsData(Written(out["MMINPUT"], FirstTimes(n)))
            /\ IsData(Written(out["BDYOUT"], FirstTimes(b)))
            /\ IsData(Written(out["LOWBDY"], FirstTimes(l)))
        BY <4>3, <4>4, WrittenIsData
      <4> QED BY <4>2, <4>5 DEF Input
    <3> QED BY <1>6, <3>1, <3>2 DEF InterpfProgram
  <2> QED BY <1>0, <1>k, <2>1, <2>2, <2>3
<1>7. CASE CheckAndMove
  <2>1. at \in 1..3
    BY <1>7 DEF CheckAndMove
  <2>2. Checked[at] \in Input
    BY <2>1 DEF Checked, Input
  <2>3. /\ DOMAIN out' = Input /\ \A f \in Input : IsData(out'[f])
        /\ DOMAIN inp' = Input /\ \A f \in Input : IsData(inp'[f])
    <3>1. CASE out' = out /\ inp' = inp
      BY <3>1
    <3>2. CASE /\ inp' = [inp EXCEPT ![Checked[at]] = out[Checked[at]]]
               /\ out' = [out EXCEPT ![Checked[at]] = NoFile]
      BY <2>2, <3>2 DEF IsData
    <3> QED BY <1>7, <3>1, <3>2 DEF CheckAndMove, Checked
  <2>4. /\ at' \in 0..(Span + 4) /\ step' \in {"idle", "unlink", "check"}
        /\ (step' = "check" => at' \in 1..3)
    BY <1>0, <1>7, <2>1 DEF CheckAndMove
  <2>5. UNCHANGED <<run, grib, fg, regrid, mmout, nc, faults, kills>> /\ run \in Cycle
    BY <1>7 DEF CheckAndMove
  <2> QED BY <2>3, <2>4, <2>5
<1>8. CASE UnlinkRegrid
  BY <1>8 DEF UnlinkRegrid, IsData
<1>9. CASE RunMM5
  <2>1. run \in Cycle /\ UNCHANGED <<run, at, grib, fg, regrid, out, inp, nc>>
    BY <1>9 DEF RunMM5
  <2>2. (NoFault \/ Fault \/ Killed) /\ step' \in {"idle", "archiver"}
    BY <1>9, <1>s DEF RunMM5
  <2>3. mmout' \in Data \union {NoFile}
    <3>1. \A b \in BOOLEAN : [of |-> run, whole |-> b] \in Data
      BY <2>1 DEF Data
    <3> QED BY <1>9, <3>1 DEF RunMM5
  <2> QED BY <1>k, <2>1, <2>2, <2>3 DEF IsData
<1>10. CASE Archiver
  <2>1. run \in Cycle /\ UNCHANGED <<run, at, grib, fg, regrid, out, inp, mmout>>
    BY <1>10 DEF Archiver
  <2>2. (NoFault \/ Fault \/ Killed) /\ step' \in {"idle", "cleanup"}
    BY <1>10, <1>s DEF Archiver
  <2>3. nc' \in [Cycle -> Data \union {NoFile}]
    <3>1. mmout # NoFile => [mmout EXCEPT !.whole = FALSE] \in Data
      BY DEF Data
    <3>2. ASSUME NEW archive \in Data \union {NoFile}, NEW gone,
                 nc' = [c \in Cycle |-> IF c = run THEN archive
                                        ELSE IF c \in gone THEN NoFile ELSE nc[c]]
          PROVE  nc' \in [Cycle -> Data \union {NoFile}]
      BY <3>2
    <3>3. mmout \in Data \union {NoFile} /\ nc[run] \in Data \union {NoFile}
      BY <2>1
    <3> DEFINE Leaves(archive, gone) ==
                 nc' = [c \in Cycle |-> IF c = run THEN archive ELSE IF c \in gone THEN NoFile ELSE nc[c]]
    <3>7. CASE mmout = NoFile
      <4>1. \E gone : Leaves(nc[run], gone)
        <5>1. \/ Leaves(nc[run], {run - 3, run - 4}) \/ Leaves(nc[run], {run - 3})
              \/ \E c \in {nc[run]} : Leaves(c, {run - 3, run - 4})
              \/ \E c \in {nc[run]} : Leaves(c, {})
          BY <1>10, <3>7 DEF Archiver
        <5> HIDE DEF Leaves
        <5> QED BY <5>1
      <4> QED BY <3>2, <3>3, <4>1
    <3>8. CASE mmout # NoFile
      <4>1. \E archive \in {mmout, nc[run], [mmout EXCEPT !.whole = FALSE]} : \E gone : Leaves(archive, gone)
        <5>1. \/ Leaves(mmout, {run - 3, run - 4}) \/ Leaves(mmout, {run - 3})
              \/ \E c \in {nc[run], [mmout EXCEPT !.whole = FALSE]} : Leaves(c, {run - 3, run - 4})
              \/ \E c \in {nc[run], [mmout EXCEPT !.whole = FALSE], mmout} : Leaves(c, {})
          BY <1>10, <3>8 DEF Archiver
        <5> HIDE DEF Leaves
        <5> QED BY <5>1
      <4>2. PICK archive \in {mmout, nc[run], [mmout EXCEPT !.whole = FALSE]} : \E gone : Leaves(archive, gone)
        BY <4>1
      <4>3. archive \in Data \union {NoFile}
        BY <3>1, <3>3, <3>8, <4>2
      <4> QED BY <3>2, <4>2, <4>3
    <3> QED BY <3>7, <3>8
  <2> QED BY <1>k, <2>1, <2>2, <2>3 DEF IsData
<1>11. CASE Cleanup
  <2>1. /\ (NoFault \/ Fault \/ Killed) /\ step' = "idle" /\ run \in Cycle
        /\ UNCHANGED <<run, at, fg, regrid, out, inp, mmout, nc>>
    BY <1>11, <1>s DEF Cleanup
  <2>2. grib' \in [Cycle -> [0..Span -> {"none", "whole", "part", "bad"}]]
    <3>1. PICK gone : grib' = [grib EXCEPT ![run] = [h \in 0..Span |->
                                IF h \in gone THEN "none" ELSE grib[run][h]]]
      BY <1>11 DEF Cleanup
    <3>2. [h \in 0..Span |-> IF h \in gone THEN "none" ELSE grib[run][h]]
            \in [0..Span -> {"none", "whole", "part", "bad"}]
      BY <2>1
    <3> QED BY <3>1, <3>2
  <2> QED BY <1>k, <2>1, <2>2 DEF IsData
<1>12. CASE Crash
  BY <1>0, <1>k, <1>12 DEF Crash, Killed, IsData
<1>13. CASE UNCHANGED vars
  BY <1>13 DEF vars, IsData
<1> QED BY <1>1, <1>2, <1>3, <1>4, <1>5, <1>6, <1>7, <1>8, <1>9, <1>10, <1>11, <1>12, <1>13 DEF Next

-------------------------------------------------------------------------------
(* The interpf program and the check, on a complete file *)

LEMMA RightIsFile ==
  ASSUME run \in Cycle
  PROVE  /\ Times(run) \subseteq Time /\ run \in Times(run)
         /\ \A file : Right(file) => /\ file \notin {NoFile, Empty} /\ DOMAIN file = Times(run)
                                     /\ \A t \in Times(run) : /\ file[t].of = run
                                                              /\ file[t].whole \/ Lacks(run)
<1>1. run \in 0..(NCycle - 1) /\ NCycle \in Nat /\ Span \in Nat
  BY RealtimeAssumption DEF Cycle
<1>2. Times(run) \subseteq Time /\ run \in Times(run)
  BY <1>1 DEF Times, Time
<1> QED
  <2> DEFINE R == {d \in Data : d.of = run /\ (d.whole \/ Lacks(run))}
  <2>1. SUFFICES ASSUME NEW file, file \in [Times(run) -> R]
                 PROVE  /\ file \notin {NoFile, Empty} /\ DOMAIN file = Times(run)
                        /\ \A t \in Times(run) : file[t].of = run /\ (file[t].whole \/ Lacks(run))
    BY <1>2 DEF Right
  <2>2. file \in [Times(run) -> Data]
    BY <2>1
  <2>3. file # NoFile
    BY <1>2, <2>2, NoFileAssumption
  <2>4. DOMAIN file = Times(run) /\ DOMAIN Empty = {}
    BY <2>1 DEF Empty
  <2> QED BY <1>2, <2>1, <2>3, <2>4

\* What interpf leaves: a lower boundary only of all the times of this run,
\* and then all three files of them.
LEMMA InterpfLeaves ==
  ASSUME TInv, InterpfProgram
  PROVE  \/ regrid = NoFile /\ out' = out
         \/ /\ regrid # NoFile /\ out'["LOWBDY"] = Written(out["LOWBDY"], FirstTimes(0))
            /\ \/ faults' # faults \/ Consecutive(DOMAIN regrid) # Span + 1
               \/ \E n \in 0..(Consecutive(DOMAIN regrid) - 1) : ~ regrid[run + n].whole
         \/ /\ regrid # NoFile /\ Consecutive(DOMAIN regrid) = Span + 1
            /\ out' = [MMINPUT |-> Written(out["MMINPUT"], FirstTimes(Span + 1)),
                       BDYOUT  |-> Written(out["BDYOUT"], FirstTimes(Span + 1)),
                       LOWBDY  |-> Written(out["LOWBDY"], FirstTimes(Span + 1))]
<1>1. run \in Cycle /\ Span \in Nat /\ faults \in Nat
  BY RealtimeAssumption DEF TInv, TypeOK, InterpfProgram
<1>2. Consecutive(DOMAIN regrid) \in 0..(Span + 1)
  BY <1>1, ConsecutiveFacts
<1>3. Fails("check") => faults' # faults
  BY <1>1 DEF Fails, Fault, Killed
<1>4. CASE regrid = NoFile
  BY <1>4 DEF InterpfProgram
<1>5. CASE regrid # NoFile
  <2>1. PICK n \in 0..Consecutive(DOMAIN regrid) : \E b \in {n, n - 1} : \E l \in {0, n} :
          /\ \/ n = Consecutive(DOMAIN regrid) /\ b = n
                /\ l = (IF Consecutive(DOMAIN regrid) = Span + 1 THEN n ELSE 0) /\ Goes("check")
             \/ n < Consecutive(DOMAIN regrid) /\ l = 0 /\ ~ regrid[run + n].whole /\ Goes("check")
             \/ l = 0 /\ Fails("check")
          /\ out' = [MMINPUT |-> Written(out["MMINPUT"], FirstTimes(n)),
                     BDYOUT  |-> Written(out["BDYOUT"], FirstTimes(b)),
                     LOWBDY  |-> Written(out["LOWBDY"], FirstTimes(l))]
    BY <1>5 DEF InterpfProgram
  <2>2. PICK b \in {n, n - 1} : \E l \in {0, n} :
          /\ \/ n = Consecutive(DOMAIN regrid) /\ b = n
                /\ l = (IF Consecutive(DOMAIN regrid) = Span + 1 THEN n ELSE 0) /\ Goes("check")
             \/ n < Consecutive(DOMAIN regrid) /\ l = 0 /\ ~ regrid[run + n].whole /\ Goes("check")
             \/ l = 0 /\ Fails("check")
          /\ out' = [MMINPUT |-> Written(out["MMINPUT"], FirstTimes(n)),
                     BDYOUT  |-> Written(out["BDYOUT"], FirstTimes(b)),
                     LOWBDY  |-> Written(out["LOWBDY"], FirstTimes(l))]
    BY <2>1
  <2>3. PICK l \in {0, n} :
          /\ \/ n = Consecutive(DOMAIN regrid) /\ b = n
                /\ l = (IF Consecutive(DOMAIN regrid) = Span + 1 THEN n ELSE 0) /\ Goes("check")
             \/ n < Consecutive(DOMAIN regrid) /\ l = 0 /\ ~ regrid[run + n].whole /\ Goes("check")
             \/ l = 0 /\ Fails("check")
          /\ out' = [MMINPUT |-> Written(out["MMINPUT"], FirstTimes(n)),
                     BDYOUT  |-> Written(out["BDYOUT"], FirstTimes(b)),
                     LOWBDY  |-> Written(out["LOWBDY"], FirstTimes(l))]
    BY <2>2
  <2>4. CASE l = 0 /\ Fails("check")
    BY <1>3, <1>5, <2>3, <2>4
  <2>5. CASE n < Consecutive(DOMAIN regrid) /\ l = 0 /\ ~ regrid[run + n].whole
    <3>1. n \in 0..(Consecutive(DOMAIN regrid) - 1)
      BY <1>1, <1>2, <2>5
    <3> QED BY <1>5, <2>3, <2>5, <3>1
  <2>6. CASE n = Consecutive(DOMAIN regrid) /\ b = n
             /\ l = (IF Consecutive(DOMAIN regrid) = Span + 1 THEN n ELSE 0)
    BY <1>5, <2>3, <2>6
  <2> QED BY <2>3, <2>4, <2>5, <2>6
<1> QED BY <1>4, <1>5

\* Of a right file interpf makes three right ones.
LEMMA InterpfComplete ==
  ASSUME TInv, run \in Cycle, Right(regrid), UNCHANGED <<run, grib>>, at' = 1,
         out' = [MMINPUT |-> Written(out["MMINPUT"], FirstTimes(Span + 1)),
                 BDYOUT  |-> Written(out["BDYOUT"], FirstTimes(Span + 1)),
                 LOWBDY  |-> Written(out["LOWBDY"], FirstTimes(Span + 1))]
  PROVE  AllComplete'
<1>1. run \in Int /\ Span \in Nat
  BY RealtimeAssumption DEF Cycle
<1>2. FirstTimes(Span + 1) = regrid
  <2>1. run..(run + (Span + 1) - 1) = Times(run)
    BY <1>1 DEF Times
  <2> QED BY <2>1 DEF FirstTimes, Right
<1>3. \A old : Written(old, regrid) = regrid
  BY RightIsFile DEF Written
<1>4. \A i \in 1..3 : out'[Checked[i]] = regrid
  BY <1>2, <1>3 DEF Checked
<1>5. \A file : Right(file) => Right(file)'
  BY DEF Right, Lacks
<1>6. Right(regrid)'= Right(regrid)' /\ \A i \in 1..3 : ~ (i < 1)
  OBVIOUS
<1>7. \A i \in 1..3 : Right(out[Checked[i]])'
  BY <1>4 DEF Right, Lacks, Checked
<1> QED BY <1>6, <1>7 DEF AllComplete

LEMMA CheckComplete ==
  ASSUME TInv, CheckAndMove, AllComplete
  PROVE  /\ step' = "check" => AllComplete'
         /\ step' = "unlink" => Ready'
         /\ step' # "idle"
         /\ out'["LOWBDY"] = NoFile \/ (step' = "check" /\ AllComplete')
<1>1. /\ at \in 1..3 /\ DOMAIN out = Input /\ DOMAIN inp = Input /\ step = "check"
      /\ run \in Cycle /\ UNCHANGED <<run, grib>>
  BY DEF TInv, TypeOK, LoopsInBounds, CheckAndMove
<1>2. Checked[at] \in Input /\ Right(out[Checked[at]])
  BY <1>1 DEF AllComplete, Checked, Input
<1>3. out[Checked[at]] \notin {NoFile, Empty}
  BY <1>1, <1>2, RightIsFile
<1>4. /\ inp' = [inp EXCEPT ![Checked[at]] = out[Checked[at]]]
      /\ out' = [out EXCEPT ![Checked[at]] = NoFile]
      /\ at' = at + 1 /\ step' = IF at = 3 THEN "unlink" ELSE step
  BY <1>3 DEF CheckAndMove, Checked
<1>5. \A i \in 1..3 : i < at + 1 => Right(inp'[Checked[i]])
  BY <1>1, <1>2, <1>4 DEF AllComplete, Checked, Input
<1>6. \A i \in 1..3 : i >= at + 1 => Right(out'[Checked[i]])
  BY <1>1, <1>2, <1>4 DEF AllComplete, Checked, Input
<1>7. AllComplete'
  BY <1>1, <1>4, <1>5, <1>6 DEF AllComplete, Right, Lacks, Checked
<1>8. at = 3 => Ready' /\ out'["LOWBDY"] = NoFile
  <2>1. ASSUME at = 3
        PROVE  \A f \in Input : Right(inp'[f])
    BY <1>5, <2>1 DEF Checked, Input
  <2>2. at = 3 => out'["LOWBDY"] = NoFile
    BY <1>1, <1>4 DEF Checked, Input
  <2> QED BY <1>1, <2>1, <2>2 DEF Ready, Right, Lacks
<1>9. at # 3 => step' = "check"
  BY <1>1, <1>4
<1> QED BY <1>4, <1>7, <1>8, <1>9

-------------------------------------------------------------------------------
(* Nothing but kills goes wrong *)

LEMMA OrderlyInit == Init => Orderly
BY DEF Init, Orderly

LEMMA OrderlyNext ==
  ASSUME TInv, Orderly, [Next]_vars
  PROVE  Orderly'
<1>0. /\ NCycle \in Nat \ {0} /\ Span \in Nat /\ Cycle \subseteq Int
      /\ faults \in Nat /\ kills \in 0..faults
  BY RealtimeAssumption DEF Cycle, TInv, TypeOK
<1> SUFFICES ASSUME kills' = faults', Fetched(run)', step' # "idle"
             PROVE  Orderly'
  BY DEF Orderly
<1>a. /\ ~ Fault /\ ~ Killed
      /\ \A x : Goes(x) => step' = x /\ kills = faults /\ UNCHANGED <<faults, kills>>
      /\ \A x : ~ Fails(x)
  BY <1>0 DEF Fault, Killed, Goes, NoFault, Fails
<1>b. UNCHANGED <<run, grib>> => Fetched(run) /\ ~ Lacks(run)
  BY <1>0 DEF Fetched, Lacks
<1>c. UNCHANGED <<run, grib>> => \A file : Right(file)' <=> Right(file)'
  OBVIOUS
<1>1. ASSUME NEW c \in Cycle, StartRun(c)
      PROVE  Orderly'
  BY <1>0, <1>1 DEF StartRun, Orderly
<1>2. CASE DlNcep
  BY <1>2, <1>a DEF DlNcep, Orderly
<1>3. CASE Pregrid
  <2>1. run \in Cycle /\ UNCHANGED <<run, grib>> /\ Fetched(run) /\ ~ Lacks(run)
    BY <1>3, <1>b DEF Pregrid, TInv, TypeOK
  <2>2. /\ step' = "regridder"
        /\ fg' = [t \in Time |->
                   IF t \in Given \union Between
                     THEN [of |-> run, whole |-> \A s \in Sources(t) : grib[run][s - run] = "whole"]
                     ELSE fg[t]]
    BY <1>3, <1>a, <2>1 DEF Pregrid
  <2>3. Times(run) \subseteq Given
    BY <1>0, <2>1 DEF Given, Times, Fetched
  <2>4. \A t \in Times(run) : \A s \in Sources(t) : grib[run][s - run] = "whole"
    <3>1. \A t \in Times(run) : Sources(t) = {t} /\ t - run \in 0..Span
      BY <1>0, <2>1, <2>3 DEF Sources, Times
    <3> QED BY <2>1, <3>1 DEF Fetched
  <2>5. \A t \in Times(run) : fg'[t] = [of |-> run, whole |-> TRUE]
    BY <2>1, <2>2, <2>3, <2>4, RightIsFile
  <2> QED BY <2>1, <2>2, <2>5 DEF Orderly
<1>4. CASE Regridder
  <2> DEFINE S == {t \in Time : fg[t] # NoFile}
  <2>1. /\ run \in Cycle /\ UNCHANGED <<run, grib>> /\ Fetched(run)
        /\ step = "regridder"
    BY <1>4, <1>b DEF Regridder, TInv, TypeOK
  <2>2. PICK n \in 0..Consecutive(S) :
          /\ n = Consecutive(S) \/ ~ fg[run + n].whole
          /\ Goes("remove_files")
          /\ regrid' = IF n = 0 THEN regrid ELSE [t \in run..(run + n - 1) |-> fg[t]]
    BY <1>4, <1>a DEF Regridder
  <2>3. \A t \in Times(run) : fg[t] = [of |-> run, whole |-> TRUE]
    BY <1>a, <2>1, <2>2 DEF Orderly
  <2>4. \A t \in Times(run) : fg[t] \in Data
    <3>1. [of |-> run, whole |-> TRUE] \in Data
      BY <2>1 DEF Data
    <3> QED BY <2>3, <3>1
  <2>5. Times(run) \subseteq S
    BY <2>1, <2>4, RightIsFile, NoFileAssumption
  <2>6. Consecutive(S) = Span + 1
    BY <2>1, <2>5, ConsecutiveFacts
  <2> HIDE DEF S
  <2>7. n = Span + 1
    <3>1. SUFFICES ASSUME n # Span + 1
                   PROVE  FALSE
      OBVIOUS
    <3>2. n \in 0..Span /\ run + n \in Times(run)
      BY <1>0, <2>1, <2>2, <2>6, <3>1 DEF Times
    <3>3. fg[run + n].whole
      BY <2>3, <3>2
    <3> QED BY <2>2, <2>6, <3>1, <3>3
  <2>8. run..(run + n - 1) = Times(run)
    BY <1>0, <2>1, <2>7 DEF Times
  <2>9. regrid' = [t \in Times(run) |-> fg[t]]
    <3>1. n # 0
      BY <1>0, <2>7
    <3> QED BY <2>2, <2>8, <3>1
  <2>10. Right(regrid)'
    BY <2>1, <2>3, <2>4, <2>9 DEF Right
  <2>11. step' = "remove_files"
    BY <1>a, <2>2
  <2> QED BY <2>10, <2>11 DEF Orderly
<1>5. CASE RemoveFiles
  <2>1. /\ step = "remove_files" /\ step' = "interpf" /\ kills = faults
        /\ UNCHANGED <<run, grib, regrid>>
    BY <1>5, <1>a DEF RemoveFiles
  <2>2. Right(regrid)
    BY <1>b, <2>1 DEF Orderly
  <2>3. Right(regrid)'
    BY <2>1, <2>2 DEF Right, Lacks
  <2> QED BY <2>1, <2>3 DEF Orderly
<1>6. CASE InterpfProgram
  <2>1. /\ step = "interpf" /\ run \in Cycle /\ at' = 1
        /\ UNCHANGED <<run, grib, fg, regrid, inp, mmout, nc>>
    BY <1>6 DEF InterpfProgram, TInv, TypeOK
  <2>2. step' = "check" /\ kills = faults /\ faults' = faults
    BY <1>6, <1>a DEF InterpfProgram
  <2>3. Right(regrid) /\ ~ Lacks(run)
    BY <1>b, <2>1, <2>2 DEF Orderly
  <2>4. /\ regrid # NoFile /\ DOMAIN regrid = Times(run)
        /\ \A t \in Times(run) : regrid[t].whole
    BY <2>1, <2>3, RightIsFile
  <2>5. Consecutive(DOMAIN regrid) = Span + 1
    BY <2>1, <2>4, ConsecutiveFacts
  <2>6. \A n \in 0..(Consecutive(DOMAIN regrid) - 1) : regrid[run + n].whole
    <3>1. \A n \in 0..Span : run + n \in Times(run)
      BY <1>0, <2>1 DEF Times
    <3>2. Consecutive(DOMAIN regrid) - 1 = Span
      BY <1>0, <2>5
    <3> QED BY <2>4, <3>1, <3>2
  <2>7. AllComplete'
    BY <1>6, <2>1, <2>2, <2>3, <2>4, <2>5, <2>6, InterpfLeaves, InterpfComplete
  <2> QED BY <2>2, <2>7 DEF Orderly
<1>7. CASE CheckAndMove
  <2>1. /\ step = "check" /\ step' \in {"check", "unlink"} /\ kills = faults
        /\ UNCHANGED <<run, grib>>
    BY <1>7 DEF CheckAndMove
  <2>2. AllComplete
    BY <1>b, <2>1 DEF Orderly
  <2>3. (step' = "check" => AllComplete') /\ (step' = "unlink" => Ready')
    BY <1>7, <2>2, CheckComplete
  <2> QED BY <2>1, <2>3 DEF Orderly
<1>8. CASE UnlinkRegrid
  <2>1. /\ step = "unlink" /\ step' = "run_mm5" /\ kills = faults
        /\ UNCHANGED <<run, grib, inp>>
    BY <1>8 DEF UnlinkRegrid
  <2>2. Ready
    BY <1>b, <2>1 DEF Orderly
  <2>3. Ready'
    BY <2>1, <2>2 DEF Ready, Right, Lacks
  <2> QED BY <2>1, <2>3 DEF Orderly
<1>9. CASE RunMM5
  BY <1>9, <1>a DEF RunMM5, Orderly
<1>10. CASE Archiver
  BY <1>10, <1>a DEF Archiver, Orderly
<1>11. CASE Cleanup
  BY <1>11, <1>a DEF Cleanup
<1>12. CASE Crash
  BY <1>12 DEF Crash, Killed
<1>13. CASE UNCHANGED vars
  BY <1>13 DEF vars, Orderly, Fetched, Right, Lacks, AllComplete, Ready
<1> QED BY <1>1, <1>2, <1>3, <1>4, <1>5, <1>6, <1>7, <1>8, <1>9, <1>10, <1>11, <1>12, <1>13 DEF Next

-------------------------------------------------------------------------------
(* No run is killed *)

LEMMA UnkilledInit == Init => Unkilled
BY DEF Init, Unkilled, Input

\* What the regridder makes of files that are all of this run.
LEMMA RegridderOfOneRun ==
  ASSUME TInv, Regridder,
         \A t \in Time : fg[t] = NoFile \/ (fg[t].of = run /\ (fg[t].whole \/ Lacks(run)))
  PROVE  regrid' = regrid \/ \E n \in 1..(Span + 1) : Part(regrid', run, n)
<1> DEFINE S == {t \in Time : fg[t] # NoFile}
<1>1. run \in Cycle
  BY DEF TInv, TypeOK, Regridder
<1>2. PICK n \in 0..Consecutive(S) :
        regrid' = IF n = 0 THEN regrid ELSE [t \in run..(run + n - 1) |-> fg[t]]
  BY DEF Regridder
<1>3. Consecutive(S) \in 0..(Span + 1) /\ run..(run + n - 1) \subseteq S
  BY <1>1, ConsecutiveFacts
<1>4. \A t \in S : fg[t] \in {x \in Data : x.of = run /\ (x.whole \/ Lacks(run))}
  BY DEF TInv, TypeOK
<1> HIDE DEF S
<1>5. Span \in Nat
  BY RealtimeAssumption
<1>6. n \in 0..(Span + 1)
  BY <1>3, <1>5
<1>7. CASE n = 0
  BY <1>2, <1>7
<1>8. CASE n # 0
  <2>1. Part(regrid', run, n)
    BY <1>2, <1>3, <1>4, <1>8 DEF Part
  <2> QED BY <1>5, <1>6, <1>8, <2>1
<1> QED BY <1>7, <1>8

\* A file of one run that has all times of this run is of this run.
LEMMA LastTimeTells ==
  ASSUME run \in Cycle, OfOneRun(regrid), Consecutive(DOMAIN regrid) = Span + 1
  PROVE  Right(regrid)
<1>1. run \in Int /\ Span \in Nat /\ Cycle \subseteq Int
  BY RealtimeAssumption DEF Cycle
<1>2. PICK d \in Cycle, n \in 1..(Span + 1) : d <= run /\ Part(regrid, d, n)
  BY DEF OfOneRun
<1>3. Times(run) \subseteq DOMAIN regrid
  <2>1. run..(run + (Span + 1) - 1) \subseteq DOMAIN regrid
    BY <1>1, ConsecutiveFacts
  <2>2. run..(run + (Span + 1) - 1) = Times(run)
    BY <1>1 DEF Times
  <2> QED BY <2>1, <2>2
<1>4. DOMAIN regrid = d..(d + n - 1)
  BY <1>2 DEF Part
<1>5. run \in d..(d + n - 1) /\ run + Span \in d..(d + n - 1)
  <2>1. run \in Times(run) /\ run + Span \in Times(run)
    BY <1>1 DEF Times
  <2> QED BY <1>3, <1>4, <2>1
<1>6. d = run /\ n = Span + 1
  BY <1>1, <1>2, <1>5
<1>7. run..(run + (Span + 1) - 1) = Times(run)
  BY <1>1 DEF Times
<1> QED BY <1>2, <1>6, <1>7 DEF Part, Right

\* A file of one run stays one while no converted file goes.
LEMMA OfOneRunKept ==
  ASSUME OfOneRun(regrid), regrid' = regrid, run \in Int, run' \in Int, run <= run',
         \A d \in Cycle : Lacks(d) => Lacks(d)'
  PROVE  OfOneRun(regrid)'
<1>1. PICK d \in Cycle, n \in 1..(Span + 1) : d <= run /\ Part(regrid, d, n)
  BY DEF OfOneRun
<1>2. Part(regrid, d, n)'
  BY <1>1 DEF Part
<1>3. d <= run'
  BY <1>1, RealtimeAssumption DEF Cycle
<1> QED BY <1>1, <1>2, <1>3 DEF OfOneRun

LEMMA UnkilledNext ==
  ASSUME TInv, Unkilled, [Next]_vars
  PROVE  Unkilled'
<1>0. /\ NCycle \in Nat \ {0} /\ Span \in Nat /\ Cycle \subseteq Int
      /\ faults \in Nat /\ kills \in 0..faults /\ DOMAIN out = Input
      /\ step # "idle" => run \in Cycle
  BY RealtimeAssumption DEF Cycle, TInv, TypeOK
<1> SUFFICES ASSUME kills' = 0
             PROVE  Unkilled'
  BY DEF Unkilled
<1>k. ~ Killed
  BY <1>0 DEF Killed
<1>a. kills = 0
  BY <1>k DEF Next, vars, StartRun, DlNcep, Pregrid, Regridder, RemoveFiles, InterpfProgram,
         CheckAndMove, UnlinkRegrid, RunMM5, Archiver, Cleanup, Crash, Goes, Fails, Fault, NoFault
<1>s. \A x : Goes(x) \/ Fails(x) => step' = x
  BY <1>k DEF Goes, Fails
<1>c. /\ step = "regridder" =>
           \A t \in Time : fg[t] = NoFile \/ (fg[t].of = run /\ (fg[t].whole \/ Lacks(run)))
      /\ step \notin {"regridder", "remove_files"} => \A t \in Time : fg[t] = NoFile
      /\ regrid = NoFile \/ OfOneRun(regrid)
      /\ step \in {"run_mm5", "archiver", "cleanup"} => regrid = NoFile
      /\ out["LOWBDY"] \in {NoFile, Empty} \/ (step = "check" /\ AllComplete)
      /\ step \in {"unlink", "run_mm5"} => Ready
  BY <1>a DEF Unkilled
<1>r. run \in Int
  <2>1. run \in Cycle \union {-1}
    BY DEF TInv, TypeOK
  <2> QED BY <1>0, <2>1
<1>g. regrid' = regrid /\ UNCHANGED <<run, grib>> => regrid' = NoFile \/ OfOneRun(regrid)'
  <2>1. UNCHANGED grib => \A d \in Cycle : Lacks(d) => Lacks(d)'
    BY DEF Lacks
  <2> QED BY <1>c, <1>r, <2>1, OfOneRunKept
<1>1. ASSUME NEW c \in Cycle, StartRun(c)
      PROVE  Unkilled'
  <2>1. /\ step = "idle" /\ step' = "dl_ncep" /\ run' \in {run, run + 1}
        /\ UNCHANGED <<grib, fg, regrid, out>>
    BY <1>1 DEF StartRun
  <2>2. regrid' = NoFile \/ OfOneRun(regrid)'
    <3>1. \A d \in Cycle : Lacks(d) => Lacks(d)'
      BY <2>1 DEF Lacks
    <3>2. run' \in Int /\ run <= run'
      BY <1>r, <2>1
    <3> QED BY <1>c, <1>r, <2>1, <3>1, <3>2, OfOneRunKept
  <2> QED BY <1>c, <2>1, <2>2 DEF Unkilled
<1>2. CASE DlNcep
  <2>1. /\ step = "dl_ncep" /\ step' \in {"dl_ncep", "pregrid", "idle"}
        /\ UNCHANGED <<run, fg, regrid, out>> /\ run \in Cycle
    BY <1>2, <1>s, <1>0 DEF DlNcep
  <2>2. \A d \in Cycle : Lacks(d) => Lacks(d)'
    <3>1. /\ at \in 0..Span /\ grib \in [Cycle -> [0..Span -> {"none", "whole", "part", "bad"}]]
      BY <2>1 DEF TInv, TypeOK, LoopsInBounds
    <3>2. \/ grib' = grib
          \/ /\ grib[run][at] = "none"
             /\ \E left \in {"none", "whole", "part", "bad"} : grib' = [grib EXCEPT ![run][at] = left]
      BY <1>2 DEF DlNcep
    <3>3. ASSUME NEW d \in Cycle, NEW h \in 0..Span, grib[d][h] = "part"
          PROVE  grib'[d][h] = "part"
      <4>1. CASE grib' = grib
        BY <3>3, <4>1
      <4>2. CASE /\ grib[run][at] = "none"
                 /\ \E left \in {"none", "whole", "part", "bad"} : grib' = [grib EXCEPT ![run][at] = left]
        <5>1. ~ (d = run /\ h = at)
          BY <3>3, <4>2
        <5>2. PICK left \in {"none", "whole", "part", "bad"} : grib' = [grib EXCEPT ![run][at] = left]
          BY <4>2
        <5>3. grib' = [grib EXCEPT ![run] = [grib[run] EXCEPT ![at] = left]]
          BY <5>2
        <5>4. grib'[d] = IF d = run THEN [grib[run] EXCEPT ![at] = left] ELSE grib[d]
          BY <3>1, <5>3
        <5>5. grib[run] \in [0..Span -> {"none", "whole", "part", "bad"}]
          BY <2>1, <3>1
        <5>6. grib'[d][h] = grib[d][h]
          BY <2>1, <5>1, <5>4, <5>5
        <5> QED BY <3>3, <5>6
      <4> QED BY <3>2, <4>1, <4>2
    <3> QED BY <3>3 DEF Lacks
  <2>3. regrid' = NoFile \/ OfOneRun(regrid)'
    BY <1>c, <1>r, <2>1, <2>2, OfOneRunKept
  <2> QED BY <1>c, <2>1, <2>3 DEF Unkilled
<1>3. CASE Pregrid
  <2>1. /\ step = "pregrid" /\ step' = "regridder" /\ run \in Cycle
        /\ UNCHANGED <<run, grib, regrid, out>>
    BY <1>0, <1>3, <1>k, <1>s DEF Pregrid
  <2>2. regrid' = NoFile \/ OfOneRun(regrid)'
    BY <1>g, <2>1
  <2>3. PICK made : /\ made \subseteq Given \union Between
                    /\ fg' = [t \in Time |->
                               IF t \in made
                                 THEN [of |-> run, whole |-> \A s \in Sources(t) : grib[run][s - run] = "whole"]
                                 ELSE fg[t]]
    BY <1>3 DEF Pregrid
  <2>4. ASSUME NEW t \in Time, fg'[t] # NoFile
        PROVE  fg'[t].of = run /\ (fg'[t].whole \/ Lacks(run))
    <3>1. t \in made /\ fg'[t] = [of |-> run, whole |-> \A s \in Sources(t) : grib[run][s - run] = "whole"]
      BY <1>c, <2>1, <2>3, <2>4
    <3>2. ASSUME NEW s \in Sources(t), grib[run][s - run] # "whole"
          PROVE  Lacks(run)
      <4>1. s \in Given
        BY <3>2 DEF Sources
      <4>2. s \in run..(run + Span) /\ grib[run][s - run] \in {"whole", "part"}
        BY <4>1 DEF Given, Times
      <4>3. s - run \in 0..Span
        BY <1>0, <1>r, <4>2
      <4> QED BY <3>2, <4>2, <4>3 DEF Lacks
    <3> QED BY <3>1, <3>2
  <2>5. \A t \in Time : fg'[t] = NoFile \/ (fg'[t].of = run' /\ (fg'[t].whole \/ Lacks(run)'))
    BY <2>1, <2>4 DEF Lacks
  <2> QED BY <1>c, <2>1, <2>2, <2>5 DEF Unkilled
<1>4. CASE Regridder
  <2>1. /\ step = "regridder" /\ step' = "remove_files" /\ run \in Cycle
        /\ UNCHANGED <<run, grib, fg, out>>
    BY <1>0, <1>4, <1>s DEF Regridder
  <2>2. regrid' = regrid \/ \E n \in 1..(Span + 1) : Part(regrid', run, n)
    BY <1>4, <1>c, <2>1, RegridderOfOneRun
  <2>3. regrid' = NoFile \/ OfOneRun(regrid)'
    <3>1. CASE regrid' = regrid
      BY <1>g, <2>1, <3>1
    <3>2. CASE \E n \in 1..(Span + 1) : Part(regrid', run, n)
      <4>1. PICK n \in 1..(Span + 1) : Part(regrid', run, n)
        BY <3>2
      <4>2. \A d : Part(regrid', d, n) => Part(regrid, d, n)'
        BY <2>1 DEF Part, Lacks
      <4>3. Part(regrid, run, n)' /\ run <= run' /\ run' = run
        BY <1>r, <2>1, <4>1 DEF Part, Lacks
      <4> QED BY <2>1, <4>3 DEF OfOneRun
    <3> QED BY <2>2, <3>1, <3>2
  <2> QED BY <1>c, <2>1, <2>3 DEF Unkilled
<1>5. CASE RemoveFiles
  <2>1. /\ step = "remove_files" /\ step' = "interpf"
        /\ \A t \in Time : fg'[t] = NoFile
        /\ UNCHANGED <<run, grib, regrid, out>>
    BY <1>5, <1>k, <1>s DEF RemoveFiles
  <2>2. regrid' = NoFile \/ OfOneRun(regrid)'
    BY <1>g, <2>1
  <2> QED BY <1>c, <2>1, <2>2 DEF Unkilled
<1>6. CASE InterpfProgram
  <2>1. /\ step = "interpf" /\ step' = "check" /\ run \in Cycle /\ at' = 1
        /\ UNCHANGED <<run, grib, fg, regrid>>
    BY <1>0, <1>6, <1>s DEF InterpfProgram
  <2>2. regrid' = NoFile \/ OfOneRun(regrid)'
    BY <1>g, <2>1
  <2>3. out["LOWBDY"] \in {NoFile, Empty}
    BY <1>c, <2>1
  <2>4. FirstTimes(0) = Empty
    BY <1>r DEF FirstTimes, Empty
  <2>5. Written(out["LOWBDY"], FirstTimes(0)) \in {NoFile, Empty}
    BY <2>3, <2>4 DEF Written
  <2>6. /\ regrid # NoFile /\ Consecutive(DOMAIN regrid) = Span + 1
        /\ out' = [MMINPUT |-> Written(out["MMINPUT"], FirstTimes(Span + 1)),
                   BDYOUT  |-> Written(out["BDYOUT"], FirstTimes(Span + 1)),
                   LOWBDY  |-> Written(out["LOWBDY"], FirstTimes(Span + 1))]
        => AllComplete'
    BY <1>c, <2>1, LastTimeTells, InterpfComplete
  <2>7. out'["LOWBDY"] \in {NoFile, Empty} \/ AllComplete'
    BY <1>6, <2>3, <2>5, <2>6, InterpfLeaves
  <2>8. \A t \in Time : fg'[t] = NoFile
    BY <1>c, <2>1
  <2>9. step' \notin {"regridder", "remove_files", "unlink", "run_mm5", "archiver", "cleanup"}
    BY <2>1
  <2> QED BY <2>1, <2>2, <2>7, <2>8, <2>9 DEF Unkilled
<1>7. CASE CheckAndMove
  <2>1. /\ step = "check" /\ step' \in {"check", "unlink", "idle"} /\ at \in 1..3
        /\ UNCHANGED <<run, grib, fg, regrid>>
    BY <1>7 DEF CheckAndMove, TInv, LoopsInBounds
  <2>2. regrid' = NoFile \/ OfOneRun(regrid)'
    BY <1>g, <2>1
  <2>3. CASE AllComplete
    <3>1. /\ step' = "unlink" => Ready'
          /\ out'["LOWBDY"] \in {NoFile, Empty} \/ (step' = "check" /\ AllComplete')
      BY <1>7, <2>3, CheckComplete
    <3> QED BY <1>c, <2>1, <2>2, <3>1 DEF Unkilled
  <2>4. CASE out["LOWBDY"] \in {NoFile, Empty}
    <3>1. out'["LOWBDY"] \in {NoFile, Empty}
      BY <1>0, <1>7, <2>4 DEF CheckAndMove, Input
    <3>2. step' # "unlink"
      BY <1>7, <2>1, <2>4 DEF CheckAndMove
    <3> QED BY <1>c, <2>1, <2>2, <3>1, <3>2 DEF Unkilled
  <2> QED BY <1>c, <2>3, <2>4
<1>8. CASE UnlinkRegrid
  <2>1. /\ step = "unlink" /\ step' \in {"idle", "run_mm5"} /\ regrid' = NoFile
        /\ UNCHANGED <<run, grib, fg, out, inp>>
    BY <1>8 DEF UnlinkRegrid
  <2>2. Ready'
    BY <1>c, <2>1 DEF Ready, Right, Lacks
  <2> QED BY <1>c, <2>1, <2>2 DEF Unkilled
<1>9. CASE RunMM5
  <2>1. /\ step = "run_mm5" /\ step' = "archiver"
        /\ UNCHANGED <<run, fg, regrid, out>>
    BY <1>9, <1>s DEF RunMM5
  <2> QED BY <1>c, <2>1 DEF Unkilled
<1>10. CASE Archiver
  <2>1. /\ step = "archiver" /\ step' = "cleanup"
        /\ UNCHANGED <<run, fg, regrid, out>>
    BY <1>10, <1>k, <1>s DEF Archiver
  <2> QED BY <1>c, <2>1 DEF Unkilled
<1>11. CASE Cleanup
  <2>1. /\ step = "cleanup" /\ step' = "idle"
        /\ UNCHANGED <<run, fg, regrid, out>>
    BY <1>11, <1>s DEF Cleanup
  <2> QED BY <1>c, <2>1 DEF Unkilled
<1>12. CASE UNCHANGED vars
  <2>1. UNCHANGED <<run, step, at, grib, fg, regrid, out, inp>>
    BY <1>12 DEF vars
  <2>2. regrid' = NoFile \/ OfOneRun(regrid)'
    BY <1>g, <2>1
  <2>3. (AllComplete => AllComplete') /\ (Ready => Ready')
    BY <2>1 DEF AllComplete, Ready, Right, Lacks
  <2>4. Lacks(run)' = Lacks(run)
    BY <2>1 DEF Lacks
  <2> QED BY <1>c, <2>1, <2>2, <2>3, <2>4 DEF Unkilled
<1> QED BY <1>k, <1>1, <1>2, <1>3, <1>4, <1>5, <1>6, <1>7, <1>8, <1>9, <1>10, <1>11, <1>12 DEF Next, Crash

-------------------------------------------------------------------------------
(* Wrong archives *)

LEMMA CoverInit == Init => FaultsCover
<1> SUFFICES ASSUME Init
             PROVE  FaultsCover
  OBVIOUS
<1>1. Wrong = {} /\ Pending = {} /\ faults = 0
  BY DEF Init, Wrong, Pending
<1> QED BY <1>1, FS_EmptySet DEF FaultsCover

LEMMA WrongFinite ==
  IsFiniteSet(Cycle) /\ IsFiniteSet(Wrong \union Pending)
  /\ Cardinality(Wrong \union Pending) \in Nat
<1>1. IsFiniteSet(Cycle)
  <2>1. NCycle - 1 \in Int
    BY RealtimeAssumption
  <2> QED BY <2>1, FS_Interval DEF Cycle
<1>2. Wrong \union Pending \subseteq Cycle
  BY DEF Wrong, Pending
<1> QED BY <1>1, <1>2, FS_Subset, FS_CardinalityType

LEMMA CoverNext ==
  ASSUME TInv, FaultsCover, [Next]_vars
  PROVE  FaultsCover'
<1>0. faults \in Nat /\ faults' \in Nat /\ faults <= faults' /\ (step # "idle" => run \in Cycle)
  <2>1. faults \in Nat
    BY DEF TInv, TypeOK
  <2>2. faults' = faults \/ faults' = faults + 1
    <3>1. NoFault \/ Fault \/ Killed => faults' = faults \/ faults' = faults + 1
      BY DEF NoFault, Fault, Killed
    <3>2. \A x : Goes(x) \/ Fails(x) => NoFault \/ Fault \/ Killed
      BY DEF Goes, Fails
    <3> QED BY <3>1, <3>2 DEF Next, vars, StartRun, DlNcep, Pregrid, Regridder, RemoveFiles,
              InterpfProgram, CheckAndMove, UnlinkRegrid, RunMM5, Archiver, Cleanup, Crash
  <2> QED BY <2>1, <2>2 DEF TInv, TypeOK
<1>1. ASSUME (Wrong \union Pending)' \subseteq Wrong \union Pending
      PROVE  FaultsCover'
  <2>1. Cardinality((Wrong \union Pending)') <= Cardinality(Wrong \union Pending)
    BY <1>1, WrongFinite, FS_Subset
  <2>2. Cardinality((Wrong \union Pending)') \in Nat
    BY <1>1, WrongFinite, FS_Subset, FS_CardinalityType
  <2> QED BY <1>0, <2>1, <2>2, WrongFinite DEF FaultsCover
<1>2. CASE nc' = nc /\ step' # "archiver"
  <2>1. (Wrong \union Pending)' \subseteq Wrong \union Pending
    BY <1>2 DEF Wrong, Pending
  <2> QED BY <1>1, <2>1
<1>3. ASSUME faults' = faults + 1, run \in Cycle,
             (Wrong \union Pending)' \subseteq (Wrong \union Pending) \union {run}
      PROVE  FaultsCover'
  <2> DEFINE W == Wrong \union Pending
             V == W \union {run}
  <2>1. IsFiniteSet(W) /\ Cardinality(W) \in Nat /\ Cardinality(W) <= faults
    BY WrongFinite DEF FaultsCover
  <2>2. IsFiniteSet(V) /\ (Cardinality(V) = Cardinality(W) \/ Cardinality(V) = Cardinality(W) + 1)
    BY <2>1, FS_AddElement
  <2>3. W' \subseteq V
    BY <1>3
  <2>4. IsFiniteSet(W') /\ Cardinality(W') <= Cardinality(V)
    BY <2>2, <2>3, FS_Subset
  <2>5. Cardinality(W') \in Nat /\ Cardinality(V) \in Nat
    BY <2>2, <2>4, FS_CardinalityType
  <2>6. Cardinality(W') <= faults'
    BY <1>0, <1>3, <2>1, <2>2, <2>4, <2>5
  <2> QED BY <2>6 DEF FaultsCover
<1>4. CASE RunMM5
  <2>1. run \in Cycle /\ run' = run /\ nc' = nc /\ step' \in {"archiver", "idle"}
    BY <1>0, <1>4 DEF RunMM5, Goes, Fails, Killed
  <2>2. CASE mmout' = [of |-> run, whole |-> TRUE]
    <3>1. (Wrong \union Pending)' \subseteq Wrong \union Pending
      BY <2>1, <2>2 DEF Wrong, Pending
    <3> QED BY <1>1, <3>1
  <2>3. CASE faults' = faults + 1
    <3>1. (Wrong \union Pending)' \subseteq (Wrong \union Pending) \union {run}
      BY <2>1 DEF Wrong, Pending
    <3> QED BY <1>3, <2>1, <2>3, <3>1
  <2> QED BY <1>4, <2>2, <2>3 DEF RunMM5, Fails, Fault, Killed
<1>7. CASE Archiver
  <2>1. run \in Cycle /\ step = "archiver" /\ step' \in {"cleanup", "idle"}
    BY <1>0, <1>7 DEF Archiver, Goes, Killed
  <2>2. \A c \in Cycle : nc'[c] \in {nc[c], NoFile} \/ c = run
    BY <1>7 DEF Archiver
  <2>3. CASE faults' = faults + 1
    <3>1. (Wrong \union Pending)' \subseteq (Wrong \union Pending) \union {run}
      BY <2>1, <2>2 DEF Wrong, Pending
    <3> QED BY <1>3, <2>1, <2>3, <3>1
  <2>4. CASE nc'[run] \in {nc[run], mmout}
    <3>1. (Wrong \union Pending)' \subseteq Wrong \union Pending
      BY <2>1, <2>2, <2>4 DEF Wrong, Pending
    <3> QED BY <1>1, <3>1
  <2>5. faults' = faults + 1 \/ nc'[run] \in {nc[run], mmout}
    BY <1>7, <2>1 DEF Archiver, Fault, Killed
  <2> QED BY <2>3, <2>4, <2>5
<1>5. CASE UNCHANGED vars
  <2>1. (Wrong \union Pending)' \subseteq Wrong \union Pending
    BY <1>5 DEF Wrong, Pending, vars
  <2> QED BY <1>1, <2>1
<1>6. \/ nc' = nc /\ step' # "archiver"
      \/ RunMM5 \/ Archiver \/ UNCHANGED vars
  <2>1. \A x : Goes(x) \/ Fails(x) => step' \in {x, "idle"}
    BY DEF Goes, Fails, Killed
  <2>2. (\E c \in Cycle : StartRun(c)) => nc' = nc /\ step' # "archiver"
    BY DEF StartRun
  <2>3. DlNcep => nc' = nc /\ step' # "archiver"
    BY <2>1 DEF DlNcep
  <2>4. Pregrid => nc' = nc /\ step' # "archiver"
    BY <2>1 DEF Pregrid
  <2>7. Regridder => nc' = nc /\ step' # "archiver"
    BY <2>1 DEF Regridder
  <2>8. RemoveFiles => nc' = nc /\ step' # "archiver"
    BY <2>1 DEF RemoveFiles, Killed
  <2>5. InterpfProgram => nc' = nc /\ step' # "archiver"
    BY <2>1 DEF InterpfProgram
  <2>6. CheckAndMove \/ UnlinkRegrid \/ Cleanup \/ Crash => nc' = nc /\ step' # "archiver"
    BY <2>1 DEF CheckAndMove, UnlinkRegrid, Cleanup, Crash, Killed
  <2> QED BY <2>2, <2>3, <2>4, <2>5, <2>6, <2>7, <2>8 DEF Next
<1> QED BY <1>2, <1>4, <1>5, <1>6, <1>7

-------------------------------------------------------------------------------
(* Results *)

LEMMA TypesKept == Spec => []TInv
<1>1. Init => TInv
  BY TypeInit
<1>2. TInv /\ [Next]_vars => TInv'
  BY TypeNext
<1> QED BY <1>1, <1>2, PTL DEF Spec

\* Every file is always one the steps write, whatever has failed.
THEOREM TypeCorrect == Spec => []TypeOK
<1>1. TInv => TypeOK
  BY DEF TInv
<1> QED BY <1>1, TypesKept, PTL

\* MM5 is never started on anything but input of its own cycle, with all its
\* times and all fields its converted files have: as long as no run has been
\* killed, and after any number of kills if nothing else has gone wrong and the
\* converted files of the cycle are whole (run_realtime.py:28, 43, 230-235).
THEOREM InputsRight == Spec => []InputsOfTheCycle
<1> DEFINE IInv == TInv /\ Orderly /\ Unkilled
<1>1. Init => IInv
  BY TypeInit, OrderlyInit, UnkilledInit
<1>2. IInv /\ [Next]_vars => IInv'
  BY TypeNext, OrderlyNext, UnkilledNext
<1>3. IInv => InputsOfTheCycle
  <2> SUFFICES ASSUME TInv, Orderly, Unkilled, step = "run_mm5",
                      kills = 0 \/ (kills = faults /\ Fetched(run))
               PROVE  \A f \in Input : /\ DOMAIN inp[f] = Times(run)
                                       /\ \A t \in Times(run) : /\ inp[f][t].of = run
                                                                /\ inp[f][t].whole \/ Lacks(run)
    BY DEF InputsOfTheCycle
  <2>1. Ready /\ run \in Cycle
    BY DEF Orderly, Unkilled, TInv, TypeOK
  <2> QED BY <2>1, RightIsFile DEF Ready
<1> HIDE DEF IInv
<1> QED BY <1>1, <1>2, <1>3, PTL DEF Spec

\* There are never more wrong archives than there have been failures
\* (run_realtime.py:257-284).
THEOREM ArchivesOwed == Spec => []WrongArchivesBounded
<1> DEFINE IInv == TInv /\ FaultsCover
<1>1. Init => IInv
  BY TypeInit, CoverInit
<1>2. IInv /\ [Next]_vars => IInv'
  BY TypeNext, CoverNext
<1>3. IInv => WrongArchivesBounded
  <2> SUFFICES ASSUME TInv, FaultsCover
               PROVE  WrongArchivesBounded
    OBVIOUS
  <2>1. IsFiniteSet(Wrong) /\ Cardinality(Wrong) <= Cardinality(Wrong \union Pending)
    BY WrongFinite, FS_Subset
  <2>2. Cardinality(Wrong) \in Nat /\ faults \in Nat
    BY <2>1, FS_CardinalityType DEF TInv, TypeOK
  <2>3. Cardinality(Wrong) <= faults
    BY <2>1, <2>2, WrongFinite DEF FaultsCover
  <2> QED BY <2>3 DEF WrongArchivesBounded, Wrong
<1> HIDE DEF IInv
<1> QED BY <1>1, <1>2, <1>3, PTL DEF Spec
===============================================================================
