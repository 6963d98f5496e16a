----------------------------- MODULE RealtimeRun -----------------------------
(***************************************************************************)
(* scripts/run_realtime.py, which cron starts every twelve hours: it       *)
(* fetches a GFS forecast, runs pregrid, regridder, interpf and MM5 on it, *)
(* one after the other, archives MM5's output and removes what is no       *)
(* longer needed.  All runs work in the same directories and the script    *)
(* ignores what the programs return: that a program failed shows only in   *)
(* the files it did not write, or wrote in part, beside what earlier runs  *)
(* have left there.  A run that is killed leaves the same, wherever it is, *)
(* and does not go on.                                                     *)
(*                                                                         *)
(* Runs are numbered by their cycles.  The forecast of cycle c has data    *)
(* for the times c..c+Span, so it overlaps those of the next Span cycles   *)
(* (in the code, 25 times in 72 hours, of which each cycle shares 21 with  *)
(* the next).  What a file holds is a function from the times it has to    *)
(* the cycle whose data it is, and if it is all of them; the four roots of *)
(* pregrid's files are one.  Left out, as no step depends on what an       *)
(* earlier run left of it: the downloads before conversion, the namelists  *)
(* and the mmlif file, which is the same for every cycle, the logs, and    *)
(* the upload.                                                             *)
(*                                                                         *)
(* A run is over before the next one starts: nothing in the script         *)
(* enforces that, but cron starts them twelve hours apart.                 *)
(***************************************************************************)
EXTENDS Integers, Sequences, FiniteSets

CONSTANTS NCycle,     \* bound on the number of cycles
          Span,       \* cycles a forecast reaches ahead
          MaxFaults,  \* bound on the number of things that go wrong
          NoFile

ASSUME RealtimeAssumption == /\ NCycle \in Nat \ {0} /\ Span \in Nat
                             /\ MaxFaults \in Nat

Cycle == 0..(NCycle - 1)
Times(c) == c..(c + Span)
Time == 0..(NCycle - 1 + Span)
Data == [of : Cycle, whole : BOOLEAN]
Input == {"BDYOUT", "MMINPUT", "LOWBDY"}
Empty == [t \in {} |-> 0]

ASSUME NoFileAssumption == /\ NoFile \notin Data
                           /\ \A S \in SUBSET Time : NoFile \notin [S -> Data]

VARIABLES
  run,      \* the cycle of this run, or of the last one
  step,     \* what the run does next; "idle" when there is no run
  at,       \* where its loop is, of dl_ncep and of the check in interpf
  grib,     \* [Cycle -> [0..Span -> ...]]: /tmp/gfs.<cycle>/*.grib
  fg,       \* [Time -> Data or NoFile]: REGRID/pregrid/*FILE:<time>
  regrid,   \* REGRID/regridder/REGRID_DOMAIN1
  out,      \* [Input -> ...]: INTERPF/<input>_DOMAIN1
  inp,      \* [Input -> ...]: MM5/Run/<input>_DOMAIN1
  mmout,    \* MM5/Run/MMOUT_DOMAIN1: the run that wrote it, and if all of it
  nc,       \* [Cycle -> ...]: MM5/Run/isumm5_<cycle>.nc
  faults,   \* how many things have gone wrong so far
  kills     \* how many of them were a run being killed

vars == <<run, step, at, grib, fg, regrid, out, inp, mmout, nc, faults, kills>>

Init ==
  /\ run = -1 /\ step = "idle" /\ at = 0
  /\ grib = [c \in Cycle |-> [h \in 0..Span |-> "none"]]
  /\ fg = [t \in Time |-> NoFile]
  /\ regrid = NoFile
  /\ out = [f \in Input |-> NoFile]
  /\ inp = [f \in Input |-> NoFile]
  /\ mmout = NoFile
  /\ nc = [c \in Cycle |-> NoFile]
  /\ faults = 0 /\ kills = 0

\* Something fails, and the script goes on; the run is killed, by a signal or
\* a reboot.  Either way a step leaves only a part of what it does.
Fault == faults < MaxFaults /\ faults' = faults + 1 /\ UNCHANGED kills
Killed == /\ faults < MaxFaults /\ faults' = faults + 1 /\ kills' = kills + 1
          /\ step' = "idle"
NoFault == UNCHANGED <<faults, kills>>

Goes(next) == NoFault /\ step' = next
Fails(next) == (Fault /\ step' = next) \/ Killed

-------------------------------------------------------------------------------
(* The start and the end of a run *)

\* cron starts the run of the next cycle; the last one may be started again.
StartRun(c) ==
  /\ step = "idle"
  /\ c \in {run, run + 1}
  /\ run' = c /\ step' = "dl_ncep" /\ at' = 0
  /\ UNCHANGED <<grib, fg, regrid, out, inp, mmout, nc, faults, kills>>

\* A kill between two steps: the files stay as they are.
Crash ==
  /\ step # "idle" /\ Killed
  /\ UNCHANGED <<run, at, grib, fg, regrid, out, inp, mmout, nc>>

\* cleanup: rm goes through the forecast's files.
Cleanup ==
  /\ step = "cleanup"
  /\ \E gone \in SUBSET (0..Span) :
       /\ IF gone = 0..Span THEN Goes("idle") ELSE Fails("idle")
       /\ grib' = [grib EXCEPT ![run] = [h \in 0..Span |->
                     IF h \in gone THEN "none" ELSE grib[run][h]]]
  /\ UNCHANGED <<run, at, fg, regrid, out, inp, mmout, nc>>

-------------------------------------------------------------------------------
(* From the download to MM5's input files *)

\* dl_ncep, one file.  A converted file that exists is not fetched again,
\* whatever is in it.  A download that fails for good raises; an error page
\* is saved and converted like data.  The converter writes to the file itself:
\* if it stops, or the run is killed, some of the records are there, or none.
DlNcep ==
  /\ step = "dl_ncep"
  /\ LET after == IF at < Span THEN step ELSE "pregrid"
     IN \/ grib[run][at] # "none" /\ Goes(after) /\ UNCHANGED grib
        \/ /\ grib[run][at] = "none" /\ Goes(after)
           /\ grib' = [grib EXCEPT ![run][at] = "whole"]
        \/ /\ grib[run][at] = "none" /\ Fails(after)
           /\ \E left \in {"none", "part", "bad"} : grib' = [grib EXCEPT ![run][at] = left]
        \/ grib[run][at] = "none" /\ Fault /\ step' = "idle" /\ UNCHANGED grib
  /\ at' = at + 1
  /\ UNCHANGED <<run, fg, regrid, out, inp, mmout, nc>>

\* The times of which pregrid has data, and those it interpolates to: it goes
\* through all times and stops at one that has no data before it and after it.
Given == {t \in Times(run) : grib[run][t - run] \in {"whole", "part"}}
Between == {t \in Times(run) \ Given : run \in Given /\ \E b \in Given : t < b}

\* The times a time's data is made of: itself, or those around it.
Sources(t) ==
  IF t \in Given THEN {t}
  ELSE {s \in Given : \A u \in Given : ~ (s < u /\ u < t) /\ ~ (t < u /\ u < s)}

Lacks(c) == \E h \in 0..Span : grib[c][h] = "part"
Fetched(c) == \A h \in 0..Span : grib[c][h] = "whole"

\* pregrid.csh and pregrid_grib: one file for each time, in order of time,
\* then those in between; what has been written is moved here in any case.
\* It may stop for fields that a time lacks, or go on without them.
Pregrid ==
  /\ step = "pregrid"
  /\ \E made \in {Given \union Between}
              \union {{t \in Given : t < n} : n \in Times(run)}
              \union {Given \union {t \in Between : t < n} : n \in Times(run)} :
       /\ \/ (made = Given \union Between \/ Lacks(run)) /\ Goes("regridder")
          \/ Fails("regridder")
       /\ fg' = [t \in Time |->
                   IF t \in made
                     THEN [of |-> run, whole |-> \A s \in Sources(t) : grib[run][s - run] = "whole"]
                     ELSE fg[t]]
  /\ UNCHANGED <<run, at, grib, regrid, out, inp, mmout, nc>>

\* How many times from the start of the run are in S without a gap.
Consecutive(S) == Cardinality({t \in Times(run) : run..t \subseteq S})

\* Mutant of Regridder: times without a file are written too.
RegridderAllTimes ==
  /\ step = "regridder"
  /\ regrid' = [t \in Times(run) |-> fg[t]]
  /\ Goes("remove_files")
  /\ UNCHANGED <<run, at, grib, fg, out, inp, mmout, nc>>

\* The regridder program: it stops at the first time of which it has no file,
\* and at one that lacks fields it cannot do without.  REGRID_DOMAIN1 is
\* written once the first time has been read.
Regridder ==
  /\ step = "regridder"
  /\ LET all == Consecutive({t \in Time : fg[t] # NoFile})
     IN \E n \in 0..all :
          /\ IF n = all \/ ~ fg[run + n].whole THEN Goes("remove_files")
                                             ELSE Fails("remove_files")
          /\ regrid' = IF n = 0 THEN regrid ELSE [t \in run..(run + n - 1) |-> fg[t]]
  /\ UNCHANGED <<run, at, grib, fg, out, inp, mmout, nc>>

\* The end of regridder(): pregrid's files go, also if the program failed.
RemoveFiles ==
  /\ step = "remove_files"
  /\ \E left \in SUBSET {t \in Time : fg[t] # NoFile} :
       /\ IF left = {} THEN Goes("interpf") ELSE Killed
       /\ fg' = [t \in Time |-> IF t \in left THEN fg[t] ELSE NoFile]
  /\ UNCHANGED <<run, at, grib, regrid, out, inp, mmout, nc>>

-------------------------------------------------------------------------------
(* The interpf program and the check of what it wrote *)

\* A file that is opened, and written from its beginning if there is anything
\* to write: until then what an earlier run left stays.
Written(old, data) == IF data # Empty THEN data ELSE IF old = NoFile THEN Empty ELSE old

FirstTimes(n) == [t \in run..(run + n - 1) |-> regrid[t]]

\* Mutant of InterpfProgram: the lower boundary is written time by time.
InterpfProgramLowbdyToo ==
  /\ step = "interpf"
  /\ IF regrid = NoFile THEN Goes("check") /\ UNCHANGED out
     ELSE LET all == Consecutive(DOMAIN regrid)
          IN \E n \in 0..all :
               /\ IF n = all THEN Goes("check") ELSE Fails("check")
               /\ out' = [f \in Input |-> Written(out[f], FirstTimes(n))]
  /\ at' = 1
  /\ UNCHANGED <<run, grib, fg, regrid, inp, mmout, nc>>

\* The interpf program.  It looks for the times of the run in the file it
\* finds and stops at the first that is missing, or that lacks too much.  The
\* model's input and its lateral boundary grow with each time; the lower
\* boundary, a mean over all of them, is written at the end (sum_lbc).
InterpfProgram ==
  /\ step = "interpf"
  /\ IF regrid = NoFile THEN Goes("check") /\ UNCHANGED out
     ELSE LET all == Consecutive(DOMAIN regrid)
          IN \E n \in 0..all : \E b \in {n, n - 1} : \E l \in {0, n} :
               /\ \/ n = all /\ b = n /\ l = (IF all = Span + 1 THEN n ELSE 0) /\ Goes("check")
                  \/ n < all /\ l = 0 /\ ~ regrid[run + n].whole /\ Goes("check")
                  \/ l = 0 /\ Fails("check")
               /\ out' = [MMINPUT |-> Written(out["MMINPUT"], FirstTimes(n)),
                          BDYOUT  |-> Written(out["BDYOUT"], FirstTimes(b)),
                          LOWBDY  |-> Written(out["LOWBDY"], FirstTimes(l))]
  /\ at' = 1
  /\ UNCHANGED <<run, grib, fg, regrid, inp, mmout, nc>>

\* The loop at the end of interpf(), one file: one that is missing raises, one
\* that is too small ends the run, any other is moved to MM5's directory.
CheckAndMove ==
  /\ step = "check"
  /\ LET f == <<"BDYOUT", "MMINPUT", "LOWBDY">>[at]
     IN IF out[f] \in {NoFile, Empty}
        THEN /\ step' = "idle"
             /\ UNCHANGED <<at, out, inp>>
        ELSE /\ inp' = [inp EXCEPT ![f] = out[f]]
             /\ out' = [out EXCEPT ![f] = NoFile]
             /\ at' = at + 1
             /\ step' = IF at = 3 THEN "unlink" ELSE step
  /\ UNCHANGED <<run, grib, fg, regrid, mmout, nc, faults, kills>>

\* The last statement of interpf(); it raises if there is no file.
UnlinkRegrid ==
  /\ step = "unlink"
  /\ regrid' = NoFile
  /\ step' = IF regrid = NoFile THEN "idle" ELSE "run_mm5"
  /\ UNCHANGED <<run, at, grib, fg, out, inp, mmout, nc, faults, kills>>

-------------------------------------------------------------------------------
(* MM5 and its archive *)

\* Mutant of RunMM5: an output that exists is not replaced.
RunMM5Once ==
  /\ step = "run_mm5"
  /\ \/ /\ Goes("archiver")
        /\ mmout' = IF mmout = NoFile THEN [of |-> run, whole |-> TRUE] ELSE mmout
     \/ /\ Fails("archiver")
        /\ mmout' \in {mmout, [of |-> run, whole |-> FALSE]}
  /\ UNCHANGED <<run, at, grib, fg, regrid, out, inp, nc>>

\* run_mm5.  What MM5 returns is not looked at: it may have written nothing
\* (and the output of the last run is still there), a part, or all.
RunMM5 ==
  /\ step = "run_mm5"
  /\ \/ /\ Goes("archiver")
        /\ mmout' = [of |-> run, whole |-> TRUE]
     \/ /\ Fails("archiver")
        /\ mmout' \in {mmout, [of |-> run, whole |-> FALSE]}
  /\ UNCHANGED <<run, at, grib, fg, regrid, out, inp, nc>>

\* archiver: the output is converted under the name of this run's cycle, if
\* there is any; then the archives of 36 and of 48 hours ago are deleted.  The
\* converter may write nothing or a part.
Archiver ==
  /\ step = "archiver"
  /\ LET made == IF mmout = NoFile THEN nc[run] ELSE mmout
         cut == {nc[run]} \union IF mmout = NoFile THEN {} ELSE {[mmout EXCEPT !.whole = FALSE]}
         Leaves(archive, gone) ==
           nc' = [c \in Cycle |-> IF c = run THEN archive ELSE IF c \in gone THEN NoFile ELSE nc[c]]
     IN \/ Goes("cleanup") /\ Leaves(made, {run - 3, run - 4})
        \/ Fault /\ step' = "cleanup" /\ \E c \in cut : Leaves(c, {run - 3, run - 4})
        \/ Killed /\ \E c \in cut \union {made} : Leaves(c, {})
        \/ Killed /\ Leaves(made, {run - 3})
  /\ UNCHANGED <<run, at, grib, fg, regrid, out, inp, mmout>>

Next ==
  \/ \E c \in Cycle : StartRun(c)
  \/ DlNcep \/ Pregrid \/ Regridder \/ RemoveFiles \/ InterpfProgram
  \/ CheckAndMove \/ UnlinkRegrid \/ RunMM5 \/ Archiver \/ Cleanup
  \/ Crash

Spec == Init /\ [][Next]_vars

-------------------------------------------------------------------------------
(* Properties *)

\* What a file may hold.
IsData(d) == d = NoFile \/ (DOMAIN d \subseteq Time /\ d \in [DOMAIN d -> Data])

\* Type invariant: every file is one the steps write.
TypeOK ==
  /\ run \in Cycle \union {-1} /\ at \in 0..(Span + 4) /\ faults \in 0..MaxFaults /\ kills \in 0..faults
  /\ step \in {"idle", "dl_ncep", "pregrid", "regridder", "remove_files", "interpf",
               "check", "unlink", "run_mm5", "archiver", "cleanup"}
  /\ step # "idle" => run \in Cycle
  /\ grib \in [Cycle -> [0..Span -> {"none", "whole", "part", "bad"}]]
  /\ fg \in [Time -> Data \union {NoFile}]
  /\ DOMAIN out = Input /\ DOMAIN inp = Input
  /\ IsData(regrid) /\ \A f \in Input : IsData(out[f]) /\ IsData(inp[f])
  /\ mmout \in Data \union {NoFile} /\ nc \in [Cycle -> Data \union {NoFile}]

\* MM5 is only ever started on the three files of its own cycle, with all their
\* times, although the script looks at no return code and at no content but
\* only at the three sizes: whatever fails before, some file is missing or too
\* small then (run_realtime.py:230-235).  Fields are missing in them only if
\* they are in a converted file.  This is so as long as no run has been killed;
\* and after any number of kills, of any step, if nothing else has failed and
\* the converted files of this cycle are whole.  A kill can leave one that is
\* not, which the next attempt takes as done (run_realtime.py:28, 43): what
\* other kills have left may then get into the input of MM5.
InputsOfTheCycle ==
  step = "run_mm5" /\ (kills = 0 \/ (kills = faults /\ Fetched(run)))
    => \A f \in Input :
         /\ DOMAIN inp[f] = Times(run)
         /\ \A t \in Times(run) : inp[f][t].of = run /\ (inp[f][t].whole \/ Lacks(run))

\* An archive that is not the whole forecast of its cycle is owed to something
\* that failed in the runs of that cycle: a failure of MM5, or an output it did
\* not write, has no effect on the archives of later runs
\* (run_realtime.py:257-284).
WrongArchivesBounded ==
  Cardinality({c \in Cycle : nc[c] \notin {NoFile, [of |-> c, whole |-> TRUE]}}) <= faults
===============================================================================
