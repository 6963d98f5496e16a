------------------------------ MODULE RslBalance ------------------------------
(***************************************************************************)
(* The decomposition of MM5: mapping_ of lb_alg.c, which RSL calls for     *)
(* every domain and on every processor.  decomp_load cuts the rows of the  *)
(* domain into a band for each row of processors, and then each band into  *)
(* columns.  A cut of one line of cells, alc, hands each processor cells   *)
(* until they are its share of the work (alc1); when the processors' limit *)
(* keeps that from dealing out all cells it evens out the speeds and tries *)
(* again.                                                                  *)
(*                                                                         *)
(* A line's result is kept as the positions at which it is cut.  Weights   *)
(* are ten times those of the code, speeds are integers; where a sum of    *)
(* weights equals a share exactly the code's floats may say either.        *)
(***************************************************************************)
EXTENDS Integers, Sequences, FiniteSetsExt, Functions

CONSTANT Setups   \* the calls: [m, n, py, px, valid, mother, ionode, ylimit, xlimit, proc_speeds]

BDY       == 3
Inside    == 10   \* 1.0
bdyweight == 3    \* 0.3

Cells(s) == (0..(s.m - 1)) \X (0..(s.n - 1))

\* ylimit and xlimit: mix and mjx less twice the pad area, the limits of a line.
ASSUME BalanceAssumption ==
  \A s \in Setups : /\ {s.m, s.n, s.py, s.px, s.ylimit, s.xlimit} \subseteq Nat \ {0}
                    /\ s.valid \subseteq Cells(s)
                    /\ s.mother \in BOOLEAN /\ s.ionode \in BOOLEAN
                    /\ s.proc_speeds \in [1..s.py -> [1..s.px -> Nat \ {0}]]

VARIABLES
  setup,          \* the arguments of the call
  line,           \* 0: the rows are cut, i: the columns of band i
  upto,           \* upto[k]: the work of the first k cells of the line
  speeds,         \* pspeeds
  stage,          \* how far alc has given in: "weighted", "equal", "uniform"
  cuts,           \* alc1: where the shares of the processors so far end
  rows,           \* result_y
  cols,           \* cols[i]: result_x of band i
  owner,          \* w2, on the cells that have a processor
  status          \* "cutting", "done", "exit"

vars == <<setup, line, upto, speeds, stage, cuts, rows, cols, owner, status>>

-------------------------------------------------------------------------------
(* The lines and their work *)

trim == IF setup.mother THEN 0 ELSE 2

\* agg
Weight(c) ==
  LET inner(x, len) == x \in BDY..(len - trim - BDY - 1)
  IN IF c[1] >= setup.m - trim \/ c[2] >= setup.n - trim THEN 0
     ELSE IF inner(c[1], setup.m) /\ inner(c[2], setup.n) THEN Inside
     ELSE bdyweight

WorkOf(S) == SumFunction([c \in S |-> Weight(c)])

\* The first cell of processor k and the cell after its last.
From(cut, k) == IF k = 1 THEN 0 ELSE cut[k - 1]
Share(cut, k) == From(cut, k)..(cut[k] - 1)

\* Where the sum of w over the first k cells has got to.
Totals(w, size) == [k \in 0..size |-> SumFunctionOnSet(w, 0..(k - 1))]

Size(l)  == IF l = 0 THEN setup.m ELSE setup.n
Procs(l) == IF l = 0 THEN setup.py ELSE setup.px
Limit(l) == IF l = 0 THEN setup.ylimit ELSE setup.xlimit

\* A row counts only its valid cells, a column all cells of its band.
RowWork == [y \in 0..(setup.m - 1) |-> WorkOf({c \in setup.valid : c[1] = y})]
ColWork(band) == [x \in 0..(setup.n - 1) |-> WorkOf(band \X {x})]

\* Mutant of StartLine: result is not started afresh.
StartLineKeepsCuts(l, cut) ==
  /\ line' = l
  /\ cuts' = cuts
  /\ stage' = "weighted"
  /\ upto' = Totals(ColWork(Share(cut, l)), setup.n)
  /\ speeds' = setup.proc_speeds[l]

\* decomp_load's preparation of the line for alc.
StartLine(l, cut) ==
  /\ line' = l
  /\ cuts' = << >>
  /\ stage' = "weighted"
  /\ upto' = Totals(ColWork(Share(cut, l)), setup.n)
  /\ speeds' = setup.proc_speeds[l]

-------------------------------------------------------------------------------
(* One try: alc1 *)

Cutting == status = "cutting"

Given == From(cuts, Len(cuts) + 1)
Left  == Size(line) - Given

Power == SumFunctionOnSet(speeds, (Len(cuts) + 1)..Procs(line))

\* The work of the next k cells against the next processor's share, times Power.
WorkOfNext(k) == (upto[Given + k] - upto[Given]) * Power
ShareTimesPower == (upto[Size(line)] - upto[Given]) * speeds[Len(cuts) + 1]

\* How many cells the next processor may get: those that fit in its share, one
\* less where they fill it exactly and the floats say more.  The last takes
\* all, and one above the limit when one is left.
Numbers(last) ==
  LET most == Min({Left, Limit(line)})
  IN IF last THEN {IF Left = most + 1 THEN Left ELSE most}
     ELSE {k \in 0..most : /\ WorkOfNext(k) <= ShareTimesPower
                           /\ \/ k = most
                              \/ WorkOfNext(k + 1) > ShareTimesPower
                              \/ WorkOfNext(k + 1) = ShareTimesPower /\ WorkOfNext(k) < ShareTimesPower}

Deal ==
  /\ Cutting /\ Len(cuts) < Procs(line)
  /\ \E k \in Numbers(Len(cuts) + 1 = Procs(line)) : cuts' = Append(cuts, Given + k)
  /\ UNCHANGED <<setup, line, upto, speeds, stage, rows, cols, owner, status>>

Dealt == Len(cuts) = Procs(line)

Success == Dealt /\ Left = 0
Failure == Dealt /\ Left > 0

-------------------------------------------------------------------------------
(* alc *)

\* 1 - mean / max < EPS
Balanced ==
  20 * SumFunction(speeds) > 19 * Len(speeds) * Max({speeds[k] : k \in DOMAIN speeds})

imax == Min({k \in DOMAIN speeds : \A l \in DOMAIN speeds : speeds[l] <= speeds[k]})

\* Mutant of Smoothed: the fastest stays as it is.
SmoothedOthers ==
  {[speeds EXCEPT ![k] = @ + 1] : k \in {l \in DOMAIN speeds : speeds[l] < speeds[imax]}}
    \union {speeds}

\* A little is taken off the fastest and given to the others, none of which
\* is left above it.
Smoothed ==
  {t \in [DOMAIN speeds -> 1..speeds[imax]] :
     /\ t[imax] < speeds[imax]
     /\ \A k \in DOMAIN speeds \ {imax} :
          IF speeds[k] < t[imax] THEN t[k] \in speeds[k]..t[imax] ELSE t[k] = t[imax]}

Smooth ==
  /\ Cutting /\ Failure /\ stage = "weighted" /\ ~ Balanced
  /\ speeds' \in Smoothed
  /\ cuts' = << >>
  /\ UNCHANGED <<setup, line, upto, stage, rows, cols, owner, status>>

\* "make the blighters all equal and come what may"
MakeEqual ==
  /\ Cutting /\ Failure /\ stage = "weighted" /\ Balanced
  /\ stage' = "equal"
  /\ speeds' = [k \in DOMAIN speeds |-> 1]
  /\ cuts' = << >>
  /\ UNCHANGED <<setup, line, upto, rows, cols, owner, status>>

\* "go for broke"
MakeUniform ==
  /\ Cutting /\ Failure /\ stage = "equal"
  /\ stage' = "uniform"
  /\ upto' = [k \in DOMAIN upto |-> k]
  /\ cuts' = << >>
  /\ UNCHANGED <<setup, line, speeds, rows, cols, owner, status>>

\* "we done the best we could"
GiveUp ==
  /\ Cutting /\ Failure /\ stage = "uniform"
  /\ status' = "exit"
  /\ UNCHANGED <<setup, line, upto, speeds, stage, cuts, rows, cols, owner>>

-------------------------------------------------------------------------------
(* decomp_load and mapping_ *)

\* The rows are cut: on to the first band.
CutRows ==
  /\ Cutting /\ Success /\ line = 0
  /\ rows' = cuts
  /\ StartLine(1, cuts)
  /\ UNCHANGED <<setup, cols, owner, status>>

\* A band is cut: on to the next.
CutBand ==
  /\ Cutting /\ Success /\ line \in 1..(setup.py - 1)
  /\ cols' = [cols EXCEPT ![line] = cuts]
  /\ StartLine(line + 1, rows)
  /\ UNCHANGED <<setup, rows, owner, status>>

\* The cells of processor <<i, j>> of the mesh.
Patch(cut, i, j) == Share(rows, i) \X Share(cut[i], j)

Mesh == (1..setup.py) \X (1..setup.px)

\* Mutant of Number: the mesh is read the other way.
NumberTurned(p) == (p[2] - 1) * setup.py + p[1] - 1 + IF setup.ionode THEN 1 ELSE 0

\* The I/O node is processor 0 when there is one.
Number(p) == (p[1] - 1) * setup.px + p[2] - 1 + IF setup.ionode THEN 1 ELSE 0

\* The processor of each cell.  Every cut lies within the domain, so exit(3) is
\* not reached.  With an I/O node cells outside the domain get it as theirs.
Owners(cut) ==
  [c \in {d \in Cells(setup) : d \in setup.valid \/ setup.ionode} |->
     IF c \in setup.valid
     THEN Number(CHOOSE p \in Mesh : c \in Patch(cut, p[1], p[2]))
     ELSE 0]

\* The last band is cut.
Assign ==
  /\ Cutting /\ Success /\ line = setup.py
  /\ cols' = [cols EXCEPT ![line] = cuts]
  /\ owner' = Owners(cols')
  /\ status' = "done"
  /\ UNCHANGED <<setup, line, upto, speeds, stage, cuts, rows>>

Init ==
  /\ setup \in Setups
  /\ line = 0
  /\ upto = Totals(RowWork, setup.m)
  /\ speeds = [i \in 1..setup.py |-> SumFunction(setup.proc_speeds[i])]
  /\ stage = "weighted"
  /\ cuts = << >>
  /\ rows = << >>
  /\ cols = [i \in 1..setup.py |-> << >>]
  /\ owner = << >>
  /\ status = "cutting"

Next ==
  \/ Deal \/ Smooth \/ MakeEqual \/ MakeUniform \/ GiveUp
  \/ CutRows \/ CutBand \/ Assign

Spec == Init /\ [][Next]_vars

\* mapping_ is one sequential program.
FairSpec == Spec /\ WF_vars(Next)

-------------------------------------------------------------------------------
(* Properties *)

\* Every variable has its type; a line's cuts never go back.
TypeOK ==
  /\ setup \in Setups
  /\ line \in 0..setup.py
  /\ DOMAIN upto = 0..Size(line)
  /\ DOMAIN speeds = 1..Procs(line)
  /\ stage \in {"weighted", "equal", "uniform"}
  /\ Len(cuts) <= Procs(line)
  /\ \A k \in DOMAIN cuts : cuts[k] \in From(cuts, k)..Size(line)
  /\ status \in {"cutting", "done", "exit"}
  /\ status = "done" => setup.valid \subseteq DOMAIN owner

\* In a finished decomposition the cells of each processor are the valid
\* cells of a rectangle, and the rectangles are laid out like the mesh of
\* processors: what RSL_REG_RUN_INFOP takes for granted of a regular
\* decomposition ("note assumptions on ... contiguity of points, and
\* rectangularity of partitions", comp_world.c:459-460).
PatchesAreRectangles ==
  status = "done" =>
    \A c, d \in setup.valid :
      LET p == owner[c] - IF setup.ionode THEN 1 ELSE 0
          q == owner[d] - IF setup.ionode THEN 1 ELSE 0
      IN /\ p \in 0..(setup.py * setup.px - 1)
         /\ p \div setup.px < q \div setup.px => c[1] < d[1]
         /\ p \div setup.px = q \div setup.px /\ p < q => c[2] < d[2]

\* Giving in a little each time, the search comes to an end.
SearchEnds == <>(status # "cutting")
===============================================================================
