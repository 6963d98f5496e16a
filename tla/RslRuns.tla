------------------------------- MODULE RslRuns -------------------------------
(***************************************************************************)
(* What rsl_new_decomposition (rsl_new_decom.c) works out for one          *)
(* processor from the decomposition of a domain: where its part of the     *)
(* domain lies in its local arrays, and the runs its loops go through, for *)
(* each kind of padding.  RSL_REG_RUN_INFOP (comp_world.c) makes the loop  *)
(* bounds of MM5's FLIC_DO macros from them.                               *)
(*                                                                         *)
(* A cell is <<i, j>>, m index and n index, from 0.  A decomposition P     *)
(* gives each cell of the domain its processor, or INVALID.  Paddings are  *)
(* those of RSL_ALLOW_DYNPAD, which MM5 calls.                             *)
(***************************************************************************)
EXTENDS Integers, SequencesExt

MAX_KINDPAD == 8
INVALID     == -1
BIG         == 999999

Cells(m, n) == (0..(m - 1)) \X (0..(n - 1))

Own(P, p) == {c \in DOMAIN P : P[c] = p}

-------------------------------------------------------------------------------
(* Where the processor's part lies *)

Low(S, x)  == CHOOSE a \in {c[x] : c \in S} : \A c \in S : a <= c[x]
High(S, x) == CHOOSE a \in {c[x] : c \in S} : \A c \in S : a >= c[x]

\* ilocaloffset and jlocaloffset
LocalOffset(P, p, padarea) ==
  LET own == Own(P, p)
  IN IF own = {} THEN <<INVALID - padarea, INVALID - padarea>>
     ELSE <<Low(own, 1) - padarea, Low(own, 2) - padarea>>

\* mloc and nloc
LocalSize(P, p, padarea) ==
  LET own == Own(P, p)
  IN IF own = {} THEN <<0, 0>>
     ELSE [x \in 1..2 |-> High(own, x) - Low(own, x) + 1 + 2 * padarea]

-------------------------------------------------------------------------------
(* The cells of a loop *)

\* The cells whose stencil for padding k has c on it: squares, and for 7 and 8
\* one and two cells to the north and south (rsl_2ptm, rsl_4ptm).
On(k, c) ==
  IF k <= 6 THEN ((c[1] - k)..(c[1] + k)) \X ((c[2] - k)..(c[2] + k))
  ELSE ((c[1] + 6 - k)..(c[1] + k - 6)) \X {c[2]}

\* The processor's own cells and those count_neighbors marks, none of them
\* trimmed.
Looped(P, trimmed, p, k) ==
  {c \in DOMAIN P \ trimmed :
     P[c] = p \/ (k > 0 /\ P[c] # INVALID /\ \E h \in On(k, c) : h \in DOMAIN P /\ P[h] = p)}

\* The order of a loop: "j" has the n index outermost, "i" the m index.
Order(dir, m, n) ==
  IF dir = "j" THEN [x \in 1..(m * n) |-> <<(x - 1) % m, (x - 1) \div m>>]
  ELSE [x \in 1..(m * n) |-> <<(x - 1) \div n, (x - 1) % n>>]

Major(dir, c) == IF dir = "j" THEN c[2] ELSE c[1]
Minor(dir, c) == IF dir = "j" THEN c[1] ELSE c[2]

Follows(dir, a, b) == Major(dir, b) = Major(dir, a) /\ Minor(dir, b) = Minor(dir, a) + 1

-------------------------------------------------------------------------------
(* Runs, in local indices from 1 *)

\* js, is, ie in order "j" and is2, js2, je2 in order "i"; off is the local
\* offset.
Run(dir, off, start, length) ==
  LET from == Minor(dir, start) - Minor(dir, off) + 1
  IN [at |-> Major(dir, start) - Major(dir, off) + 1, from |-> from, to |-> from + length - 1]

\* runlength: the cells from the head of run r up to the next run's head.
Length(heads, r, count) ==
  IF r < Len(heads) THEN heads[r + 1] - heads[r] ELSE count + 1 - heads[r]

\* Where, in a loop through the cells, a run begins: a cell that does not follow
\* the one before.
Heads(dir, cells) ==
  SelectSeq([x \in 1..Len(cells) |-> x],
            LAMBDA x : x = 1 \/ ~ Follows(dir, cells[x - 1], cells[x]))

\* start and runlength of each run of a loop.  They are not set before the
\* first cell: a loop through no cell ends with a run of what was left in them,
\* unless the length is 0.
Streaks(dir, cells, left) ==
  LET heads == Heads(dir, cells)
  IN IF cells = << >> THEN SelectSeq(<<left>>, LAMBDA s : s.length # 0)
     ELSE [r \in 1..Len(heads) |->
             [start |-> cells[heads[r]], length |-> Length(heads, r, Len(cells))]]

Runs(dir, off, cells, left) ==
  LET s == Streaks(dir, cells, left)
  IN [r \in 1..Len(s) |-> Run(dir, off, s[r].start, s[r].length)]

\* The loops of both orders for each padding in turn, none on a processor that
\* has no cell.  One that has only trimmed cells begins with the length found.
PaddedRuns(P, trimmed, p, off, m, n, found) ==
  LET in == [k \in 0..MAX_KINDPAD |-> Looped(P, trimmed, p, k)]
      loop(dir, k) == LET S == in[k] IN SelectSeq(Order(dir, m, n), LAMBDA c : c \in S)
      left[k \in 0..MAX_KINDPAD] ==
        IF k = 0 THEN [start |-> <<0, 0>>, length |-> found]
        ELSE IF in[k - 1] = {} THEN left[k - 1]
        ELSE Last(Streaks("i", loop("i", k - 1), left[k - 1]))
  IN [k \in 0..MAX_KINDPAD |->
        IF Own(P, p) = {} THEN [j |-> << >>, i |-> << >>]
        ELSE [j |-> Runs("j", off, loop("j", k), left[k]), i |-> Runs("i", off, loop("i", k), left[k])]]

\* iruns: one run of one cell somewhere if there is no cell to compute.
Islabs(P, trimmed, p, off, m, n) ==
  LET pts == SelectSeq(Order("j", m, n), LAMBDA c : P[c] = p /\ c \notin trimmed)
  IN Runs("j", off, pts, [start |-> <<0, 0>>, length |-> 1])

-------------------------------------------------------------------------------
(* Loop bounds *)

NoRun == [at |-> BIG, from |-> BIG, to |-> -BIG]

\* Mutant of Bounds: the local index is taken for the global one.
BoundsUnshifted(run, dif, length) ==
  [g \in 1..length |->
     IF g < run.from THEN <<run.from, -BIG>>
     ELSE IF g > run.to THEN <<BIG, run.to>>
     ELSE LET x == run.from + g - Max({run.from, 1}) IN <<x, x>>]

\* js, je or is, ie of RSL_REG_RUN_INFOP, from the first run in their
\* direction: where a loop from, and a loop to, global index g starts and ends.
Bounds(run, dif, length) ==
  [g \in 1..length |->
     IF g < run.from - dif THEN <<run.from, -BIG>>
     ELSE IF g > run.to - dif THEN <<BIG, run.to>>
     ELSE LET x == run.from + g - Max({run.from - dif, 1}) IN <<x, x>>]

FirstRun(runs) == IF runs = << >> THEN NoRun ELSE runs[1]
===============================================================================
