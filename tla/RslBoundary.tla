----------------------------- MODULE RslBoundary -----------------------------
(***************************************************************************)
(* The boundary information of a new domain: which of its cells compute,   *)
(* trim_domain of domain_def.c, and how far and on which side its edge is  *)
(* from each of them, work_out_bdy and the walk of fill_boundary.c.        *)
(*                                                                         *)
(* The walk keeps a hand on the edge: it starts at a cell with nothing on  *)
(* its hand's side, leaves a breadcrumb, marks what it passes with the     *)
(* number of the ring, and goes on one ring further in when it comes upon  *)
(* the breadcrumb.  It is done on the dot and on the cross grid, once in   *)
(* each rotation.  A cell is <<i, j>>, i to the north and j to the east.   *)
(***************************************************************************)
EXTENDS Integers, FiniteSets, Sequences, FiniteSetsExt

CONSTANTS
  Nests,          \* the domains: [m, n, valid, mtrim, ntrim]
  Nowhere         \* no current cell: a new place to start is looked for

\* The tags NORTH (RSL_MHIGH), SOUTH (RSL_MLOW), EAST and WEST.
Dirs == {"n", "s", "e", "w"}

Cells(d) == (0..(d.m - 1)) \X (0..(d.n - 1))

ASSUME BoundaryAssumption ==
  /\ \A d \in Nests : /\ d.m \in Nat \ {0} /\ d.n \in Nat \ {0}
                      /\ d.mtrim \in Nat /\ d.ntrim \in Nat
                      /\ d.valid \subseteq Cells(d)
  /\ Nowhere \notin Int \X Int

Passes == << [grid |-> "dot", rot |-> "ccw"], [grid |-> "dot", rot |-> "cw"],
             [grid |-> "cross", rot |-> "ccw"], [grid |-> "cross", rot |-> "cw"] >>

VARIABLES
  nest,           \* the domain that is set up
  points,         \* the cells not trimmed, and those of the cross grid
  pass,           \* the traversal that is running, past Passes when done
  dist,           \* dist[t]: wrk_dbdy of traversal t, on the cells it marked
  side,           \* side[t]: wrk_bdy of traversal t, on the cells it marked
  ring,           \* in
  pos,            \* i, j
  dir,            \* dir
  crumb           \* bc_i, bc_j

vars == <<nest, points, pass, dist, side, ring, pos, dir, crumb>>

-------------------------------------------------------------------------------
(* The cells that compute *)

Way == [n |-> <<1, 0>>, s |-> <<-1, 0>>, e |-> <<0, 1>>, w |-> <<0, -1>>]

Ahead(c, d, k) == <<c[1] + k * Way[d][1], c[2] + k * Way[d][2]>>

\* How many cells of S follow c without a gap: the sweeps' cnt seen from
\* their far end, and the zips of work_out_bdy.
Clear(S, c, d) ==
  CHOOSE k \in 0..Cardinality(S) : /\ Ahead(c, d, k + 1) \notin S
                                  /\ \A l \in 1..k : Ahead(c, d, l) \in S

\* Mutant of TrimmedCells: without the inside north-east corners.
TrimmedInRows(d) ==
  {c \in d.valid : Clear(d.valid, c, "n") < d.mtrim \/ Clear(d.valid, c, "e") < d.ntrim}

\* The outermost mtrim rows and ntrim columns, from the high end, and for
\* each of their cells one further to the west, or to the south.
TrimmedCells(d) ==
  LET up   == {c \in d.valid : Clear(d.valid, c, "n") < d.mtrim}
      east == {c \in d.valid : Clear(d.valid, c, "e") < d.ntrim}
  IN up \union east
     \union ({Ahead(c, "w", Clear(d.valid, c, "n") + 1) : c \in up} \intersect d.valid)
     \union ({Ahead(c, "s", Clear(d.valid, c, "e") + 1) : c \in east} \intersect d.valid)

\* The cells with a dot cell on all four of their corners.
Cross(S) == {c \in S : \A a, b \in {0, 1} : <<c[1] + a, c[2] + b>> \in S}

Points(d) == LET dot == d.valid \ TrimmedCells(d) IN [dot |-> dot, cross |-> Cross(dot)]

\* dist_mlow ... dist_nhigh: 1 on the outermost cell.
DistTo(S, c, d) == Clear(S, c, d) + 1

-------------------------------------------------------------------------------
(* The walk *)

Opposite(d) == [n |-> "s", s |-> "n", e |-> "w", w |-> "e"][d]
RightOf(d)  == [n |-> "e", e |-> "s", s |-> "w", w |-> "n"][d]

\* Mutant of Hand: the table of the clockwise walk has east and west changed.
HandSwapped(rot, d) == IF rot = "ccw" \/ d \in {"e", "w"} THEN RightOf(d)
                       ELSE Opposite(RightOf(d))

\* The side of the hand: where nextcell tries first, and the edge that
\* bdy_from_dir says a cell passed in direction d is on.
Hand(rot, d) == IF rot = "ccw" THEN RightOf(d) ELSE Opposite(RightOf(d))

Running == pass \in DOMAIN Passes
Rot     == Passes[pass].rot
Here    == points[Passes[pass].grid]
Marked  == DOMAIN dist[pass]

\* Mutant of Unvisited: cells outside the grid are not left out.
UnvisitedAnywhere(c) == c \in Cells(nest) /\ c \notin Marked

Unvisited(c) == c \in Here /\ c \notin Marked

\* The first unvisited cell, column by column.
Outermost == {c \in Here \ Marked : \A e \in Here \ Marked :
                c[2] < e[2] \/ (c[2] = e[2] /\ c[1] <= e[1])}

StartOrder == <<"n", "s", "e", "w">>

\* A way that is open with nothing on the hand's side.
CanStart(c, d) == Unvisited(Ahead(c, d, 1)) /\ ~ Unvisited(Ahead(c, Hand(Rot, d), 1))

\* place_to_start: it gives up on the first cell that has no way to start.
Starts == {<<c, d>> \in Outermost \X Dirs : \E k \in 1..4 :
             /\ StartOrder[k] = d /\ CanStart(c, d)
             /\ \A l \in 1..(k - 1) : ~ CanStart(c, StartOrder[l])}

\* The ways nextcell tries, in its order.
Tries == <<Hand(Rot, dir), dir, Opposite(Hand(Rot, dir)), Opposite(dir)>>

\* Whether one of the first k tries came upon the breadcrumb.
FoundCrumb(k) == \E l \in 1..k : Ahead(pos, Tries[l], 1) = crumb

\* A cell may be taken again within its ring, while the breadcrumb is not met.
MayTake(k) ==
  LET c == Ahead(pos, Tries[k], 1)
  IN \/ Unvisited(c)
     \/ c \in Marked /\ dist[pass][c] = ring /\ ~ FoundCrumb(k)

NextTries == {k \in 1..4 : MayTake(k) /\ \A l \in 1..(k - 1) : ~ MayTake(l)}

Mark(c, d, r) ==
  /\ dist' = [dist EXCEPT ![pass] = [x \in Marked \union {c} |-> IF x = c THEN r ELSE @[x]]]
  /\ side' = [side EXCEPT ![pass] =
                [x \in Marked \union {c} |-> IF x = c THEN Hand(Rot, d) ELSE @[x]]]
  /\ pos' = c
  /\ dir' = d
  /\ ring' = r

\* fill_boundary: a place to start is the start of a new ring.
Start ==
  /\ Running /\ pos = Nowhere
  /\ \E s \in Starts :
       /\ Mark(s[1], s[2], ring + 1)
       /\ crumb' = s[1]
  /\ UNCHANGED <<nest, points, pass>>

\* fill_boundary_1: the next cell; after the breadcrumb, of the next ring.
Step ==
  /\ Running /\ pos # Nowhere
  /\ \E k \in NextTries :
       LET c == Ahead(pos, Tries[k], 1) IN
       IF FoundCrumb(k) THEN Mark(c, Tries[k], ring + 1) /\ crumb' = c
                        ELSE Mark(c, Tries[k], ring) /\ crumb' = crumb
  /\ UNCHANGED <<nest, points, pass>>

\* nextcell finds nothing: back to fill_boundary.
Return ==
  /\ Running /\ pos # Nowhere /\ NextTries = {}
  /\ pos' = Nowhere
  /\ UNCHANGED <<nest, points, pass, dist, side, ring, dir, crumb>>

\* Mutant of NextTraversal: in is not reset.
NextTraversalKeepsRing ==
  /\ Running /\ pos = Nowhere /\ Starts = {}
  /\ pass' = pass + 1
  /\ UNCHANGED <<nest, points, dist, side, ring, pos, dir, crumb>>

\* No place to start: the next traversal begins, with in at zero.
NextTraversal ==
  /\ Running /\ pos = Nowhere /\ Starts = {}
  /\ pass' = pass + 1
  /\ ring' = 0
  /\ UNCHANGED <<nest, points, dist, side, pos, dir, crumb>>

Init ==
  /\ nest \in Nests
  /\ points = Points(nest)
  /\ pass = 1
  /\ dist = [t \in DOMAIN Passes |-> << >>]
  /\ side = [t \in DOMAIN Passes |-> << >>]
  /\ ring = 0
  /\ pos = Nowhere
  /\ dir = "n"
  /\ crumb = Nowhere

Next == Start \/ Step \/ Return \/ NextTraversal

Spec == Init /\ [][Next]_vars

\* The walk is one sequential program.
FairSpec == Spec /\ WF_vars(Next)

-------------------------------------------------------------------------------
(* What a model is told (get_bdy_info.c) *)

\* set_bdy_direction, with ties to the diagonal as by default, as a set of
\* sides: where the two rotations differ a corner, RSL_00 to RSL_MN, or for
\* opposite sides none, RSL_INVALID.
Closest(t, c) ==
  LET a == side[t][c]  b == side[t + 1][c] IN IF b = Opposite(a) THEN {} ELSE {a, b}

-------------------------------------------------------------------------------
(* Properties *)

\* Every variable has its type.
TypeOK ==
  /\ nest \in Nests
  /\ pass \in 1..(Len(Passes) + 1)
  /\ \A t \in DOMAIN Passes :
       /\ DOMAIN dist[t] = DOMAIN side[t]
       /\ DOMAIN dist[t] \subseteq points[Passes[t].grid]
       /\ \A c \in DOMAIN dist[t] : dist[t][c] \in 1..ring \/ pass > t
       /\ \A c \in DOMAIN side[t] : side[t][c] \in Dirs
  /\ pos \in Cells(nest) \union {Nowhere}
  /\ dir \in Dirs
  /\ crumb \in Cells(nest) \union {Nowhere}

Rectangular(S) == S = {c[1] : c \in S} \X {c[2] : c \in S}

AtLeastTwo(S) == Cardinality(S) > 1

Done == pass > Len(Passes)

Nearest(S, c) == Min({DistTo(S, c, d) : d \in Dirs})

\* The two rotations of a grid, by the first.
Grids == {1, 3}

\* On a rectangular grid every cell is marked, with its distance to the
\* nearest edge, in both rotations: RSL_DBDY, which the feedback of MM5 takes the inner
\* part of a nest from.
RectangleDistances ==
  \A t \in DOMAIN Passes : LET S == points[Passes[t].grid] IN
    pass > t /\ Rectangular(S) /\ AtLeastTwo(S) =>
      DOMAIN dist[t] = S /\ \A c \in S : dist[t][c] = Nearest(S, c)

\* RSL_CLOSEST on a rectangular grid names only nearest sides, all of them
\* where no two opposite ones are as near.
RectangleSides ==
  Done => \A t \in Grids : LET S == points[Passes[t].grid] IN
    Rectangular(S) /\ AtLeastTwo(S) =>
      \A c \in S :
        LET near == {d \in Dirs : DistTo(S, c, d) = Nearest(S, c)}
        IN /\ Closest(t, c) \subseteq near
           /\ (\A d \in near : Opposite(d) \notin near) => Closest(t, c) = near

\* Whatever MM5 asks of the boundary of a rectangular nest is right.
RectangleBoundary == RectangleDistances /\ RectangleSides

\* Trimming one row and one column leaves the cells whose neighbours to the
\* north, the east and the north-east are all there, on ragged nests too.
TrimmedAsShifted ==
  nest.mtrim = 1 /\ nest.ntrim = 1 =>
    points.dot = {c \in nest.valid : \A a, b \in {0, 1} : <<c[1] + a, c[2] + b>> \in nest.valid}

\* Walking into a dead end and back, no traversal goes round for ever.
EveryTraversalEnds == <>Done
===============================================================================
