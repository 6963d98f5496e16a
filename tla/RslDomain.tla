------------------------------ MODULE RslDomain ------------------------------
(***************************************************************************)
(* The domains of RSL: defining the mother domain and spawning nests       *)
(* (domain_def.c), decomposing them and decomposing them anew (decomp.c,   *)
(* default_decomposition.c, cd.c, patchmap.c, border.c), and what each     *)
(* processor works out from a decomposition (rsl_new_decom.c, in RslRuns). *)
(*                                                                         *)
(* No call communicates: every processor makes the same calls and keeps    *)
(* the same tree of domains, so the calls are steps of all processors at   *)
(* once.  What differs from processor to processor is indexed by it.       *)
(* Trimming and the distances to the boundary are RslBoundary's; here      *)
(* domains are rectangles, as all of MM5's are, and lose their last rows   *)
(* and columns.                                                            *)
(***************************************************************************)
EXTENDS RslRuns

CONSTANTS
  RSL_MAXDOMAINS,    \* how many domains there may be
  Mother,            \* the mother domain: <<mlen, nlen>>
  Mesh,              \* RSL_MESH: <<py, px>>
  rsl_padarea,
  NestCalls,         \* calls of RSL_SPAWN_REGULAR_NEST1 (sw = 0) and RSL_SPAWN_REGULAR_NEST
  DefaultFcn,        \* SET_DEF_DECOMP_FCN
  CutCalls,          \* calls of RSL_FDECOMPOSE: [fcn, mesh]
  Mapped,            \* what MM5's mapping function makes of a domain: [sizes -> sets of P]
  MaxCut,            \* bound: calls of RSL_FDECOMPOSE by the program
  Found              \* the lengths that a processor without a cell to compute may find

Proc == 0..(Mesh[1] * Mesh[2] - 1)
Fcn  == {"patch", "region", "mapping"}

ASSUME DomainAssumption ==
  /\ RSL_MAXDOMAINS \in Nat \ {0} /\ rsl_padarea \in Nat /\ MaxCut \in Nat
  /\ {Mother[1], Mother[2], Mesh[1], Mesh[2]} \subseteq Nat \ {0}
  /\ \A a \in NestCalls : /\ {a.par, a.im, a.jm} \subseteq Nat /\ a.sw \in {0, 1}
                          /\ {a.dim[1], a.dim[2], a.irax[1], a.irax[2]} \subseteq Nat \ {0}
                          /\ {a.trim[1], a.trim[2]} \subseteq Nat
  /\ DefaultFcn \in Fcn
  /\ CutCalls \subseteq [fcn : Fcn, mesh : (1..Mesh[1]) \X (1..Mesh[2])]
  /\ \A size \in DOMAIN Mapped : Mapped[size] \subseteq [Cells(size[1], size[2]) -> Proc]
  /\ Found \subseteq Nat

VARIABLES
  info,        \* domain_info: what every processor knows of each domain
  local,       \* local[d][p]: offsets, sizes and runs of domain d on processor p
  cuts         \* calls of RSL_FDECOMPOSE so far

vars == <<info, local, cuts>>

Domains == DOMAIN info

-------------------------------------------------------------------------------
(* Mapping functions *)

\* What c_locproc is called with: an index p of a length max, of n processors in
\* a row.
Row == [p : Nat, max : Nat, n : Nat \ {0}]

\* The cells of the processor at either margin, and the cell that the length
\* left over gets back.
Width(c)  == LET rem == c.max % c.n
             IN (c.max \div c.n)
                + (IF rem > 0 /\ (rem % 2 = 0 \/ rem > 2 \/ c.p <= c.max \div 2) THEN 1 ELSE 0)
Adjust(c) == IF c.p <= c.max \div 2 /\ (c.max % c.n) % 2 # 0 THEN 1 ELSE 0

\* From the margins of the row inwards.
c_locproc[c \in Row] ==
  IF c.p < Width(c) THEN 0
  ELSE IF c.p > c.max - Width(c) - 1 THEN c.n - 1
  ELSE 1 + c_locproc[[p |-> c.p - Width(c), max |-> c.max - 2 * Width(c) + Adjust(c),
                      n |-> Max({c.n - 2, 1})]]

\* locproc: the processor, of nproc in a row, of index i of len.
Locproc(i, len, nproc) == c_locproc[[p |-> i, max |-> len, n |-> nproc]]

\* patchmap
Patchmap(size, mesh) ==
  LET row == [i \in 0..(size[1] - 1) |-> Locproc(i, size[1], mesh[1])]
      col == [j \in 0..(size[2] - 1) |-> Locproc(j, size[2], mesh[2])]
  IN [c \in Cells(size[1], size[2]) |-> row[c[1]] * mesh[2] + col[c[2]]]

\* decomp_region_2: the cells, row by row, are shared out among the rows of
\* processors, and those of each of them, column by column, among its
\* processors.  No cells for a share is a division by 0.
DecompRegion(size, mesh) ==
  LET n_py == (size[1] * size[2]) \div mesh[1]
      n_px == n_py \div mesh[2]
      row  == [c \in Cells(size[1], size[2]) |->
                 Min({(c[1] * size[2] + c[2]) \div n_py, mesh[1] - 1})]
      before(c) == {e \in DOMAIN row : /\ row[e] = row[c]
                                       /\ e[2] < c[2] \/ (e[2] = c[2] /\ e[1] < c[1])}
  IN {[c \in DOMAIN row |->
         row[c] * mesh[2] + Min({Cardinality(before(c)) \div n_px, mesh[2] - 1})] :
      x \in {y \in {n_px} : y > 0}}

\* What a mapping function may return for a domain of the size.
Decompositions(f, size, mesh) ==
  IF f = "patch" THEN {Patchmap(size, mesh)}
  ELSE IF f = "region" THEN DecompRegion(size, mesh)
  ELSE IF size \in DOMAIN Mapped THEN Mapped[size] ELSE {}

-------------------------------------------------------------------------------
(* The tree of domains *)

CellsOf(d) == Cells(d.len[1], d.len[2])

\* mother_id of cell c of nest n.
MotherOf(n, c) == <<n.coord[1] + (c[1] \div n.irax[1]), n.coord[2] + (c[2] \div n.irax[2])>>

\* The cells that trim_domain knocks out of a rectangle.
Trimmed(n) == {c \in CellsOf(n) :
                 \E x \in 1..2 : c[x] >= n.len[x] - n.trim[x]}

\* The cells of the parent that a nest lies over.
Covered(n) == (n.coord[1]..(n.coord[1] + (n.len[1] \div n.irax[1]) - 1))
              \X (n.coord[2]..(n.coord[2] + (n.len[2] \div n.irax[2]) - 1))

-------------------------------------------------------------------------------
(* Decomposing a domain *)

NoLocal == [off |-> <<INVALID, INVALID>>, size |-> <<INVALID, INVALID>>, dif |-> <<0, 0>>,
            runs |-> [k \in 0..MAX_KINDPAD |-> [j |-> << >>, i |-> << >>]], islabs |-> << >>]

\* idif and jdif are set by the first cell of a pass, and stay when there is
\* none.
Dif(old, off, runs) ==
  IF \A k \in DOMAIN runs : runs[k].j = << >> THEN old ELSE <<-off[1], -off[2]>>

\* rsl_new_decomposition of domain n, which has just got its processors.
NewDecomposition(n, old, found) ==
  [p \in Proc |->
     LET off  == LocalOffset(n.P, p, rsl_padarea)
         runs == PaddedRuns(n.P, Trimmed(n), p, off, n.len[1], n.len[2], found)
     IN [off |-> off, size |-> LocalSize(n.P, p, rsl_padarea), dif |-> Dif(old[p].dif, off, runs),
         runs |-> runs, islabs |-> Islabs(n.P, Trimmed(n), p, off, n.len[1], n.len[2])]]

\* A cell of nest n is in its mother's child record unless another nest has
\* been spawned over her since.
InRecord(g, n, c) == g[g[n].par].over[MotherOf(g[n], c)] = n

Moved(g, d, newP) ==
  [g[d] EXCEPT
     !.P = newP,
     !.mother_P = [c \in DOMAIN @ |-> g[g[d].par].P[MotherOf(g[d], c)]],
     !.kid_P = [c \in DOMAIN @ |-> IF InRecord(g, d, c) THEN newP[c] ELSE @[c]]]

\* Mutant of Told: the cells of the nest keep what they know of their mother.
ToldNothing(g, x, newP) == g[x]

\* The cells in the record of a mother that is redecomposed learn where she is.
Told(g, x, newP) ==
  [g[x] EXCEPT !.mother_P = [c \in DOMAIN @ |->
     IF InRecord(g, x, c) THEN newP[MotherOf(g[x], c)] ELSE @[c]]]

\* RSL_FDECOMPOSE: a cell of d gets its processor, learns its mother's, tells
\* her its own, and tells the cells of the nest over it.  destroy_decomposition
\* has made all of that INVALID first.  A function that fails leaves everything
\* as it was.
Decompose(g, d, newP) ==
  [x \in DOMAIN g |->
     IF x = d THEN Moved(g, d, newP)
     ELSE IF g[x].par = d THEN Told(g, x, newP)
     ELSE g[x]]

-------------------------------------------------------------------------------
(* The calls *)

Init == info = << >> /\ local = << >> /\ cuts = 0

\* RSL_MOTHER_DOMAIN: all cells are valid and computed.
MotherDomain ==
  /\ info = << >>
  /\ \E newP \in Decompositions(DefaultFcn, Mother, Mesh), found \in Found :
       LET d == [par |-> 0, coord |-> <<INVALID, INVALID>>, len |-> Mother, eff |-> Mother,
                 trim |-> <<0, 0>>, irax |-> <<0, 0>>,
                 P |-> newP, mother_P |-> << >>, kid_P |-> << >>,
                 over |-> [c \in DOMAIN newP |-> 0]]
       IN /\ info' = <<d>>
          /\ local' = <<NewDecomposition(d, [p \in Proc |-> NoLocal], found)>>
  /\ UNCHANGED cuts

\* The nest of a call: sizes are given in its own cells (sw = 0) and rounded up
\* to cells of the parent, or in those of the parent.
Spawned(a) ==
  LET span == [x \in 1..2 |-> IF a.sw = 0 THEN (a.dim[x] + a.irax[x] - 1) \div a.irax[x]
                               ELSE a.dim[x]]
      len  == [x \in 1..2 |-> span[x] * a.irax[x]]
  IN [par |-> a.par, coord |-> <<a.im - 1, a.jm - 1>>, len |-> len,
      eff  |-> IF a.sw = 0 THEN a.dim ELSE len,
      trim |-> IF a.sw = 0 THEN [x \in 1..2 |-> len[x] - a.dim[x]] ELSE a.trim,
      irax |-> a.irax]

\* Mutant of Fits: the corners need only be cells of the parent.
FitsWhole(n) ==
  \A c \in Covered(n) : \A x \in 1..2 : c[x] \in 0..(info[n.par].len[x] - 1)

\* The corners of the nest are cells of the parent that compute, or the program
\* stops.
Fits(n) ==
  \A c \in Covered(n) : \A x \in 1..2 : c[x] \in 0..(info[n.par].eff[x] - 1)

\* The nest's cells get their mothers, and each mother a child record, which
\* takes the place of the one of a nest that was spawned over her before.
Linked(n, d) ==
  [x \in 1..d |->
     IF x = d
     THEN [par |-> n.par, coord |-> n.coord, len |-> n.len, eff |-> n.eff, trim |-> n.trim,
           irax |-> n.irax,
           P |-> [c \in CellsOf(n) |-> INVALID], mother_P |-> [c \in CellsOf(n) |-> 0],
           kid_P |-> [c \in CellsOf(n) |-> 0], over |-> [c \in CellsOf(n) |-> 0]]
     ELSE IF x = n.par
     THEN [info[x] EXCEPT !.over = [c \in DOMAIN @ |-> IF c \in Covered(n) THEN d ELSE @[c]]]
     ELSE info[x]]

\* rsl_c_spawn_regnest, rsl_spawn_nest: the nest is linked, trimmed and
\* decomposed.
SpawnNest ==
  /\ Len(info) \in 1..(RSL_MAXDOMAINS - 1)
  /\ \E a \in NestCalls :
       LET n == Spawned(a)
           d == Len(info) + 1
       IN /\ a.par \in Domains
          /\ Fits(n)
          /\ \E newP \in Decompositions(DefaultFcn, n.len, Mesh), found \in Found :
               LET g == Decompose(Linked(n, d), d, newP)
               IN /\ info' = g
                  /\ local' = Append(local,
                       NewDecomposition(g[d], [p \in Proc |-> NoLocal], found))
  /\ UNCHANGED cuts

\* RSL_FDECOMPOSE, with another function or on a part of the processors.
Fdecompose(d, call) ==
  /\ cuts < MaxCut
  /\ cuts' = cuts + 1
  /\ \E newP \in Decompositions(call.fcn, info[d].len, call.mesh), found \in Found :
       LET g == Decompose(info, d, newP)
       IN /\ info' = g
          /\ local' = [local EXCEPT ![d] = NewDecomposition(g[d], @, found)]

Next == MotherDomain \/ SpawnNest \/ \E d \in Domains, call \in CutCalls : Fdecompose(d, call)

Spec == Init /\ [][Next]_vars

-------------------------------------------------------------------------------
(* Properties *)

\* The types.  A nest lies over cells of its parent which compute: what the
\* parent's size is cut down by is trimmed, unless it was given in cells of its
\* own parent, when it is trimmed but its size is not cut down.
TypeOK ==
  /\ Len(info) <= RSL_MAXDOMAINS /\ Len(local) = Len(info) /\ cuts \in 0..MaxCut
  /\ \A d \in Domains :
       LET n == info[d]
       IN /\ n.par \in 0..(d - 1)
          /\ n.P \in [CellsOf(n) -> Proc]
          /\ n.over \in [CellsOf(n) -> {0} \union ((d + 1)..Len(info))]
          /\ n.par # 0 => /\ n.mother_P \in [CellsOf(n) -> Proc]
                          /\ n.kid_P \in [CellsOf(n) -> Proc]
                          /\ Covered(n) \subseteq CellsOf(info[n.par])
                          /\ \A c \in Covered(n) \cap Trimmed(info[n.par]) :
                               \E x \in 1..2 : /\ info[n.par].eff[x] = info[n.par].len[x]
                                               /\ info[n.par].trim[x] > 0
          /\ DOMAIN local[d] = Proc

\* However domains are decomposed anew, above a nest or below it, every cell of
\* the nest that its mother still has in her record knows her processor, and
\* she its: what the counts of a forcing and a feedback are made from
\* (rsl_bcast.c, rsl_merge.c), "don't be a stranger, OK?" (decomp.c:366-367).
TreeAgrees ==
  \A d \in Domains : info[d].par # 0 =>
    \A c \in CellsOf(info[d]) : InRecord(info, d, c) =>
      /\ info[d].mother_P[c] = info[info[d].par].P[MotherOf(info[d], c)]
      /\ info[d].kid_P[c] = info[d].P[c]

\* The cells, in local indices, that runs of one order go through, and how
\* many there are with repetitions.
Through(dir, runs) ==
  UNION {{IF dir = "j" THEN <<x, runs[r].at>> ELSE <<runs[r].at, x>> :
            x \in runs[r].from..runs[r].to} : r \in DOMAIN runs}
Count(runs) == FoldFunction(+, 0, [r \in DOMAIN runs |-> runs[r].to - runs[r].from + 1])

Local(p, d, S) == {<<c[1] - local[d][p].off[1] + 1, c[2] - local[d][p].off[2] + 1>> : c \in S}

\* In both orders and for every padding, the runs of a processor that computes
\* anything go through its cells, and those around them the padding reaches,
\* once each, and through no trimmed one (comp_world.c:76-90); so do its islabs.
RunsCover ==
  \A d \in Domains, p \in Proc :
    LET n   == info[d]
        own == Own(n.P, p)
    IN own \ Trimmed(n) # {} =>
         /\ \A k \in 0..MAX_KINDPAD :
              LET S == Looped(n.P, Trimmed(n), p, k)
              IN \A dir \in {"i", "j"} :
                   /\ Through(dir, local[d][p].runs[k][dir]) = Local(p, d, S)
                   /\ Count(local[d][p].runs[k][dir]) = Cardinality(S)
         /\ Through("j", local[d][p].islabs) = Local(p, d, own \ Trimmed(n))

\* A processor that has cells but computes none finds leftovers in place of its
\* runs, so what follows is of the others.
Sound(d, p) == LET own == Own(info[d].P, p) IN own = {} \/ own \ Trimmed(info[d]) # {}

Rectangle(S) == S = {} \/ S = (Low(S, 1)..High(S, 1)) \X (Low(S, 2)..High(S, 2))

\* The local indices that a loop of MM5 from lo to hi goes through:
\* FLIC_DO_N and FLIC_DO_M, do j = js(lo), je(hi).
Loop(b, lo, hi) == b[lo][1]..b[hi][2]

\* A processor's loops go through its cells.  RSL's runs do, and where its part
\* is a rectangle any loop that MM5 writes from one global index to another goes
\* through exactly its own rows or columns between them, and those the padding
\* reaches, although the bounds of every such loop are made from the first run
\* alone: "note assumptions on order of traversal, contiguity of points, and
\* rectangularity of partitions" (comp_world.c:459-460).
LoopsMeetTheirCells ==
  /\ RunsCover
  /\ \A d \in Domains, p \in Proc :
       LET n == info[d]
           l == local[d][p]
       IN Sound(d, p) /\ Rectangle(Own(n.P, p)) =>
            \A k \in 0..MAX_KINDPAD :
              LET S   == Looped(n.P, Trimmed(n), p, k)
                  run == [x \in 1..2 |-> FirstRun(IF x = 1 THEN l.runs[k].j ELSE l.runs[k].i)]
              IN \A x \in 1..2 :
                   LET b  == Bounds(run[x], l.dif[x], n.len[x])
                       at == {c[x] : c \in S}
                   IN \A lo, hi \in 1..n.len[x] :
                        Loop(b, lo, hi) = {g - l.off[x] + 1 : g \in at \cap ((lo - 1)..(hi - 1))}
===============================================================================
