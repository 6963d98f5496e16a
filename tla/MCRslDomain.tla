----------------------------- MODULE MCRslDomain -----------------------------
(***************************************************************************)
(* Four processors, a mother domain of four by four cells, and nests of    *)
(* ratio three: one rounded up to six by six that loses two rows and two   *)
(* columns, one of a single cell of its mother's, and their nests, which   *)
(* may lie over one another, and ones that do not fit.                     *)
(***************************************************************************)
EXTENDS RslDomain

MCMother == <<4, 4>>
MCMesh   == <<2, 2>>

Nest(par, im, jm, dim) ==
  [par |-> par, sw |-> 0, im |-> im, jm |-> jm, dim |-> dim, trim |-> <<0, 0>>, irax |-> <<3, 3>>]

MCNestCalls ==
  {Nest(1, 2, 2, <<4, 4>>), Nest(1, 3, 3, <<3, 3>>), Nest(2, 1, 4, <<3, 2>>),
   Nest(1, 4, 3, <<4, 4>>), Nest(2, 5, 1, <<3, 3>>)}
  \union {[Nest(1, 1, 3, <<2, 1>>) EXCEPT !.sw = 1, !.trim = <<1, 0>>]}

MCCutCalls ==
  {[fcn |-> "patch", mesh |-> <<2, 1>>], [fcn |-> "region", mesh |-> <<2, 2>>]}

\* A row and a column of a domain divide it between the processors.
Quarters(size, cut) ==
  [c \in Cells(size[1], size[2]) |->
     (IF c[1] < cut[1] THEN 0 ELSE 2) + (IF c[2] < cut[2] THEN 0 ELSE 1)]

MCMapped ==
  [size \in {<<4, 4>>, <<6, 6>>, <<3, 3>>, <<6, 3>>} |->
     {Quarters(size, <<1, 2>>), Quarters(size, <<2, 1>>)}]
===============================================================================
