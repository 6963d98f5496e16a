---------------------------- MODULE MCRslBoundary ----------------------------
(***************************************************************************)
(* Rectangular nests up to 7 by 6 with up to two rows and columns trimmed, *)
(* and the nests that can be made of four squares of three by three or     *)
(* four by four cells, each square the nest's points in one of the         *)
(* parent's, or a group of them.                                           *)
(***************************************************************************)
EXTENDS RslBoundary

Rectangle(m, n, mt, nt) ==
  [m |-> m, n |-> n, valid |-> (0..(m - 1)) \X (0..(n - 1)), mtrim |-> mt, ntrim |-> nt]

Rectangles == {Rectangle(m, n, t, t) : m \in {1, 2, 5, 7}, n \in {2, 5, 6}, t \in {0}}
              \union {Rectangle(6, 6, mt, nt) : mt, nt \in 0..2}

Squares(k, bs, t) ==
  [m |-> 2 * k, n |-> 2 * k, mtrim |-> t, ntrim |-> t,
   valid |-> {c \in (0..(2 * k - 1)) \X (0..(2 * k - 1)) : <<c[1] \div k, c[2] \div k>> \in bs}]

\* Without the two that only touch at a corner.
Blocks == {bs \in SUBSET ((0..1) \X (0..1)) : Cardinality(bs) > 2}

Ragged == {Squares(k, bs, t) : k \in {3, 4}, bs \in Blocks, t \in 0..1}

MCNests == Rectangles \union Ragged

MCNowhere == <<>>
===============================================================================
