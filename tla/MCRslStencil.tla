---------------------------- MODULE MCRslStencil ----------------------------
(***************************************************************************)
(* A domain of two rows and four columns, numbered row by row from the     *)
(* south-west, on up to three processors, with the four- and eight-point   *)
(* stencils numbered as in pt.c.                                           *)
(***************************************************************************)
EXTENDS RslStencil, Integers

MCProc     == 0..2
MCPoint    == 0..7
MCOutside  == 99
MCShape    == {"4pt", "8pt"}
MCPts      == [sh \in MCShape |-> IF sh = "4pt" THEN 1..4 ELSE 1..8]

\* Rows north and columns east of the home point, by index.
North == [sh \in MCShape |-> IF sh = "4pt" THEN <<1, 0, 0, -1>>
                             ELSE <<1, 1, 1, 0, 0, -1, -1, -1>>]
East  == [sh \in MCShape |-> IF sh = "4pt" THEN <<0, -1, 1, 0>>
                             ELSE <<-1, 0, 1, -1, 1, -1, 0, 1>>]

MCAt == [sh \in MCShape |-> [k \in MCPts[sh] |-> [h \in MCPoint |->
          LET row == (h \div 4) + North[sh][k]
              col == (h % 4) + East[sh][k]
          IN IF row \in 0..1 /\ col \in 0..3 THEN 4 * row + col ELSE MCOutside]]]

MCInv == [sh \in MCShape |-> [k \in MCPts[sh] |-> (IF sh = "4pt" THEN 5 ELSE 9) - k]]

MCField == {"psa", "ua"}

\* The example of the documentation, W, SW and S; what define_comms.F builds
\* before soundb, N, NE and E; and every point.
MCMessages ==
  [sh \in MCShape |->
     IF sh = "4pt"
     THEN {[k \in 1..4 |-> IF k = 3 THEN {"ua"} ELSE IF k = 1 THEN {"psa"} ELSE {}],
           [k \in 1..4 |-> {"psa"}]}
     ELSE {[k \in 1..8 |-> IF k \in {4, 6, 7} THEN {"psa", "ua"} ELSE {}],
           [k \in 1..8 |-> IF k \in {2, 3, 5} THEN {"ua"} ELSE {}]}]

\* The last column is trimmed.
MCTrimmed == {3, 7}

Halves   == [c \in MCPoint |-> IF c % 4 < 2 THEN 0 ELSE 1]
Rows     == [c \in MCPoint |-> IF c < 4 THEN 0 ELSE 2]
Strips   == [c \in MCPoint |-> IF c % 4 = 0 THEN 0 ELSE IF c % 4 = 1 THEN 1 ELSE 2]
MCDecomps == {Halves, Rows, Strips}

\* What the theorems of RslStencilProofs ask of the calling model holds here,
\* where each processor has a point that computes.
ASSUME PointsToTheTheorems == ShapesFit /\ (Decomps = MCDecomps => TouchUntrimmed)

Fails == {TRUE, FALSE}
===============================================================================
