----------------------------- MODULE MCRslBalance -----------------------------
(***************************************************************************)
(* Calls of mapping_ for domains of up to eleven by eight cells on meshes  *)
(* of up to three by two processors.                                       *)
(***************************************************************************)
EXTENDS RslBalance

Call(m, n, py, px, yl, xl, mother, sp) ==
  [m |-> m, n |-> n, py |-> py, px |-> px, ylimit |-> yl, xlimit |-> xl,
   valid |-> (0..(m - 1)) \X (0..(n - 1)), mother |-> mother, ionode |-> FALSE,
   proc_speeds |-> sp]

Even(py, px) == [i \in 1..py |-> [j \in 1..px |-> 1]]

\* Limits from too little to ample, mothers and nests; equal processors.
EvenCalls ==
  {Call(m, n, py, 2, yl, xl, mother, Even(py, 2)) :
     m \in {7, 9, 11}, n \in {5, 8}, py \in {2, 3}, yl \in 3..6, xl \in {3, 5},
     mother \in BOOLEAN}

\* One slow or one fast processor, and limits that leave room for one cell or none.
Mixed == { <<<<1, 1>>, <<3, 3>>>>, <<<<3, 1>>, <<1, 1>>>>, <<<<1, 2>>, <<2, 3>>>> }

MixedCalls ==
  {Call(m, 6, 2, 2, yl, 3 + (m % 2), mother, sp) :
     m \in {6, 9, 10}, yl \in {4, 5}, mother \in BOOLEAN, sp \in Mixed}

\* An I/O node, and a domain that lacks a corner.
OddCalls ==
  {[Call(6, 6, 2, 2, 4, 4, TRUE, Even(2, 2)) EXCEPT
      !.ionode = io, !.valid = {c \in @ : c[1] < k \/ c[2] < k}] :
     io \in BOOLEAN, k \in {3, 6}}

Calls == EvenCalls \union MixedCalls \union OddCalls
===============================================================================
