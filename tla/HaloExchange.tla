----------------------------- MODULE HaloExchange -----------------------------
(***************************************************************************)
(* What RSL_EXCH_STENCIL promises (exch_sten.c:60-85), with no messages:   *)
(* "when this routine returns, data in the ghost areas around the local    *)
(* partition will have been updated with data from cells on surrounding    *)
(* processors, as described in the stencil".  A process reads its          *)
(* neighbours' cells directly, but only from a neighbour that has entered  *)
(* the same call, and it always gets the values of that call.              *)
(*                                                                         *)
(* The value of a cell is abstracted to its version: the number of the     *)
(* exchange call before which its owner computed it.                       *)
(***************************************************************************)
EXTENDS Naturals

CONSTANTS
  Proc,        \* the compute processors
  Cell,        \* the cells (of one field) that exchanges move
  Owner,       \* [Cell -> Proc], the decomposition
  MaxCall,     \* bound: exchange calls each process makes
  Need         \* Need[k][p][q]: cells of q that p's ghost area takes in call k

VARIABLES
  call,        \* call[p]: number of the exchange call p last entered
  missing,     \* missing[p]: neighbours whose cells p has not taken yet
  mem          \* mem[p][c]: version of cell c in p's memory, ghosts included

vars == <<call, missing, mem>>

Init == /\ call = [p \in Proc |-> 0]
        /\ missing = [p \in Proc |-> {}]
        /\ mem = [p \in Proc |-> [c \in Cell |-> 0]]

\* p has finished its last call, computes its own cells and enters the next.
Enter(p) ==
  /\ missing[p] = {}
  /\ call[p] < MaxCall
  /\ call' = [call EXCEPT ![p] = @ + 1]
  /\ missing' = [missing EXCEPT ![p] = {q \in Proc : Need[call[p] + 1][p][q] # {}}]
  /\ mem' = [mem EXCEPT ![p] =
               [c \in Cell |-> IF Owner[c] = p THEN call[p] + 1 ELSE @[c]]]

\* p takes the cells it needs of q, which has entered this call or a later one.
Take(p, q) ==
  /\ q \in missing[p]
  /\ call[q] >= call[p]
  /\ missing' = [missing EXCEPT ![p] = @ \ {q}]
  /\ mem' = [mem EXCEPT ![p] =
               [c \in Cell |-> IF c \in Need[call[p]][p][q] THEN call[p] ELSE @[c]]]
  /\ UNCHANGED call

Next == \E p \in Proc : Enter(p) \/ \E q \in Proc : Take(p, q)

Spec == Init /\ [][Next]_vars
===============================================================================
