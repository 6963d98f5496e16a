---------------------------- MODULE MCRslExchange ----------------------------
(***************************************************************************)
(* Three processors side by side on a row of four cells.  Stencil "west"   *)
(* moves cells only from a processor to its eastern neighbour, so that the *)
(* western ones can run ahead by whole calls; "far" does so from two cells *)
(* away and therefore sends longer messages; "ew" moves cells both ways.   *)
(***************************************************************************)
EXTENDS RslExchange

MCProc    == 0..2
MCCell    == 0..3
MCOwner   == [c \in MCCell |-> IF c = 0 THEN 0 ELSE IF c = 3 THEN 2 ELSE 1]
MCStencil == {"west", "far", "ew"}
MCProg    == [k \in 1..MaxCall |->
                IF k = 1 THEN "ew" ELSE IF k = 2 THEN "west" ELSE "far"]

\* The cells a stencil reads around cell h.
Reach(s, h) == CASE s = "west" -> {h - 1}
                 [] s = "far"  -> {h - 1, h - 2}
                 [] s = "ew"   -> {h - 1, h + 1}

MCUnpack ==
  [s \in MCStencil |-> [p \in MCProc |-> [q \in MCProc |->
    {c \in MCCell : /\ MCOwner[c] = q /\ p # q
                    /\ \E h \in MCCell : MCOwner[h] = p /\ c \in Reach(s, h)}]]]

MCPack == [s \in MCStencil |-> [p \in MCProc |-> [q \in MCProc |->
             MCUnpack[s][q][p]]]]
===============================================================================
