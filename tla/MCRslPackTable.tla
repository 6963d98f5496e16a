---------------------------- MODULE MCRslPackTable ----------------------------
(***************************************************************************)
(* RslPackTable for a sender and its eastern neighbour: six fields, one of *)
(* each strategy, of three levels.  The sender owns rows 0 to 2 and the    *)
(* receiver rows 1 to 4, so that both the offsets and the sizes of their   *)
(* arrays differ; the cells exchanged are the last two of the sender's     *)
(* columns.                                                                *)
(***************************************************************************)
EXTENDS RslPackTable

MCDecomp == [ps  |-> <<"M", "N">>,      psT |-> <<"N", "M">>,
             ua  |-> <<"M", "N", "K">>, uaT |-> <<"N", "M", "K">>,
             qk  |-> <<"K", "M", "N">>, qi  |-> <<"M", "K", "N">>]
MCField  == DOMAIN MCDecomp

MCBase == [s \in Side |->
  IF s = "send" THEN [ps |-> 500, psT |-> 100, ua |-> 300, uaT |-> 200, qk |-> 600, qi |-> 400]
                ELSE [ps |-> 900, psT |-> 500, ua |-> 700, uaT |-> 600, qk |-> 950, qi |-> 800]]

\* Patches with a pad of one row and two columns: the sender's begins at row
\* 0 and column 2, the receiver's at row 1 and column 5.
MCLocal  == [send |-> [M |-> -1, N |-> 0],         recv |-> [M |-> 0, N |-> 3]]
MCExtent == [send |-> [M |-> 5, N |-> 7, K |-> 3], recv |-> [M |-> 6, N |-> 6, K |-> 3]]

Ghosts == (0..2) \X (3..4)

Flat   == {"ps", "ua", "qi"}
Turned == {"psT", "uaT", "qk"}
Both   == {"ps", "uaT", "qi", "qk"}
MCMessage == {Flat, Turned, Both}

\* Any of the cells with one message, fewer with another, or two with several.
MCPoints == {cs \X {Flat} : cs \in (SUBSET Ghosts) \ {{}}}
            \union {cs \X {Turned} : cs \in (SUBSET ((0..1) \X (3..4))) \ {{}}}
            \union {{<<2, 3>>, <<2, 4>>} \X ms : ms \in (SUBSET MCMessage) \ {{}}}
===============================================================================
