------------------------------- MODULE MCRslNest -------------------------------
(***************************************************************************)
(* A coarse domain of three points on three processors and a nest of two   *)
(* points under each of the first two.  The model forces all but one inner *)
(* point of the nest and feeds back one point per mother, so that some     *)
(* messages are empty and some as long as they can be, and each domain is  *)
(* cut anew, so that all its points move.                                  *)
(***************************************************************************)
EXTENDS RslNest

MCProc   == 0..2
MCDom    == {"coarse", "nest"}
MCNest   == {"nest"}
MCParent == [n \in MCNest |-> "coarse"]
MCPoint  == 1..3 \union 11..14
MCDomain == [x \in MCPoint |-> IF x < 10 THEN "coarse" ELSE "nest"]
MCMother == [x \in 11..14 |-> IF x < 13 THEN 1 ELSE 2]
MCDefaultCut ==
  [x \in MCPoint |-> CASE x < 10 -> x - 1 [] x = 11 -> 0 [] x = 14 -> 2 [] OTHER -> 1]

CoarseCut == [x \in 1..3 |-> IF x = 3 THEN 0 ELSE 2]
NestCut   == [x \in 11..14 |-> IF x = 11 THEN 2 ELSE 0]

Move(k, pts) == [kind |-> k, nest |-> "nest", packs |-> pts]
Map(d, cut)  == [kind |-> "cut", dom |-> d, P |-> cut]
MCOperation ==
  {Move("force", {11, 12, 14}), Move("feed", {11, 13}),
   Map("coarse", CoarseCut), Map("nest", NestCut)}
===============================================================================
