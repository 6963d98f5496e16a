------------------------------ MODULE MCMm5Run ------------------------------
(***************************************************************************)
(* Mm5Run with two processors, a coarse domain, a nest and a nest in it,   *)
(* in ticks of a third of a minute: a coarse step of 3 minutes is 9 ticks, *)
(* one of the inner nest 1.                                                *)
(***************************************************************************)
EXTENDS Mm5Run

\* The inner nest begins when the outer one has made two steps and ends before
\* it; output every two steps, but every four for the outer nest; restart
\* files every three; a forecast of five steps, or of six.
Nested ==
  [minute |-> 3, step |-> 9, mother |-> <<0, 1, 2>>, start |-> <<0, 0, 18>>,
   end |-> <<0, 45, 36>>, tapfrq |-> 18, savfrq |-> 27, inctap |-> <<1, 2, 1>>,
   bdyfirst |-> 0, bdyfrq |-> 27, bdys |-> 3, svlast |-> FALSE, timax |-> {45, 54}]

\* The same with restart files every two steps, of which only the last are kept.
LastOnly == [Nested EXCEPT !.svlast = TRUE, !.savfrq = 18, !.timax = {45}]

\* No interval is a whole number of steps.  The boundaries begin before the
\* forecast and end before the longer one.  The nests would begin after it.
Uneven ==
  [Nested EXCEPT !.start = <<0, 90, 90>>, !.end = <<0, 90, 90>>, !.tapfrq = 14,
                 !.savfrq = 20, !.bdyfirst = -20, !.bdyfrq = 20, !.bdys = 3,
                 !.timax = {50, 70}]

\* A nest that begins between two coarse steps.
Between ==
  [Nested EXCEPT !.mother = <<0, 1, 1>>, !.start = <<0, 3, 90>>, !.end = <<0, 54, 90>>,
                 !.timax = {54}]

\* Two nests that end together, at a time of restart files.
Together == [LastOnly EXCEPT !.end = <<0, 36, 36>>]

\* Steps are no whole number of minutes, and restart files are written at 24 and
\* 48 ticks: in minutes of 9 ticks, 27 and 45.
Minutely ==
  [Nested EXCEPT !.minute = 9, !.step = 6, !.mother = <<0, 1, 1>>, !.start = <<0, 6, 300>>,
                 !.end = <<0, 34, 300>>, !.savfrq = 24, !.bdyfrq = 30, !.timax = {60}]

Several == {Nested, LastOnly, Uneven, Between, Together, Minutely}
===============================================================================
