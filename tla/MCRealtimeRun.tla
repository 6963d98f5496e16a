---------------------------- MODULE MCRealtimeRun ----------------------------
(***************************************************************************)
(* RealtimeRun on cycles whose forecasts overlap in two of three times,    *)
(* enough of them for an archive to miss both runs that would delete it.   *)
(***************************************************************************)
EXTENDS RealtimeRun
===============================================================================
