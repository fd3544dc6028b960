------------------------------- MODULE MCServer -------------------------------
(***************************************************************************)
(* Small instances of Server for TLC, without symmetry: they check liveness.  *)
(***************************************************************************)
EXTENDS Server

\* The first client has requests to repeat, the second one is there to interfere.
Budget == <<3, 1>>
=============================================================================
