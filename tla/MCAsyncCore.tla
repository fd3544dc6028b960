----------------------------- MODULE MCAsyncCore -----------------------------
(***************************************************************************)
(* Small instances of AsyncCore for TLC.  They check liveness, so there is no *)
(* symmetry.                                                                 *)
(***************************************************************************)
EXTENDS AsyncCore
=============================================================================
