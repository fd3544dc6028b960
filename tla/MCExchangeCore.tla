---------------------------- MODULE MCExchangeCore ----------------------------
(***************************************************************************)
(* Small instances of ExchangeCore for TLC.                                  *)
(***************************************************************************)
EXTENDS ExchangeCore, TLC

\* The commands differ only by name.
Symmetry == Permutations(Commands)
=============================================================================
