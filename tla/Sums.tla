--------------------------------- MODULE Sums ---------------------------------
(***************************************************************************)
(* Sums of amounts.                                                          *)
(***************************************************************************)
EXTENDS Integers, FiniteSetsExt

\* The sum of the values of a function.
SumOf(f) == MapThenSumSet(LAMBDA x : f[x], DOMAIN f)
=============================================================================
