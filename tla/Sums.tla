-------------------------------- MODULE Sums --------------------------------
(***************************************************************************)
(* Python's sum() over a mapping or a sequence of numbers.  The function   *)
(* is an argument, not an operator, so that facts about it can be cited.   *)
(***************************************************************************)
EXTENDS FiniteSetsExt

SumOf(f) == MapThenSumSet(LAMBDA i : f[i], DOMAIN f)
=============================================================================
