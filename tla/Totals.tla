-------------------------------- MODULE Totals --------------------------------
(* The sum of a function of numbers over a finite set.                       *)
EXTENDS Integers, FiniteSets, FiniteSetsExt

Total(f, S) == MapThenSumSet(LAMBDA x : f[x], S)
==============================================================================
