-------------------------------- MODULE Sums --------------------------------
(* Sums of the values of a function, as the accounts of disk and memory are. *)
EXTENDS Naturals, FiniteSetsExt

SumOf(f, S) == MapThenSumSet(LAMBDA x : f[x], S)
=============================================================================
