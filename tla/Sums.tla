-------------------------------- MODULE Sums --------------------------------
(***************************************************************************)
(* The sum of a column over a set of rows, the SUM of a query or the loop  *)
(* that adds rows up.                                                      *)
(***************************************************************************)
EXTENDS FiniteSetsExt

SumOf(f, S) == MapThenSumSet(LAMBDA x : f[x], S)
=============================================================================
