-------------------------------- MODULE Sums -------------------------------
(* Adding up the rows of a table. The sum is a recursive function over row    *)
(* ids instead of a fold of the community modules because SumsProofs proves   *)
(* facts about it.                                                            *)
EXTENDS Integers

\* f[1] + ... + f[n]
SumTo(f, n) ==
  LET s[k \in 0..n] == IF k = 0 THEN 0 ELSE s[k - 1] + f[k]
  IN  s[n]
=============================================================================
