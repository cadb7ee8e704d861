-------------------------- MODULE MCAssetRenewals --------------------------
(* Small instances of AssetRenewals for TLC.                                  *)
EXTENDS AssetRenewals, TLC

\* 31 January 2026 and 28 February 2026, which is where a renewal by a month
\* ends; the next one ends on 28 March. The renewal that ends in
\* February has to be confirmed.
Jan31 == DateOf(12 * 2026, 31)
Feb28 == DateOf(12 * 2026 + 1, 28)
MCDates == {Jan31, Feb28}
MCOneDate == {Jan31}
MCAllExpectations == {Jan31, NotSent}
MCToday == DateOf(12 * 2026 + 2, 1)

Interchangeable == Permutations(Requests) \cup Permutations(Keys)
=============================================================================
