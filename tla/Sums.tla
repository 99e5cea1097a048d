-------------------------------- MODULE Sums --------------------------------
(* SUM(column) over the rows of a query, as the quotas use it.               *)
EXTENDS Naturals, FiniteSetsExt

\* The sum of w[x] over the x in S.
SumOver(w, S) == MapThenSumSet(LAMBDA x : w[x], S)

=============================================================================
