---------------------------- MODULE MC_Treasury ----------------------------
(* Two accounts, two statements of two lines, two requests at a time.      *)
EXTENDS Treasury, TLC

CONSTANTS a1, a2, t1, t2, t3, k1, k2, s1, s2, r1, r2

OneAccount == {a1}
TwoAccounts == {a1, a2}
TwoTransactions == {t1, t2}
ThreeTransactions == {t1, t2, t3}
OneReconciliation == {k1}
TwoReconciliations == {k1, k2}
TwoLines == {s1, s2}
OneRequest == {r1}
TwoRequests == {r1, r2}
OneDay == {1}
TwoDays == {1, 2}
OneBalance == {1}
TwoBalances == {0, 1}

Symmetry ==
  Permutations(TwoAccounts) \cup Permutations(TwoTransactions) \cup Permutations(TwoReconciliations)
  \cup Permutations(TwoLines) \cup Permutations(TwoRequests)
=============================================================================
