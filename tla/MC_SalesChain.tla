--------------------------- MODULE MC_SalesChain ---------------------------
(* One order of two items, three requests that ship and invoice.            *)
EXTENDS SalesChain, TLC

CONSTANTS q1, o1, o2, s1, s2, i1, i2, r1, r2, r3

OneQuotation == {q1}
OneOrder == {o1}
TwoOrders == {o1, o2}
TwoSales == {s1, s2}
TwoItems == {i1, i2}
ThreeRequests == {r1, r2, r3}
TwoRequests == {r1, r2}

Symmetry ==
  Permutations(TwoOrders) \cup Permutations(TwoSales) \cup Permutations(TwoItems)
  \cup Permutations(ThreeRequests)
=============================================================================
