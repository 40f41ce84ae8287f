--------------------------- MODULE MC_OnlineOrder ---------------------------
(* One or two orders, one of them not worth a whole number of tomans.      *)
EXTENDS OnlineOrder, TLC

CONSTANTS o1, o2, r1, r2

MCRequests == {r1, r2}
OneOrder == {o1}
TwoOrders == {o1, o2}
RoundTotal == (o1 :> 20)
MCTotal == (o1 :> 20) @@ (o2 :> 24)
OddTotal == (o1 :> 24)

Symmetry == Permutations(MCRequests)
=============================================================================
