---------------------------- MODULE MC_Purchases ----------------------------
(* Two forms, one of which is received at once, and two requests. *)
EXTENDS Purchases, TLC

CONSTANTS k1, k2, r1, r2

TwoRequests == {r1, r2}

TwoRequestSymmetry == Permutations(TwoRequests)
=============================================================================
