---------------------------- MODULE MC_StockCount ----------------------------
(* Two units of each product are there.                                    *)
EXTENDS StockCount, TLC

CONSTANTS p1, p2, f1, f2

MCFlushers == {f1}
TwoFlushers == {f1, f2}

Symmetry == Permutations({p1, p2})
=============================================================================
