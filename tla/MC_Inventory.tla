---------------------------- MODULE MC_Inventory ----------------------------
(* Inventory on two warehouses and one product, two concurrent transfers. *)
EXTENDS Inventory, TLC

CONSTANTS w1, w2, p1, r1, r2

MCWarehouses == {w1, w2}
MCProducts == {p1}
MCRequests == {r1, r2}
MCUnitCosts == {2, 5}

\* Warehouses are interchangeable, and so are requests.
Symmetry == Permutations(MCWarehouses) \cup Permutations(MCRequests)
=============================================================================
