--------------------------- MODULE MC_Consignment ---------------------------
(* A document of two lines given out from one shelf and one line taken in, *)
(* moved by two requests.                                                  *)
EXTENDS Consignment, TLC

CONSTANTS w1, p1, out, in, a1, a2, b, r1, r2

MCLines == {a1, a2, b}
MCDocumentOf == a1 :> out @@ a2 :> out @@ b :> in
MCProductOf == [l \in MCLines |-> p1]
MCQuantityOf == a1 :> 2 @@ a2 :> 1 @@ b :> 1
MCPriceOf == a1 :> 5 @@ a2 :> 0 @@ b :> 5
MCDirection == out :> "OUT" @@ in :> "IN"
MCWarehouseOf == out :> w1 @@ in :> w1
MCUnitCosts == {3, 8}

\* Requests are interchangeable.
Symmetry == Permutations({r1, r2})
=============================================================================
