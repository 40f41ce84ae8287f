------------------------------ MODULE StockRow ------------------------------
(***************************************************************************)
(* What one applyStockDelta computes: the new row of "Inventory" and the   *)
(* "StockMovement" row it writes, as operators on values.  Stock applies   *)
(* them to the tables.                                                     *)
(***************************************************************************)
EXTENDS Integers

\* The NULL avgCost: no cost recorded yet (a cost is never negative).
NoCost == -1

Cost == Nat \cup {NoCost}

Row == [exists : BOOLEAN, quantity : Nat, avgCost : Cost]

Kardex == [total : Int, transferred : Int, balance : Nat]

NoRow == [exists |-> FALSE, quantity |-> 0, avgCost |-> NoCost]

EmptyKardex == [total |-> 0, transferred |-> 0, balance |-> 0]
-----------------------------------------------------------------------------
\* round(n / d) to the unit kept, halves up (n and d are not negative).
RoundDiv(n, d) == (2 * n + d) \div (2 * d)

\* Mutant: the average is divided by the old quantity.
WeightedCostOverOldQuantity(row, delta, unitCost) ==
  IF unitCost = NoCost \/ delta <= 0
    THEN row.avgCost
  ELSE IF row.avgCost = NoCost \/ row.quantity <= 0
    THEN unitCost
  ELSE RoundDiv(row.quantity * row.avgCost + delta * unitCost, row.quantity)

\* The CASE that computes the new weighted average cost of a row.
WeightedCost(row, delta, unitCost) ==
  IF unitCost = NoCost \/ delta <= 0
    THEN row.avgCost
  ELSE IF row.avgCost = NoCost \/ row.quantity <= 0
    THEN unitCost
  ELSE RoundDiv(row.quantity * row.avgCost + delta * unitCost,
                row.quantity + delta)

\* Mutant: the UPDATE loses its quantity guard.
CanApplyToAnyRow(row, delta) == row.exists \/ delta >= 0

\* Both branches of the statement: a row may be updated, or created by a
\* delta that is not negative, and neither may end below zero.
CanApply(row, delta) == row.quantity + delta >= 0

ApplyDelta(row, delta, unitCost) ==
  IF row.exists
    THEN [row EXCEPT !.quantity = @ + delta,
                     !.avgCost = WeightedCost(row, delta, unitCost)]
    ELSE [exists |-> TRUE, quantity |-> delta, avgCost |-> unitCost]

\* Mutant: the incoming half of a transfer is recorded under another reason.
IsTransferOutOnly(reason) == reason = "TRANSFER_OUT"

IsTransfer(reason) == reason \in {"TRANSFER_IN", "TRANSFER_OUT"}

\* Mutant: only incoming movements reach the kardex.
RecordIncomingOnly(k, delta, balance, reason) ==
  IF delta <= 0 THEN k
  ELSE [k EXCEPT !.total = @ + delta, !.balance = balance]

\* The StockMovement row: written for every delta but zero, it carries the
\* quantity that the statement returned.
Record(k, delta, balance, reason) ==
  IF delta = 0 THEN k
  ELSE [total |-> k.total + delta,
        transferred |-> IF IsTransfer(reason) THEN k.transferred + delta
                        ELSE k.transferred,
        balance |-> balance]
=============================================================================
