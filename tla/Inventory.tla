----------------------------- MODULE Inventory -----------------------------
(***************************************************************************)
(* InventoryService: manual adjustment and the transfer of goods between   *)
(* two warehouses, beside the receipts of purchases and the issues of      *)
(* sales that go through the same statement.                               *)
(*                                                                         *)
(* transfer is two steps: it reads the source's avgCost without a lock,    *)
(* then debits and credits; other transactions commit in between.          *)
(***************************************************************************)
EXTENDS Stock, FiniteSetsExt

CONSTANTS TransferRequests, \* concurrent transfer requests
          UnitCosts,        \* landed unit costs that purchases are received at
          MaxQty            \* bound: largest quantity of a cell or of one delta

ASSUME InventoryConstants ==
  /\ IsFiniteSet(Warehouses)
  /\ UnitCosts \subseteq Nat
  /\ MaxQty \in Nat \ {0}

VARIABLES transfer,   \* [TransferRequests -> a transfer request and its locals]
          paid        \* [Products -> costs it was ever received at] (history)

vars == <<inventory, kardex, transfer, paid>>

Qty == 1..MaxQty

NoTransfer == [pc |-> "idle"]

Transfers ==
  [pc : {"read"}, product : Products, from : Warehouses, to : Warehouses,
   quantity : Qty, movingCost : Cost]
  \cup [pc : {"done"}, movingCost : Cost, sourceCost : Cost]

TypeOK ==
  /\ StockTypeOK
  /\ transfer \in [TransferRequests -> Transfers \cup {NoTransfer}]
  /\ paid \in [Products -> SUBSET UnitCosts]

Init ==
  /\ StockInit
  /\ transfer = [r \in TransferRequests |-> NoTransfer]
  /\ paid = [p \in Products |-> {}]

\* Bound of the model: no cell exceeds MaxQty, no cell's transfers drift
\* further than MaxQty.
Bounded(c, delta) ==
  /\ inventory[c].quantity + delta <= MaxQty
  /\ kardex[c].transferred + delta \in -MaxQty..MaxQty
-----------------------------------------------------------------------------
(* InventoryService.adjust: any signed change, no cost passed.  A zero     *)
(* change is accepted and leaves no movement.                              *)
Adjust(w, p, delta) ==
  /\ Bounded(<<w, p>>, delta)
  /\ ApplyStockDelta(<<w, p>>, delta, "ADJUST", NoCost)
  /\ UNCHANGED <<transfer, paid>>

(* PurchasesService.receive, the stock of one item: the landed unit cost   *)
(* enters the weighted average.                                            *)
ReceivePurchase(w, p, qty, landedUnitCost) ==
  /\ Bounded(<<w, p>>, qty)
  /\ ApplyStockDelta(<<w, p>>, qty, "PURCHASE", landedUnitCost)
  /\ paid' = [paid EXCEPT ![p] = @ \cup {landedUnitCost}]
  /\ UNCHANGED transfer

(* SalesService.create, the stock of one tracked item.                     *)
IssueSale(w, p, qty) ==
  /\ ApplyStockDelta(<<w, p>>, -qty, "SALE", NoCost)
  /\ UNCHANGED <<transfer, paid>>

(* InventoryService.transfer up to the unlocked read of the source's cost. *)
TransferRead(r, p, from, to, qty) ==
  /\ transfer[r] = NoTransfer
  /\ from # to
  /\ transfer' = [transfer EXCEPT ![r] =
       [pc |-> "read", product |-> p, from |-> from, to |-> to,
        quantity |-> qty, movingCost |-> inventory[<<from, p>>].avgCost]]
  /\ UNCHANGED <<inventory, kardex, paid>>

(* ... and from the debit to the commit.  sourceCost records the cost the  *)
(* goods really had when they left, for TransferCarriesItsCost.            *)
TransferMove(r) ==
  LET t == transfer[r]
      source == <<t.from, t.product>>
      target == <<t.to, t.product>>
      debited == inventory[source].quantity - t.quantity
  IN /\ t.pc = "read"
     /\ Bounded(target, t.quantity) /\ Bounded(source, -t.quantity)
     /\ CanApply(inventory[source], -t.quantity)
     /\ inventory' = [inventory EXCEPT
          ![source] = ApplyDelta(@, -t.quantity, NoCost),
          ![target] = ApplyDelta(@, t.quantity, t.movingCost)]
     /\ kardex' = [kardex EXCEPT
          ![source] = Record(@, -t.quantity, debited, "TRANSFER_OUT"),
          ![target] = Record(@, t.quantity,
                        inventory[target].quantity + t.quantity,
                        "TRANSFER_IN")]
     /\ transfer' = [transfer EXCEPT ![r] =
          [pc |-> "done", movingCost |-> t.movingCost,
           sourceCost |-> inventory[source].avgCost]]
     /\ UNCHANGED paid

(* The source no longer holds the quantity: the transaction rolls back.    *)
TransferRefused(r) ==
  LET t == transfer[r]
  IN /\ t.pc = "read"
     /\ ~CanApply(inventory[<<t.from, t.product>>], -t.quantity)
     /\ transfer' = [transfer EXCEPT ![r] = NoTransfer]
     /\ UNCHANGED <<inventory, kardex, paid>>

(* The request has been answered; its worker serves another one.           *)
TransferAnswered(r) ==
  /\ transfer[r].pc = "done"
  /\ transfer' = [transfer EXCEPT ![r] = NoTransfer]
  /\ UNCHANGED <<inventory, kardex, paid>>

Next ==
  \/ \E w \in Warehouses, p \in Products :
       \/ \E delta \in -MaxQty..MaxQty : Adjust(w, p, delta)
       \/ \E qty \in Qty, cost \in UnitCosts : ReceivePurchase(w, p, qty, cost)
       \/ \E qty \in Qty : IssueSale(w, p, qty)
  \/ \E r \in TransferRequests :
       \/ \E p \in Products, from, to \in Warehouses, qty \in Qty :
            TransferRead(r, p, from, to, qty)
       \/ TransferMove(r)
       \/ TransferRefused(r)
       \/ TransferAnswered(r)

Spec == Init /\ [][Next]_vars
-----------------------------------------------------------------------------
(* Goods on the road between two warehouses neither vanish nor multiply:   *)
(* over the warehouses, what TRANSFER_OUT took is what TRANSFER_IN put     *)
(* back, whatever commits between the two halves of transfer.              *)
TransfersConserveGoods ==
  \A p \in Products :
    SumFunctionOnSet([w \in Warehouses |-> kardex[<<w, p>>].transferred], Warehouses) = 0

WithinPaid(cost, paidCosts) ==
  cost # NoCost => \E lo, hi \in paidCosts : lo <= cost /\ cost <= hi

(* The weighted average of any shelf lies between the cheapest and the     *)
(* dearest cost the product was ever received at: neither the rounding,    *)
(* nor an emptied shelf, nor a stale cost carried by a transfer moves it   *)
(* out of that range.                                                      *)
AvgCostWithinPaid ==
  \A c \in Cells : WithinPaid(inventory[c].avgCost, paid[c[2]])

(* The comment of transfer: the cost must travel with the goods, else the  *)
(* value of the company's stock silently changes although nothing was      *)
(* bought or sold.                                                         *)
TransferCarriesItsCost ==
  \A r \in TransferRequests :
    transfer[r].pc = "done" => transfer[r].movingCost = transfer[r].sourceCost

(* The two ends of a transfer in progress differ.                          *)
TransferEndsDiffer ==
  \A r \in TransferRequests : transfer[r].pc = "read" => transfer[r].from # transfer[r].to

(* The inductive invariant behind KardexExplainsStock.                     *)
IInv == TypeOK /\ AbsentRowIsEmpty /\ TransferEndsDiffer /\ KardexExplainsStock

(* A cost on the road was paid too.                                        *)
MovingCostWithinPaid ==
  \A r \in TransferRequests : transfer[r].pc = "read" =>
    WithinPaid(transfer[r].movingCost, paid[transfer[r].product])

(* The inductive invariant behind AvgCostWithinPaid.                       *)
CostIInv == IInv /\ AvgCostWithinPaid /\ MovingCostWithinPaid

(* The inductive invariant behind TransfersConserveGoods.                  *)
TransferIInv == IInv /\ TransfersConserveGoods
=============================================================================
