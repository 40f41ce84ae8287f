-------------------------- MODULE Inventory_proofs --------------------------
(***************************************************************************)
(* Inventory keeps its types, its quantities non-negative and its kardex   *)
(* in step with the shelves, for any warehouses, products, requests, costs *)
(* and bound.                                                              *)
(*                                                                         *)
(* The second half is about Sales: payments, debts and drawers, for any    *)
(* invoices, cash boxes and requests, and any size of an invoice.          *)
(***************************************************************************)
EXTENDS Inventory, Sales, Lemmas

(* The stock tables are typed and explained, in the words of Lemmas.       *)
LEMMA StockInvExplained ==
  /\ StockInv <=> Explained(Cells, inventory, kardex)
  /\ StockInv' <=> Explained(Cells, inventory', kardex')
BY DEF StockInv, StockTypeOK, AbsentRowIsEmpty, KardexExplainsStock, Explained

(* One accepted applyStockDelta keeps the tables typed and explained.      *)
LEMMA ApplyStockDeltaPreserves ==
  ASSUME StockInv, NEW c \in Cells, NEW delta \in Int, NEW reason,
         NEW unitCost \in Cost, ApplyStockDelta(c, delta, reason, unitCost)
  PROVE  StockInv'
BY StockInvExplained, ApplyDeltaExplained DEF ApplyStockDelta

(* The empty database satisfies the inductive invariant.                   *)
LEMMA InitIInv == Init => IInv
BY DEF Init, StockInit, IInv, TypeOK, StockTypeOK, AbsentRowIsEmpty,
       TransferEndsDiffer, KardexExplainsStock, NoRow, EmptyKardex, Row,
       Kardex, Cost, NoCost, NoTransfer, Transfers

(* Both halves of a transfer, committed together, keep the tables typed    *)
(* and explained.                                                          *)
LEMMA TransferMovePreserves ==
  ASSUME IInv, NEW r \in TransferRequests, TransferMove(r)
  PROVE  StockInv' /\ transfer' \in [TransferRequests -> Transfers \cup {NoTransfer}]
         /\ TransferEndsDiffer'
<1> USE InventoryConstants DEF Qty
<1> DEFINE t == transfer[r]
           s == <<t.from, t.product>>
           d == <<t.to, t.product>>
           q == t.quantity
<1>1. t.pc = "read" /\ t \in Transfers
  BY DEF IInv, TypeOK, TransferMove, NoTransfer
<1>2. t.from \in Warehouses /\ t.to \in Warehouses /\ t.product \in Products
      /\ q \in Nat /\ t.movingCost \in Cost /\ t.from # t.to
  BY <1>1 DEF Transfers, IInv, TransferEndsDiffer
<1>3. s \in Cells /\ d \in Cells /\ s # d
  BY <1>2 DEF Cells
<1> DEFINE out == ApplyDelta(inventory[s], -q, NoCost)
           in == ApplyDelta(inventory[d], q, t.movingCost)
           kout == Record(kardex[s], -q, inventory[s].quantity - q, "TRANSFER_OUT")
           kin == Record(kardex[d], q, inventory[d].quantity + q, "TRANSFER_IN")
<1>4. /\ CanApply(inventory[s], -q)
      /\ inventory' = [inventory EXCEPT ![s] = out, ![d] = in]
      /\ kardex' = [kardex EXCEPT ![s] = kout, ![d] = kin]
      /\ transfer' = [transfer EXCEPT ![r] =
           [pc |-> "done", movingCost |-> t.movingCost,
            sourceCost |-> inventory[s].avgCost]]
  BY <1>3 DEF TransferMove, IInv, TypeOK, StockTypeOK
<1>5. \A c \in {s, d} : /\ inventory[c] \in Row /\ kardex[c] \in Kardex
                        /\ ~inventory[c].exists => inventory[c] = NoRow
                        /\ kardex[c].total = inventory[c].quantity
                        /\ kardex[c].balance = inventory[c].quantity
                        /\ inventory[c].quantity \in Nat
                        /\ inventory[c].avgCost \in Cost
  BY <1>3 DEF IInv, TypeOK, StockTypeOK, AbsentRowIsEmpty, KardexExplainsStock, Row
<1> HIDE DEF s, d, q
<1>6. CanApply(inventory[d], q) /\ inventory[s].quantity - q \in Nat
      /\ inventory[d].quantity + q \in Nat /\ -q \in Int /\ NoCost \in Cost
  BY <1>2, <1>4, <1>5 DEF CanApply, Cost
<1>7. out \in Row /\ out.exists /\ out.quantity = inventory[s].quantity - q
  <2>1. out \in Row /\ out.exists /\ out.quantity = inventory[s].quantity + (-q)
    BY <1>4, <1>5, <1>6, ApplyDeltaRow
  <2> QED BY <2>1, <1>2, <1>5
<1>8. in \in Row /\ in.exists /\ in.quantity = inventory[d].quantity + q
  BY <1>2, <1>5, <1>6, ApplyDeltaRow
<1>9. kout \in Kardex /\ kout.total = out.quantity /\ kout.balance = out.quantity
  <2>1. kout \in Kardex /\ kout.total = kardex[s].total + (-q)
        /\ kout.balance = IF -q = 0 THEN kardex[s].balance
                                    ELSE inventory[s].quantity - q
    BY <1>5, <1>6, RecordKardex
  <2> QED BY <2>1, <1>2, <1>5, <1>7
<1>10. kin \in Kardex /\ kin.total = in.quantity /\ kin.balance = in.quantity
  <2>1. kin \in Kardex /\ kin.total = kardex[d].total + q
        /\ kin.balance = IF q = 0 THEN kardex[d].balance
                                  ELSE inventory[d].quantity + q
    BY <1>2, <1>5, <1>6, RecordKardex
  <2> QED BY <2>1, <1>2, <1>5, <1>8
<1> HIDE DEF out, in, kout, kin
<1>11. StockTypeOK'
  BY <1>3, <1>4, <1>7, <1>8, <1>9, <1>10 DEF IInv, TypeOK, StockTypeOK
<1>12. \A c \in Cells :
         /\ inventory'[c] = (IF c = d THEN in ELSE IF c = s THEN out ELSE inventory[c])
         /\ kardex'[c] = (IF c = d THEN kin ELSE IF c = s THEN kout ELSE kardex[c])
  BY <1>3, <1>4 DEF IInv, TypeOK, StockTypeOK
<1>13. AbsentRowIsEmpty'
  BY <1>7, <1>8, <1>12 DEF IInv, AbsentRowIsEmpty
<1>14. KardexExplainsStock'
  BY <1>7, <1>8, <1>9, <1>10, <1>12 DEF IInv, KardexExplainsStock
<1>15. transfer' \in [TransferRequests -> Transfers \cup {NoTransfer}]
  BY <1>2, <1>4, <1>5 DEF IInv, TypeOK, Transfers
<1>16. TransferEndsDiffer'
  BY <1>4 DEF IInv, TypeOK, TransferEndsDiffer
<1> QED BY <1>11, <1>13, <1>14, <1>15, <1>16 DEF StockInv

(* Every step keeps the inductive invariant.                               *)
LEMMA NextIInv == IInv /\ [Next]_vars => IInv'
<1> USE InventoryConstants DEF Qty
<1> SUFFICES ASSUME IInv, [Next]_vars PROVE IInv'
  OBVIOUS
<1>0. StockInv /\ NoCost \in Cost
  BY DEF IInv, TypeOK, StockInv, Cost
<1>1. ASSUME NEW w \in Warehouses, NEW p \in Products,
             NEW delta \in -MaxQty..MaxQty, Adjust(w, p, delta)
      PROVE IInv'
  <2>1. StockInv'
    BY <1>0, <1>1, ApplyStockDeltaPreserves DEF Adjust, Cells
  <2> QED BY <1>1, <2>1 DEF Adjust, IInv, TypeOK, StockInv, TransferEndsDiffer
<1>2. ASSUME NEW w \in Warehouses, NEW p \in Products, NEW qty \in Qty,
             NEW cost \in UnitCosts, ReceivePurchase(w, p, qty, cost)
      PROVE IInv'
  <2>1. StockInv'
    BY <1>0, <1>2, ApplyStockDeltaPreserves DEF ReceivePurchase, Cells, Cost
  <2>2. paid' \in [Products -> SUBSET UnitCosts]
    BY <1>2 DEF ReceivePurchase, IInv, TypeOK
  <2> QED BY <1>2, <2>1, <2>2
          DEF ReceivePurchase, IInv, TypeOK, StockInv, TransferEndsDiffer
<1>3. ASSUME NEW w \in Warehouses, NEW p \in Products, NEW qty \in Qty,
             IssueSale(w, p, qty)
      PROVE IInv'
  <2>1. StockInv'
    BY <1>0, <1>3, ApplyStockDeltaPreserves DEF IssueSale, Cells
  <2> QED BY <1>3, <2>1 DEF IssueSale, IInv, TypeOK, StockInv, TransferEndsDiffer
<1>4. ASSUME NEW r \in TransferRequests, NEW p \in Products, NEW from \in Warehouses,
             NEW to \in Warehouses, NEW qty \in Qty,
             TransferRead(r, p, from, to, qty)
      PROVE IInv'
  <2>1. <<from, p>> \in Cells /\ inventory[<<from, p>>].avgCost \in Cost
    BY DEF Cells, IInv, TypeOK, StockTypeOK, Row
  <2>2. transfer' \in [TransferRequests -> Transfers \cup {NoTransfer}]
    BY <1>4, <2>1 DEF TransferRead, IInv, TypeOK, Transfers
  <2>3. TransferEndsDiffer'
    BY <1>4 DEF TransferRead, IInv, TypeOK, TransferEndsDiffer
  <2> QED BY <1>4, <2>2, <2>3
          DEF TransferRead, IInv, TypeOK, StockTypeOK, AbsentRowIsEmpty,
              KardexExplainsStock
<1>5. ASSUME NEW r \in TransferRequests, TransferMove(r) PROVE IInv'
  <2>1. StockInv' /\ transfer' \in [TransferRequests -> Transfers \cup {NoTransfer}]
        /\ TransferEndsDiffer'
    BY <1>5, TransferMovePreserves
  <2> QED BY <1>5, <2>1 DEF TransferMove, IInv, TypeOK, StockInv
<1>6. ASSUME NEW r \in TransferRequests, TransferRefused(r) \/ TransferAnswered(r)
      PROVE IInv'
  <2>1. transfer' = [transfer EXCEPT ![r] = NoTransfer]
        /\ UNCHANGED <<inventory, kardex, paid>>
    BY <1>6 DEF TransferRefused, TransferAnswered
  <2>2. transfer' \in [TransferRequests -> Transfers \cup {NoTransfer}] /\ TransferEndsDiffer'
    BY <2>1 DEF IInv, TypeOK, TransferEndsDiffer, NoTransfer
  <2> QED BY <2>1, <2>2
          DEF IInv, TypeOK, StockTypeOK, AbsentRowIsEmpty, KardexExplainsStock
<1>7. CASE UNCHANGED vars
  BY <1>7 DEF vars, IInv, TypeOK, StockTypeOK, AbsentRowIsEmpty,
              KardexExplainsStock, TransferEndsDiffer
<1> QED BY <1>1, <1>2, <1>3, <1>4, <1>5, <1>6, <1>7 DEF Next

(* Types hold in every state; in particular no quantity is ever negative,  *)
(* which is what applyStockDelta's guards are for.                         *)
THEOREM TypeCorrect == Spec => []TypeOK
<1>1. IInv => TypeOK
  BY DEF IInv
<1> QED BY InitIInv, NextIInv, <1>1, PTL DEF Spec

(* In every state the kardex of every shelf adds up to the shelf and its   *)
(* newest movement shows it, whatever the services interleave.             *)
THEOREM KardexAlwaysExplainsStock == Spec => []KardexExplainsStock
<1>1. IInv => KardexExplainsStock
  BY DEF IInv
<1> QED BY InitIInv, NextIInv, <1>1, PTL DEF Spec
-----------------------------------------------------------------------------
(* applyStockDelta mixes a paid cost into a paid average.                  *)
LEMMA ApplyDeltaWithinPaid ==
  ASSUME NEW costs \in SUBSET UnitCosts, NEW row \in Row, NEW delta \in Int,
         NEW unitCost \in Cost,
         WithinPaid(row.avgCost, costs), WithinPaid(unitCost, costs)
  PROVE  WithinPaid(ApplyDelta(row, delta, unitCost).avgCost, costs)
<1> DEFINE a == row.avgCost
           w == WeightedCost(row, delta, unitCost)
<1>1. costs \subseteq Nat /\ a \in Cost /\ w \in Cost
  BY InventoryConstants, WeightedCostType DEF Row
<1>2. CASE a = NoCost \/ unitCost = NoCost
  BY <1>1, <1>2 DEF WeightedCost, ApplyDelta, Row, WithinPaid
<1>3. CASE a # NoCost /\ unitCost # NoCost
  <2>1. PICK l1 \in costs, h1 \in costs : l1 <= a /\ a <= h1
    BY <1>3 DEF WithinPaid
  <2>2. PICK l2 \in costs, h2 \in costs : l2 <= unitCost /\ unitCost <= h2
    BY <1>3 DEF WithinPaid
  <2> DEFINE lo == IF l1 <= l2 THEN l1 ELSE l2
             hi == IF h1 <= h2 THEN h2 ELSE h1
  <2>3. lo \in costs /\ hi \in costs /\ lo \in Nat /\ hi \in Nat
    BY <1>1
  <2>4. a \in lo..hi \cup {NoCost} /\ unitCost \in lo..hi \cup {NoCost}
    BY <1>1, <1>3, <2>1, <2>2 DEF Cost
  <2> HIDE DEF lo, hi
  <2>5. w \in lo..hi \cup {NoCost}
    BY <2>3, <2>4, WeightedCostBetween
  <2>6. WithinPaid(w, costs)
    BY <2>3, <2>5 DEF WithinPaid
  <2>7. ApplyDelta(row, delta, unitCost).avgCost \in {w, unitCost}
    BY DEF ApplyDelta, Row
  <2> QED BY <2>6, <2>7
<1> QED BY <1>2, <1>3

(* Paying another cost never puts a cost out of range.                     *)
LEMMA WithinPaidGrows ==
  ASSUME NEW costs, NEW cost, NEW more, WithinPaid(cost, costs)
  PROVE  WithinPaid(cost, costs \cup more)
BY DEF WithinPaid

(* Every step keeps the costs on the shelves and on the road within what   *)
(* was paid.                                                               *)
LEMMA NextCostIInv == CostIInv /\ [Next]_vars => CostIInv'
<1> USE InventoryConstants DEF Qty
<1> SUFFICES ASSUME CostIInv, [Next]_vars PROVE AvgCostWithinPaid' /\ MovingCostWithinPaid'
  BY NextIInv DEF CostIInv
<1>0. /\ IInv
      /\ inventory \in [Cells -> Row]
      /\ transfer \in [TransferRequests -> Transfers \cup {NoTransfer}]
      /\ paid \in [Products -> SUBSET UnitCosts]
      /\ \A c \in Cells : c[2] \in Products
      /\ NoCost \in Cost /\ \A costs : WithinPaid(NoCost, costs)
  BY DEF CostIInv, IInv, TypeOK, StockTypeOK, Cells, Cost, WithinPaid
<1>1. ASSUME NEW c \in Cells, NEW delta \in Int, NEW reason, UNCHANGED paid,
             ApplyStockDelta(c, delta, reason, NoCost)
      PROVE  AvgCostWithinPaid'
  <2>1. WithinPaid(ApplyDelta(inventory[c], delta, NoCost).avgCost, paid[c[2]])
    BY <1>0, ApplyDeltaWithinPaid DEF CostIInv, AvgCostWithinPaid
  <2> QED BY <1>0, <1>1, <2>1 DEF ApplyStockDelta, CostIInv, AvgCostWithinPaid
<1>2. ASSUME NEW w \in Warehouses, NEW p \in Products,
             \/ \E delta \in -MaxQty..MaxQty : Adjust(w, p, delta)
             \/ \E qty \in Qty : IssueSale(w, p, qty)
      PROVE  AvgCostWithinPaid' /\ MovingCostWithinPaid'
  <2>1. AvgCostWithinPaid'
    BY <1>1, <1>2 DEF Adjust, IssueSale, Cells
  <2> QED BY <1>2, <2>1 DEF Adjust, IssueSale, CostIInv, MovingCostWithinPaid
<1>3. ASSUME NEW w \in Warehouses, NEW p \in Products, NEW qty \in Qty,
             NEW cost \in UnitCosts, ReceivePurchase(w, p, qty, cost)
      PROVE  AvgCostWithinPaid' /\ MovingCostWithinPaid'
  <2> DEFINE c == <<w, p>>
  <2>1. c \in Cells /\ c[2] = p /\ cost \in Cost
    BY DEF Cells, Cost
  <2>2. \A x \in Products : paid'[x] = IF x = p THEN paid[x] \cup {cost} ELSE paid[x]
    BY <1>0, <1>3 DEF ReceivePurchase
  <2>3. \A x \in Products, v \in Cost : WithinPaid(v, paid[x]) => WithinPaid(v, paid'[x])
    <3> SUFFICES ASSUME NEW x \in Products, NEW v \in Cost, WithinPaid(v, paid[x])
                 PROVE  WithinPaid(v, paid'[x])
      OBVIOUS
    <3>1. CASE x = p
      <4>1. paid'[x] = paid[x] \cup {cost}
        BY <2>2, <3>1
      <4> QED BY <4>1, WithinPaidGrows
    <3>2. CASE x # p
      BY <2>2, <3>2
    <3> QED BY <3>1, <3>2
  <2>4. WithinPaid(cost, paid'[p])
    <3>1. cost \in paid'[p] /\ cost \in Nat
      BY <2>2
    <3> QED BY <3>1 DEF WithinPaid
  <2>5. paid' \in [Products -> SUBSET UnitCosts]
    BY <1>0, <1>3 DEF ReceivePurchase
  <2>6. WithinPaid(ApplyDelta(inventory[c], qty, cost).avgCost, paid'[p])
    <3>1. WithinPaid(inventory[c].avgCost, paid[p]) /\ inventory[c] \in Row
      BY <1>0, <2>1 DEF CostIInv, AvgCostWithinPaid
    <3>2. WithinPaid(inventory[c].avgCost, paid'[p])
      BY <3>1, <2>3 DEF Row
    <3>3. paid'[p] \in SUBSET UnitCosts /\ qty \in Int
      BY <2>5
    <3> QED BY <3>1, <3>2, <3>3, <2>1, <2>4, ApplyDeltaWithinPaid
  <2>7. \A x \in Cells : inventory'[x] =
          IF x = c THEN ApplyDelta(inventory[c], qty, cost) ELSE inventory[x]
    BY <1>0, <1>3, <2>1 DEF ReceivePurchase, ApplyStockDelta
  <2>8. AvgCostWithinPaid'
    <3>1. \A x \in Cells : inventory[x].avgCost \in Cost
      BY <1>0 DEF Row
    <3> QED BY <1>0, <3>1, <2>1, <2>3, <2>6, <2>7 DEF CostIInv, AvgCostWithinPaid
  <2>9. MovingCostWithinPaid'
    <3>1. \A r \in TransferRequests : transfer[r].pc = "read" =>
             transfer[r].product \in Products /\ transfer[r].movingCost \in Cost
      BY <1>0 DEF Transfers, NoTransfer
    <3>2. transfer' = transfer
      BY <1>3 DEF ReceivePurchase
    <3> QED BY <2>3, <3>1, <3>2 DEF CostIInv, MovingCostWithinPaid
  <2> QED BY <2>8, <2>9
<1>4. ASSUME NEW r \in TransferRequests, NEW p \in Products, NEW from \in Warehouses,
             NEW to \in Warehouses, NEW qty \in Qty,
             TransferRead(r, p, from, to, qty)
      PROVE  AvgCostWithinPaid' /\ MovingCostWithinPaid'
  <2>1. WithinPaid(inventory[<<from, p>>].avgCost, paid[p])
    BY DEF CostIInv, AvgCostWithinPaid, Cells
  <2> QED BY <1>0, <1>4, <2>1
          DEF TransferRead, CostIInv, AvgCostWithinPaid, MovingCostWithinPaid
<1>5. ASSUME NEW r \in TransferRequests, TransferMove(r)
      PROVE  AvgCostWithinPaid' /\ MovingCostWithinPaid'
  <2> DEFINE t == transfer[r]
             s == <<t.from, t.product>>
             d == <<t.to, t.product>>
  <2>1. t.pc = "read" /\ t \in Transfers
    BY <1>0, <1>5 DEF TransferMove, NoTransfer
  <2>2. t.product \in Products /\ s \in Cells /\ d \in Cells /\ s # d
        /\ t.quantity \in Int /\ -t.quantity \in Int /\ t.movingCost \in Cost
        /\ s[2] = t.product /\ d[2] = t.product
    BY <1>0, <2>1 DEF Transfers, Cells, IInv, TransferEndsDiffer
  <2>3. WithinPaid(t.movingCost, paid[t.product])
    BY <2>1 DEF CostIInv, MovingCostWithinPaid
  <2>4. WithinPaid(ApplyDelta(inventory[s], -t.quantity, NoCost).avgCost, paid[t.product])
    BY <1>0, <2>2, ApplyDeltaWithinPaid DEF CostIInv, AvgCostWithinPaid
  <2>5. WithinPaid(ApplyDelta(inventory[d], t.quantity, t.movingCost).avgCost, paid[t.product])
    BY <1>0, <2>2, <2>3, ApplyDeltaWithinPaid DEF CostIInv, AvgCostWithinPaid
  <2>6. /\ \A c \in Cells : inventory'[c] =
             IF c = d THEN ApplyDelta(inventory[d], t.quantity, t.movingCost)
             ELSE IF c = s THEN ApplyDelta(inventory[s], -t.quantity, NoCost)
             ELSE inventory[c]
        /\ paid' = paid
        /\ \A x \in TransferRequests : transfer'[x].pc = "read" => transfer'[x] = transfer[x]
    BY <1>0, <1>5, <2>2 DEF TransferMove
  <2> HIDE DEF s, d
  <2>7. AvgCostWithinPaid'
    BY <2>2, <2>4, <2>5, <2>6 DEF CostIInv, AvgCostWithinPaid
  <2>8. MovingCostWithinPaid'
    BY <2>6 DEF CostIInv, MovingCostWithinPaid
  <2> QED BY <2>7, <2>8
<1>6. ASSUME NEW r \in TransferRequests, TransferRefused(r) \/ TransferAnswered(r)
      PROVE  AvgCostWithinPaid' /\ MovingCostWithinPaid'
  <2>1. \A x \in TransferRequests : transfer'[x].pc = "read" => transfer'[x] = transfer[x]
    BY <1>0, <1>6 DEF TransferRefused, TransferAnswered, NoTransfer
  <2> QED BY <1>6, <2>1 DEF TransferRefused, TransferAnswered, CostIInv,
                           AvgCostWithinPaid, MovingCostWithinPaid
<1>7. CASE UNCHANGED vars
  BY <1>7 DEF vars, CostIInv, AvgCostWithinPaid, MovingCostWithinPaid
<1> QED BY <1>2, <1>3, <1>4, <1>5, <1>6, <1>7 DEF Next

(* The average cost of a shelf always lies between two costs the product   *)
(* was received at.                                                        *)
THEOREM AvgCostAlwaysWithinPaid == Spec => []AvgCostWithinPaid
<1>1. Init => CostIInv
  BY InitIInv DEF Init, StockInit, CostIInv, AvgCostWithinPaid,
                  MovingCostWithinPaid, WithinPaid, NoRow, NoTransfer
<1>2. CostIInv => AvgCostWithinPaid
  BY DEF CostIInv
<1> QED BY <1>1, <1>2, NextCostIInv, PTL DEF Spec
-----------------------------------------------------------------------------
(* What a movement adds to the transfers of its shelf.                     *)
LEMMA RecordTransferred ==
  ASSUME NEW k \in Kardex, NEW delta \in Int, NEW balance, NEW reason
  PROVE  Record(k, delta, balance, reason).transferred
           = IF IsTransfer(reason) THEN k.transferred + delta ELSE k.transferred
BY DEF Record, Kardex

(* Shelves whose transfers a step leaves alone add up to what they did.    *)
LEMMA SameTransfers ==
  ASSUME TransferIInv, \A c \in Cells : kardex'[c].transferred = kardex[c].transferred
  PROVE  TransfersConserveGoods'
<1> SUFFICES ASSUME NEW p \in Products
             PROVE  SumFunctionOnSet([w \in Warehouses |-> kardex'[<<w, p>>].transferred],
                                     Warehouses) = 0
  BY DEF TransfersConserveGoods
<1>1. [w \in Warehouses |-> kardex'[<<w, p>>].transferred]
        = [w \in Warehouses |-> kardex[<<w, p>>].transferred]
  BY DEF Cells
<1> QED BY <1>1 DEF TransferIInv, TransfersConserveGoods

(* Any other reason leaves the transfers of its shelf alone.               *)
LEMMA OtherReasons ==
  ASSUME TransferIInv, NEW c \in Cells, NEW delta \in Int, NEW reason, ~IsTransfer(reason),
         NEW unitCost, ApplyStockDelta(c, delta, reason, unitCost)
  PROVE  TransfersConserveGoods'
<1>1. kardex \in [Cells -> Kardex]
  BY DEF TransferIInv, IInv, TypeOK, StockTypeOK
<1>2. \A x \in Cells : kardex'[x].transferred = kardex[x].transferred
  BY <1>1, RecordTransferred DEF ApplyStockDelta
<1> QED BY <1>2, SameTransfers

(* Both halves of a transfer commit together, and cancel out.              *)
LEMMA TransferMoveConserves ==
  ASSUME TransferIInv, NEW r \in TransferRequests, TransferMove(r)
  PROVE  TransfersConserveGoods'
<1> DEFINE t == transfer[r]
           s == <<t.from, t.product>>
           d == <<t.to, t.product>>
           q == t.quantity
<1>1. t.pc = "read" /\ t \in Transfers /\ t.from # t.to
  BY DEF TransferIInv, IInv, TypeOK, TransferMove, NoTransfer, TransferEndsDiffer
<1>2. t.from \in Warehouses /\ t.to \in Warehouses /\ t.product \in Products /\ q \in Int
      /\ s \in Cells /\ d \in Cells /\ s # d
  BY <1>1, InventoryConstants DEF Transfers, Cells, Qty
<1>3. /\ kardex \in [Cells -> Kardex] /\ kardex' \in [Cells -> Kardex]
      /\ \A c \in Cells : kardex[c].transferred \in Int /\ kardex'[c].transferred \in Int
  BY TransferMovePreserves DEF TransferIInv, IInv, TypeOK, StockTypeOK, StockInv, Kardex
<1>4. /\ kardex'[s] = Record(kardex[s], -q, inventory[s].quantity - q, "TRANSFER_OUT")
      /\ kardex'[d] = Record(kardex[d], q, inventory[d].quantity + q, "TRANSFER_IN")
      /\ \A c \in Cells \ {s, d} : kardex'[c] = kardex[c]
  BY <1>2, <1>3 DEF TransferMove
<1>5. /\ kardex'[s].transferred = kardex[s].transferred - q
      /\ kardex'[d].transferred = kardex[d].transferred + q
  <2>1. kardex'[s].transferred = kardex[s].transferred + (-q)
    BY <1>2, <1>3, <1>4, RecordTransferred DEF IsTransfer
  <2>2. kardex'[d].transferred = kardex[d].transferred + q
    BY <1>2, <1>3, <1>4, RecordTransferred DEF IsTransfer
  <2> QED BY <1>2, <1>3, <2>1, <2>2
<1> DEFINE F(p) == [w \in Warehouses |-> kardex[<<w, p>>].transferred]
           G(p) == [w \in Warehouses |-> kardex'[<<w, p>>].transferred]
<1>6. ASSUME NEW p \in Products PROVE SumFunctionOnSet(G(p), Warehouses) = 0
  <2>1. SumFunctionOnSet(F(p), Warehouses) = 0
    BY DEF TransferIInv, TransfersConserveGoods
  <2>2. CASE p # t.product
    <3>1. G(p) = F(p)
      BY <1>4, <2>2 DEF Cells
    <3> QED BY <2>1, <3>1
  <2>3. CASE p = t.product
    <3> DEFINE f == F(p)
               g == G(p)
    <3>1. /\ \A w \in Warehouses : f[w] \in Int /\ g[w] \in Int
          /\ g[t.from] = f[t.from] - q /\ g[t.to] = f[t.to] + q
      BY <1>2, <1>3, <1>5, <2>3 DEF Cells
    <3>2. \A w \in Warehouses \ {t.from, t.to} : f[w] = g[w]
      BY <1>4, <2>3 DEF Cells
    <3>3. SumFunctionOnSet(f, Warehouses) = 0
      BY <2>1
    <3> HIDE DEF f, g, t
    <3>4. SumFunctionOnSet(g, Warehouses)
            = SumFunctionOnSet(f, Warehouses) + (g[t.from] - f[t.from]) + (g[t.to] - f[t.to])
      BY <1>1, <1>2, <3>1, <3>2, SumChangeTwo, InventoryConstants
    <3>5. SumFunctionOnSet(g, Warehouses) = 0
      BY <1>2, <3>1, <3>3, <3>4
    <3> QED BY <3>5 DEF g
  <2> QED BY <2>2, <2>3
<1> QED BY <1>6 DEF TransfersConserveGoods

(* Every step keeps what the transfers add up to.                          *)
LEMMA NextTransferIInv == TransferIInv /\ [Next]_vars => TransferIInv'
<1> USE InventoryConstants DEF Qty
<1> SUFFICES ASSUME TransferIInv, [Next]_vars PROVE TransfersConserveGoods'
  BY NextIInv DEF TransferIInv
<1>1. ASSUME NEW w \in Warehouses, NEW p \in Products,
             NEW delta \in -MaxQty..MaxQty, Adjust(w, p, delta)
      PROVE  TransfersConserveGoods'
  BY <1>1, OtherReasons DEF Adjust, Cells, IsTransfer
<1>2. ASSUME NEW w \in Warehouses, NEW p \in Products, NEW qty \in Qty,
             NEW cost \in UnitCosts, ReceivePurchase(w, p, qty, cost)
      PROVE  TransfersConserveGoods'
  BY <1>2, OtherReasons DEF ReceivePurchase, Cells, IsTransfer
<1>3. ASSUME NEW w \in Warehouses, NEW p \in Products, NEW qty \in Qty, IssueSale(w, p, qty)
      PROVE  TransfersConserveGoods'
  BY <1>3, OtherReasons DEF IssueSale, Cells, IsTransfer
<1>4. ASSUME NEW r \in TransferRequests, TransferMove(r) PROVE TransfersConserveGoods'
  BY <1>4, TransferMoveConserves
<1>5. ASSUME UNCHANGED kardex PROVE TransfersConserveGoods'
  BY <1>5, SameTransfers
<1> QED BY <1>1, <1>2, <1>3, <1>4, <1>5
        DEF Next, vars, TransferRead, TransferRefused, TransferAnswered

(* Whatever commits between the two halves of a transfer, in every state   *)
(* what the transfers of a product took from some warehouses is what they  *)
(* put into others: for any number of warehouses.                          *)
THEOREM TransfersAlwaysConserveGoods == Spec => []TransfersConserveGoods
<1>1. Init => TransferIInv
  <2> SUFFICES ASSUME Init, NEW p \in Products
               PROVE  SumFunctionOnSet([w \in Warehouses |-> kardex[<<w, p>>].transferred],
                                       Warehouses) = 0
    BY InitIInv DEF TransferIInv, TransfersConserveGoods
  <2> DEFINE f == [w \in Warehouses |-> kardex[<<w, p>>].transferred]
  <2>1. \A w \in Warehouses : f[w] = 0
    BY DEF Init, StockInit, EmptyKardex, Cells
  <2> HIDE DEF f
  <2>2. SumFunctionOnSet(f, Warehouses) = 0
    BY <2>1, SumZero, InventoryConstants
  <2> QED BY <2>2 DEF f
<1>2. TransferIInv => TransfersConserveGoods
  BY DEF TransferIInv
<1> QED BY <1>1, <1>2, NextTransferIInv, PTL DEF Spec
-----------------------------------------------------------------------------
(* The second half: Sales.                                                 *)

(* Rows with amounts can be summed.                                        *)
Summable(rows) ==
  IsFiniteSet(DOMAIN rows) /\ \A i \in DOMAIN rows : rows[i].amount \in Nat

LEMMA SumOfNat ==
  ASSUME NEW rows, Summable(rows), NEW C \in SUBSET DOMAIN rows
  PROVE  SumOf(rows, C) \in Nat
<1> DEFINE f == [i \in DOMAIN rows |-> rows[i].amount]
           zero == [i \in DOMAIN rows |-> 0]
<1>1. /\ IsFiniteSet(C)
      /\ \A i \in C : f[i] \in Int /\ zero[i] \in Int /\ zero[i] = 0 /\ zero[i] <= f[i]
  BY FS_Subset DEF Summable
<1>2. SumOf(rows, C) = SumFunctionOnSet(f, C)
  BY DEF SumOf
<1> HIDE DEF f, zero
<1>3. SumFunctionOnSet(f, C) \in Int /\ SumFunctionOnSet(zero, C) = 0
  BY <1>1, SumInt, SumZero
<1>4. SumFunctionOnSet(zero, C) <= SumFunctionOnSet(f, C)
  BY <1>1, SumMonotone
<1> QED BY <1>2, <1>3, <1>4

LEMMA SumOfSubset ==
  ASSUME NEW rows, Summable(rows), NEW D \in SUBSET DOMAIN rows, NEW C \in SUBSET D
  PROVE  SumOf(rows, C) <= SumOf(rows, D)
<1> DEFINE f == [i \in DOMAIN rows |-> rows[i].amount]
           E == D \ C
<1>1. /\ IsFiniteSet(C) /\ IsFiniteSet(E) /\ C \cap E = {} /\ C \cup E = D
      /\ \A i \in C \cup E : f[i] \in Int
  BY FS_Subset DEF Summable
<1>2. SumOf(rows, C) \in Nat /\ SumOf(rows, E) \in Nat
  BY SumOfNat
<1>3. /\ SumOf(rows, C) = SumFunctionOnSet(f, C) /\ SumOf(rows, E) = SumFunctionOnSet(f, E)
      /\ SumOf(rows, D) = SumFunctionOnSet(f, D)
  BY DEF SumOf
<1> HIDE DEF f, E
<1>4. SumFunctionOnSet(f, C \cup E) = SumFunctionOnSet(f, C) + SumFunctionOnSet(f, E)
  BY ONLY <1>1, SumDisjoint
<1>5. SumFunctionOnSet(f, D) = SumFunctionOnSet(f, C) + SumFunctionOnSet(f, E)
  BY ONLY <1>1, <1>4, Zenon
<1> QED BY <1>2, <1>3, <1>5

LEMMA SumOfSame ==
  ASSUME NEW rows, IsFiniteSet(DOMAIN rows), NEW C \in SUBSET DOMAIN rows, NEW more,
         C \subseteq DOMAIN more, \A i \in C : more[i].amount = rows[i].amount
  PROVE  SumOf(more, C) = SumOf(rows, C)
<1> DEFINE f == [i \in DOMAIN rows |-> rows[i].amount]
           g == [i \in DOMAIN more |-> more[i].amount]
<1>1. IsFiniteSet(C) /\ \A i \in C : g[i] = f[i]
  BY FS_Subset
<1>2. SumOf(rows, C) = SumFunctionOnSet(f, C) /\ SumOf(more, C) = SumFunctionOnSet(g, C)
  BY DEF SumOf
<1> HIDE DEF f, g
<1> QED BY <1>1, <1>2, SumSame

LEMMA SumOfNothing == ASSUME NEW rows PROVE SumOf(rows, {}) = 0
BY SumEmpty DEF SumOf

(* more are the rows and one of them besides.                              *)
OneMore(rows, more, n) ==
  /\ Summable(rows) /\ Summable(more)
  /\ n \notin DOMAIN rows /\ DOMAIN more = DOMAIN rows \cup {n}
  /\ \A i \in DOMAIN rows : more[i] = rows[i]

LEMMA SumOfOneMore ==
  ASSUME NEW rows, NEW more, NEW n, OneMore(rows, more, n), NEW C, C \subseteq DOMAIN rows
  PROVE  /\ SumOf(more, C) = SumOf(rows, C)
         /\ SumOf(more, C \cup {n}) = SumOf(rows, C) + more[n].amount
<1>1. SumOf(more, C) = SumOf(rows, C)
  BY SumOfSame DEF OneMore, Summable
<1> DEFINE g == [i \in DOMAIN more |-> more[i].amount]
<1>2. IsFiniteSet(C) /\ n \notin C /\ \A i \in C \cup {n} : g[i] \in Int
  BY FS_Subset DEF OneMore, Summable
<1>3. g[n] = more[n].amount /\ g[n] \in Nat
  BY DEF OneMore, Summable
<1>4. /\ SumOf(more, C) = SumFunctionOnSet(g, C)
      /\ SumOf(more, C \cup {n}) = SumFunctionOnSet(g, C \cup {n})
  BY DEF SumOf
<1>6. SumOf(rows, C) \in Nat
  BY SumOfNat DEF OneMore
<1> HIDE DEF g
<1>5. SumFunctionOnSet(g, C \cup {n}) = g[n] + SumFunctionOnSet(g, C)
  BY ONLY <1>2, SumAdd
<1> QED BY <1>1, <1>3, <1>4, <1>5, <1>6

-----------------------------------------------------------------------------
(* The payments of a sale.                                                 *)
Money(rows) == Completed(rows) \cap Settling(rows)

LEMMA PaymentRows ==
  ASSUME NEW rows \in Seq(Payment)
  PROVE  /\ Summable(rows) /\ DOMAIN rows = 1..Len(rows) /\ Len(rows) \in Nat
         /\ \A i \in DOMAIN rows : rows[i] \in Payment /\ rows[i].amount \in 1..Quantity
<1>1. DOMAIN rows = 1..Len(rows) /\ Len(rows) \in Nat /\ \A i \in DOMAIN rows : rows[i] \in Payment
  OBVIOUS
<1>2. \A i \in DOMAIN rows : rows[i].amount \in 1..Quantity
  BY <1>1 DEF Payment
<1>3. IsFiniteSet(DOMAIN rows)
  BY <1>1, FS_Interval
<1> QED BY <1>1, <1>2, <1>3, SalesConstants DEF Summable

LEMMA PaymentAdded ==
  ASSUME NEW rows \in Seq(Payment), NEW p \in Payment, p.status = "COMPLETED"
  PROVE  LET more == Append(rows, p)
             gets(yes) == IF yes THEN p.amount ELSE 0
         IN  /\ more \in Seq(Payment)
             /\ SumOf(more, Completed(more)) = SumOf(rows, Completed(rows)) + p.amount
             /\ SumOf(more, Money(more)) = SumOf(rows, Money(rows)) + gets(p.method # "CREDIT")
             /\ SumOf(more, Money(more) \cap AtCounter(more))
                  = SumOf(rows, Money(rows) \cap AtCounter(rows))
                      + gets(p.method # "CREDIT" /\ p.origin # "installment")
             /\ \A b : SumOf(more, Money(more) \cap InBox(more, b))
                         = SumOf(rows, Money(rows) \cap InBox(rows, b))
                             + gets(p.method # "CREDIT" /\ p.box = b)
<1> DEFINE more == Append(rows, p)
           n == Len(rows) + 1
<1>1. /\ more \in Seq(Payment) /\ more[n] = p /\ n \notin DOMAIN rows
      /\ DOMAIN more = DOMAIN rows \cup {n} /\ \A i \in DOMAIN rows : more[i] = rows[i]
  BY PaymentRows
<1>2. Summable(rows) /\ Summable(more)
  BY <1>1, PaymentRows
<1>3. p.amount \in Nat
  BY SalesConstants DEF Payment
<1>4. \A C \in SUBSET DOMAIN rows :
        /\ SumOf(rows, C) \in Nat
        /\ SumOf(more, C) = SumOf(rows, C) /\ SumOf(more, C \cup {n}) = SumOf(rows, C) + p.amount
  <2> HIDE DEF more, n
  <2> TAKE C \in SUBSET DOMAIN rows
  <2>1. SumOf(rows, C) \in Nat
    BY <1>2, SumOfNat
  <2>2. SumOf(more, C) = SumOf(rows, C) /\ SumOf(more, C \cup {n}) = SumOf(rows, C) + more[n].amount
    <3>1. OneMore(rows, more, n) /\ C \subseteq DOMAIN rows
      BY <1>1, <1>2 DEF OneMore
    <3> QED BY ONLY <3>1, SumOfOneMore
  <2>3. more[n].amount = p.amount
    BY ONLY <1>1, Zenon
  <2> QED BY ONLY <2>1, <2>2, <2>3
<1>5. Completed(rows) \subseteq DOMAIN rows /\ Completed(more) = Completed(rows) \cup {n}
  BY <1>1 DEF Completed
<1>6. /\ Money(rows) \subseteq DOMAIN rows
      /\ p.method # "CREDIT" => Money(more) = Money(rows) \cup {n}
      /\ p.method = "CREDIT" => Money(more) = Money(rows)
  BY <1>1 DEF Completed, Settling, Money
<1>7. LET old == Money(rows) \cap AtCounter(rows)
          new == Money(more) \cap AtCounter(more) IN
      /\ old \subseteq DOMAIN rows
      /\ p.method # "CREDIT" /\ p.origin # "installment" => new = old \cup {n}
      /\ ~(p.method # "CREDIT" /\ p.origin # "installment") => new = old
  BY <1>1, <1>6 DEF AtCounter
<1>8. \A b : LET old == Money(rows) \cap InBox(rows, b)
                 new == Money(more) \cap InBox(more, b) IN
      /\ old \subseteq DOMAIN rows
      /\ p.method # "CREDIT" /\ p.box = b => new = old \cup {n}
      /\ ~(p.method # "CREDIT" /\ p.box = b) => new = old
  BY <1>1, <1>6 DEF InBox
<1> HIDE DEF more, n
<1>9. SumOf(more, Completed(more)) = SumOf(rows, Completed(rows)) + p.amount
  BY <1>4, <1>5
<1>10. \A old \in SUBSET DOMAIN rows : \A new : \A yes \in BOOLEAN :
         (yes => new = old \cup {n}) /\ (~yes => new = old)
           => SumOf(more, new) = SumOf(rows, old) + (IF yes THEN p.amount ELSE 0)
  <2> SUFFICES ASSUME NEW old \in SUBSET DOMAIN rows, NEW new, NEW yes \in BOOLEAN,
                      yes => new = old \cup {n}, ~yes => new = old
               PROVE  SumOf(more, new) = SumOf(rows, old) + (IF yes THEN p.amount ELSE 0)
    OBVIOUS
  <2>1. CASE yes
    BY <1>4, <2>1
  <2>2. CASE ~yes
    <3>1. SumOf(more, old) = SumOf(rows, old) /\ SumOf(rows, old) \in Nat /\ new = old
      BY <1>4, <2>2
    <3> QED BY <2>2, <3>1
  <2> QED BY <2>1, <2>2
<1>11. SumOf(more, Money(more))
         = SumOf(rows, Money(rows)) + (IF p.method # "CREDIT" THEN p.amount ELSE 0)
  BY <1>6, <1>10
<1>12. SumOf(more, Money(more) \cap AtCounter(more))
         = SumOf(rows, Money(rows) \cap AtCounter(rows))
             + (IF p.method # "CREDIT" /\ p.origin # "installment" THEN p.amount ELSE 0)
  BY <1>7, <1>10
<1>13. ASSUME NEW b
       PROVE  SumOf(more, Money(more) \cap InBox(more, b))
                = SumOf(rows, Money(rows) \cap InBox(rows, b))
                    + (IF p.method # "CREDIT" /\ p.box = b THEN p.amount ELSE 0)
  BY <1>8, <1>10
<1> QED BY <1>1, <1>9, <1>11, <1>12, <1>13 DEF more
-----------------------------------------------------------------------------
(* Refunded payments add up to nothing.                                    *)
LEMMA PaymentsRefunded ==
  ASSUME NEW rows \in Seq(Payment)
  PROVE  LET gone == [i \in DOMAIN rows |-> [rows[i] EXCEPT !.status = "REFUNDED"]] IN
         gone \in Seq(Payment) /\ DOMAIN gone = DOMAIN rows /\ Completed(gone) = {}
<1> DEFINE gone == [i \in DOMAIN rows |-> [rows[i] EXCEPT !.status = "REFUNDED"]]
<1>1. DOMAIN rows = 1..Len(rows) /\ Len(rows) \in Nat /\ \A i \in DOMAIN rows : rows[i] \in Payment
  BY PaymentRows
<1>2. \A i \in DOMAIN rows : gone[i] \in Payment /\ gone[i].status = "REFUNDED"
  BY <1>1 DEF Payment
<1>3. gone \in [1..Len(rows) -> Payment]
  BY <1>1, <1>2
<1>4. gone \in Seq(Payment)
  BY <1>1, <1>3
<1> QED BY <1>2, <1>4 DEF Completed

LEMMA NoMoney ==
  ASSUME NEW rows, Completed(rows) = {}
  PROVE  /\ SumOf(rows, Completed(rows)) = 0 /\ SumOf(rows, Money(rows)) = 0
         /\ SumOf(rows, Money(rows) \cap AtCounter(rows)) = 0
         /\ \A b : SumOf(rows, Money(rows) \cap InBox(rows, b)) = 0
<1>1. Money(rows) = {} /\ Money(rows) \cap AtCounter(rows) = {}
  BY DEF Money
<1>2. ASSUME NEW b PROVE SumOf(rows, Money(rows) \cap InBox(rows, b)) = 0
  <2>1. Money(rows) \cap InBox(rows, b) = {}
    BY <1>1
  <2> QED BY ONLY <2>1, SumOfNothing, Zenon
<1> QED BY <1>1, <1>2, SumOfNothing

(* The payments that an invoice is created with.                           *)
Paying(tenders) ==
  [i \in DOMAIN tenders |->
     [origin |-> "tender", method |-> tenders[i].method, amount |-> tenders[i].amount,
      box |-> tenders[i].box, status |-> "COMPLETED"]]

LEMMA TendersPaid ==
  ASSUME NEW tenders \in Seq(Tender)
  PROVE  LET rows == Paying(tenders) IN
         /\ rows \in Seq(Payment)
         /\ SumOf(rows, Money(rows)) = SettledBy(tenders)
         /\ SumOf(rows, Money(rows) \cap AtCounter(rows)) = SettledBy(tenders)
         /\ SettledBy(tenders) <= SumOf(rows, Completed(rows))
         /\ \A b : SumOf(rows, Money(rows) \cap InBox(rows, b)) = SumOf(tenders, FillBox(tenders, b))
         /\ SettledBy(tenders) \in Nat
         /\ \A C \in SUBSET DOMAIN tenders : SumOf(tenders, C) \in Nat
<1> DEFINE rows == Paying(tenders)
<1>1. /\ DOMAIN tenders = 1..Len(tenders) /\ Len(tenders) \in Nat
      /\ \A i \in DOMAIN tenders : tenders[i] \in Tender
  OBVIOUS
<1>2. \A i \in DOMAIN tenders : rows[i] \in Payment
  BY <1>1 DEF Tender, Payment, Paying
<1>3. /\ DOMAIN rows = DOMAIN tenders
      /\ \A i \in DOMAIN rows : /\ rows[i].origin = "tender" /\ rows[i].status = "COMPLETED"
                                /\ rows[i].method = tenders[i].method
                                /\ rows[i].amount = tenders[i].amount
                                /\ rows[i].box = tenders[i].box
  BY DEF Paying
<1>4. rows \in [1..Len(tenders) -> Payment]
  BY <1>1, <1>2 DEF Paying
<1>5. rows \in Seq(Payment)
  BY <1>1, <1>4
<1> HIDE DEF rows
<1>6. Summable(rows) /\ \A i \in DOMAIN rows : rows[i].amount \in Nat
  BY <1>5, PaymentRows, SalesConstants
<1>7. Summable(tenders)
  BY <1>3, <1>6 DEF Summable
<1>8. \A C \in SUBSET DOMAIN tenders : SumOf(tenders, C) \in Nat /\ SumOf(rows, C) = SumOf(tenders, C)
  <2> TAKE C \in SUBSET DOMAIN tenders
  <2>1. SumOf(tenders, C) \in Nat
    BY <1>7, SumOfNat
  <2>2. SumOf(rows, C) = SumOf(tenders, C)
    BY <1>3, <1>7, SumOfSame DEF Summable
  <2> QED BY <2>1, <2>2
<1>9. /\ Completed(rows) = DOMAIN tenders /\ Money(rows) = Settling(tenders)
      /\ Money(rows) \cap AtCounter(rows) = Settling(tenders)
      /\ Settling(tenders) \subseteq DOMAIN tenders
  BY <1>3 DEF Completed, Money, Settling, AtCounter
<1>10. ASSUME NEW b
       PROVE  SumOf(rows, Money(rows) \cap InBox(rows, b)) = SumOf(tenders, FillBox(tenders, b))
  <2>1. /\ Money(rows) \cap InBox(rows, b) = FillBox(tenders, b)
        /\ FillBox(tenders, b) \subseteq DOMAIN tenders
    BY <1>3, <1>9 DEF InBox, FillBox
  <2> QED BY <1>8, <2>1
<1>11. SettledBy(tenders) <= SumOf(tenders, DOMAIN tenders)
  BY <1>7, <1>9, SumOfSubset DEF SettledBy
<1>12. SumOf(rows, Completed(rows)) = SumOf(tenders, DOMAIN tenders)
  BY <1>8, <1>9
<1> QED BY <1>5, <1>8, <1>9, <1>10, <1>11, <1>12 DEF rows, SettledBy
-----------------------------------------------------------------------------
(* Every share is at least one unit and at most what is split.             *)
LEMMA ShareBounds ==
  ASSUME NEW n \in Nat, NEW count \in Nat, 2 <= count, count <= n
  PROVE  /\ n \div count \in 1..n
         /\ n - (count - 1) * (n \div count) \in 1..n
<1> DEFINE d == n \div count
<1>1. d \in Nat
  OBVIOUS
<1>2. count \in Nat \ {0}
  OBVIOUS
<1>3. count * d <= n /\ n < count * d + count
  BY ONLY n \in Nat, <1>2
<1> HIDE DEF d
<1>4. d # 0
  <2>1. ASSUME d = 0 PROVE count * d = 0
    BY <1>2, <2>1
  <2> QED BY <1>3, <2>1
<1>5. (count - 1) * d = count * d - d /\ count * d \in Nat
  BY <1>1
<1>6. count - 1 \in Nat /\ (count - 1) * d \in Nat
  BY <1>1, <1>2
<1> QED BY <1>1, <1>3, <1>4, <1>5, <1>6 DEF d

LEMMA SharesType ==
  ASSUME NEW n \in 1..Quantity, NEW count \in 2..Quantity, count <= n
  PROVE  Shares(n, count) \in Seq(Installment)
<1>0. Quantity \in Nat /\ n \in Nat /\ n <= Quantity /\ count \in Nat /\ 2 <= count
  BY SalesConstants
<1>1. n \div count \in 1..Quantity /\ n - (count - 1) * (n \div count) \in 1..Quantity
  <2>1. n \div count \in 1..n /\ n - (count - 1) * (n \div count) \in 1..n
    BY <1>0, ShareBounds
  <2> QED BY ONLY <1>0, <2>1
<1> DEFINE d == n \div count
           last == n - (count - 1) * (n \div count)
           row(i) == [amount |-> IF i < count THEN d ELSE last, status |-> "PENDING"]
<1>2. d \in 1..Quantity /\ last \in 1..Quantity /\ Shares(n, count) = [i \in 1..count |-> row(i)]
  BY <1>1 DEF Shares
<1> HIDE DEF d, last
<1>3. \A i \in 1..count : row(i) \in Installment
  BY <1>2 DEF Installment
<1> HIDE DEF row
<1>4. Shares(n, count) \in [1..count -> Installment]
  BY <1>2, <1>3
<1> QED BY <1>0, <1>4

(* No more comes back to one target than to all of them.                   *)
LEMMA ReturnedWithin ==
  ASSUME NEW f \in [RefundTargets -> Nat], NEW x \in RefundTargets
  PROVE  f[x] <= SumFunctionOnSet(f, RefundTargets) /\ SumFunctionOnSet(f, RefundTargets) \in Int
<1> DEFINE R == RefundTargets \ {x}
           zero == [y \in RefundTargets |-> 0]
<1>1. IsFiniteSet(R) /\ IsFiniteSet(RefundTargets) /\ \A y \in RefundTargets : f[y] \in Int
  BY SalesConstants, FS_RemoveElement
<1>2. \A y \in R : f[y] \in Int /\ zero[y] \in Int /\ zero[y] = 0 /\ zero[y] <= f[y]
  OBVIOUS
<1>3. SumFunctionOnSet(f, RefundTargets) = f[x] + SumFunctionOnSet(f, R)
  BY <1>1, SumRemove
<1> HIDE DEF R, zero
<1>4. SumFunctionOnSet(zero, R) = 0 /\ SumFunctionOnSet(f, R) \in Int
  BY <1>1, <1>2, SumInt, SumZero
<1>5. SumFunctionOnSet(zero, R) <= SumFunctionOnSet(f, R)
  BY <1>1, <1>2, SumMonotone
<1> QED BY <1>1, <1>3, <1>4, <1>5
-----------------------------------------------------------------------------
LEMMA RowSums ==
  ASSUME NEW rows \in Seq(Payment)
  PROVE  /\ SumOf(rows, Completed(rows)) \in Nat /\ SumOf(rows, Money(rows)) \in Nat
         /\ SumOf(rows, Money(rows) \cap AtCounter(rows)) \in Nat
         /\ SumOf(rows, Money(rows) \cap AtCounter(rows)) <= SumOf(rows, Completed(rows))
         /\ \A b : SumOf(rows, Money(rows) \cap InBox(rows, b)) \in Nat
         /\ \A b : SumOf(rows, Completed(rows) \cap InBox(rows, b)) \in Nat
         /\ \A C \in SUBSET DOMAIN rows : SumOf(rows, C) \in Nat
<1>1. Summable(rows) /\ Completed(rows) \in SUBSET DOMAIN rows
  BY PaymentRows DEF Completed
<1>2. /\ Money(rows) \in SUBSET DOMAIN rows
      /\ Money(rows) \cap AtCounter(rows) \in SUBSET DOMAIN rows
      /\ Money(rows) \cap AtCounter(rows) \in SUBSET Completed(rows)
      /\ \A b : Money(rows) \cap InBox(rows, b) \in SUBSET DOMAIN rows
      /\ \A b : Completed(rows) \cap InBox(rows, b) \in SUBSET DOMAIN rows
  BY <1>1 DEF Money
<1>3. \A C \in SUBSET DOMAIN rows : SumOf(rows, C) \in Nat
  BY <1>1, SumOfNat
<1>4. SumOf(rows, Money(rows) \cap AtCounter(rows)) <= SumOf(rows, Completed(rows))
  BY <1>1, <1>2, SumOfSubset
<1> QED BY <1>1, <1>2, <1>3, <1>4

(* The locals of a request.                                                *)
LEMMA SalesRequestFields ==
  ASSUME SalesTypeOK, NEW r \in Requests
  PROVE  LET q == request[r] IN
         /\ q = Idle <=> q.pc = "idle"
         /\ q # Idle => q.sale \in SaleIds /\ q.pc \in {"collecting", "paying", "splitting"}
         /\ q.pc = "collecting" =>
              /\ q.sale \in SaleIds /\ q.method \in Methods /\ q.amount \in 1..Quantity
              /\ q.box \in Boxes \cup {NoBox} /\ q.paidSoFar \in Nat
         /\ q.pc = "paying" =>
              q.sale \in SaleIds /\ q.index \in Nat /\ q.box \in Boxes /\ q.paid \in Nat
         /\ q.pc = "splitting" => q.sale \in SaleIds /\ q.remaining \in 1..Quantity
<1>1. request[r] \in RequestStates
  BY DEF SalesTypeOK
<1> QED BY <1>1 DEF RequestStates, Idle

LEMMA IdleTypes == Idle \in RequestStates /\ Idle.pc = "idle"
BY DEF RequestStates, Idle

(* The invariant at the start.                                             *)
LEMMA SalesInitInv == SalesInit => SalesInv
<1> SUFFICES ASSUME SalesInit PROVE SalesInv
  OBVIOUS
<1>1. SalesTypeOK
  BY SalesConstants, IdleTypes DEF SalesInit, SalesTypeOK, Statuses
<1>2. NothingYet /\ LocksHold /\ ReceivableIsDebt /\ PaidIsCovered
  BY IdleTypes DEF SalesInit, NothingYet, LocksHold, LockHolds, ReceivableIsDebt, PaidIsCovered, Idle
<1>3. \A s \in SaleIds : payments[s] = <<>> /\ Completed(payments[s]) = {}
  BY DEF SalesInit, Completed
<1>4. CounterNeverOverpaid
  <2> SUFFICES ASSUME NEW s \in SaleIds
               PROVE  SumOf(payments[s], Money(payments[s]) \cap AtCounter(payments[s])) <= Total
    BY DEF CounterNeverOverpaid, Money
  <2>1. SumOf(payments[s], Money(payments[s]) \cap AtCounter(payments[s])) = 0
    BY <1>3, NoMoney
  <2> QED BY <2>1, SalesConstants DEF Total
<1>5. \A b \in Boxes : \A s \in SaleIds : InDrawer(s, b) = 0
  <2> TAKE b \in Boxes
  <2> TAKE s \in SaleIds
  <2>1. SumOf(payments[s], Money(payments[s]) \cap InBox(payments[s], b)) = 0
    BY <1>3, NoMoney
  <2>2. (IF b \in RefundTargets THEN returned[s][b] ELSE 0) = 0
    BY DEF SalesInit
  <2> QED BY <2>1, <2>2 DEF InDrawer, Money
<1>6. ASSUME NEW b \in Boxes PROVE box[b] = Drawer(b)
  <2> DEFINE f == [s \in SaleIds |-> InDrawer(s, b)]
  <2>1. IsFiniteSet(SaleIds) /\ \A s \in SaleIds : f[s] = 0
    BY <1>5, SalesConstants
  <2>2. Drawer(b) = SumFunctionOnSet(f, SaleIds) /\ box[b] = 0
    BY DEF Drawer, SalesInit
  <2> HIDE DEF f
  <2> QED BY <2>1, <2>2, SumZero
<1> QED BY <1>1, <1>2, <1>4, <1>6 DEF SalesInv, DrawerHoldsItsPayments
-----------------------------------------------------------------------------
(* The payment that a request is about to insert.                          *)
CollectedRow(q) ==
  [origin |-> "payment", method |-> q.method, amount |-> q.amount, box |-> q.box,
   status |-> "COMPLETED"]

InstallmentRow(q, amount) ==
  [origin |-> "installment", method |-> "CASH", amount |-> amount, box |-> q.box,
   status |-> "COMPLETED"]

LEMMA CollectAppends ==
  ASSUME SalesInv, NEW r \in Requests, Collect(r)
  PROVE  LET q == request[r] IN
         /\ q.sale \in SaleIds /\ status[q.sale] # "NONE" /\ CollectedRow(q) \in Payment
         /\ CollectedRow(q).amount \in 1..Quantity
         /\ payments' = [payments EXCEPT ![q.sale] = Append(payments[q.sale], CollectedRow(q))]
<1> DEFINE q == request[r]
<1>1. SalesTypeOK /\ q.pc = "collecting" /\ q # Idle
  BY IdleTypes DEF SalesInv, Collect
<1>2. /\ q.sale \in SaleIds /\ q.method \in Methods /\ q.amount \in 1..Quantity
      /\ q.box \in Boxes \cup {NoBox}
  BY <1>1, SalesRequestFields
<1>3. status[q.sale] # "NONE"
  BY <1>1 DEF SalesInv, LocksHold, LockHolds
<1>4. CollectedRow(q) \in Payment /\ CollectedRow(q).amount = q.amount
  BY <1>2 DEF CollectedRow, Payment
<1>5. payments' = [payments EXCEPT ![q.sale] = Append(payments[q.sale], CollectedRow(q))]
  BY <1>1, <1>2 DEF Collect, CollectedRow, SalesTypeOK
<1> QED BY <1>2, <1>3, <1>4, <1>5

LEMMA PayInstallmentAppends ==
  ASSUME SalesInv, NEW r \in Requests, PayInstallment(r)
  PROVE  LET q == request[r]
             amount == installments[q.sale][q.index].amount IN
         /\ q.sale \in SaleIds /\ status[q.sale] # "NONE" /\ amount \in 1..Quantity
         /\ q.index \in DOMAIN installments[q.sale]
         /\ q.box \in Boxes /\ InstallmentRow(q, amount) \in Payment
         /\ payments' = [payments EXCEPT ![q.sale] =
                           Append(payments[q.sale], InstallmentRow(q, amount))]
<1> DEFINE q == request[r]
           amount == installments[q.sale][q.index].amount
<1>1. SalesTypeOK /\ q.pc = "paying" /\ q # Idle
  BY IdleTypes DEF SalesInv, PayInstallment
<1>2. q.sale \in SaleIds /\ q.box \in Boxes
  BY <1>1, SalesRequestFields
<1>3. status[q.sale] # "NONE" /\ q.index \in DOMAIN installments[q.sale]
  BY <1>1 DEF SalesInv, LocksHold, LockHolds
<1>4. installments[q.sale] \in Seq(Installment)
  BY <1>1, <1>2 DEF SalesTypeOK
<1>5. amount \in 1..Quantity
  <2>1. installments[q.sale][q.index] \in Installment
    BY <1>3, <1>4
  <2> QED BY <2>1 DEF Installment
<1>6. InstallmentRow(q, amount) \in Payment
  BY <1>2, <1>5 DEF InstallmentRow, Payment, Methods
<1>7. payments' = [payments EXCEPT ![q.sale] = Append(payments[q.sale], InstallmentRow(q, amount))]
  BY <1>1, <1>2 DEF PayInstallment, InstallmentRow, SalesTypeOK
<1> QED BY <1>2, <1>3, <1>5, <1>6, <1>7

(* An installment that gets paid is the same installment.                  *)
LEMMA InstallmentPaid ==
  ASSUME NEW rows \in Seq(Installment), NEW i \in DOMAIN rows
  PROVE  LET done == [rows EXCEPT ![i].status = "PAID"] IN
         /\ done \in Seq(Installment) /\ DOMAIN done = DOMAIN rows
         /\ \A j \in DOMAIN rows : done[j].amount = rows[j].amount
<1> DEFINE done == [rows EXCEPT ![i].status = "PAID"]
<1>1. DOMAIN rows = 1..Len(rows) /\ Len(rows) \in Nat /\ \A j \in DOMAIN rows : rows[j] \in Installment
  OBVIOUS
<1>2. \A j \in DOMAIN rows : done[j] \in Installment /\ done[j].amount = rows[j].amount
  BY <1>1 DEF Installment
<1>3. done \in [1..Len(rows) -> Installment]
  BY <1>1, <1>2
<1> QED BY <1>1, <1>2, <1>3

LEMMA SharesAdded ==
  ASSUME NEW rows \in Seq(Installment), NEW shares \in Seq(Installment)
  PROVE  LET more == rows \o shares IN
         /\ more \in Seq(Installment) /\ DOMAIN rows \subseteq DOMAIN more
         /\ \A j \in DOMAIN rows : more[j].amount = rows[j].amount
<1>1. rows \o shares \in Seq(Installment)
  OBVIOUS
<1>2. /\ DOMAIN rows = 1..Len(rows) /\ Len(rows) \in Nat /\ Len(shares) \in Nat
      /\ DOMAIN (rows \o shares) = 1..(Len(rows) + Len(shares))
      /\ \A j \in 1..Len(rows) : (rows \o shares)[j] = rows[j]
  OBVIOUS
<1> QED BY <1>1, <1>2
-----------------------------------------------------------------------------
LEMMA NextSalesType == SalesInv /\ [SalesNext]_salesVars => SalesTypeOK'
<1> SUFFICES ASSUME SalesInv, [SalesNext]_salesVars PROVE SalesTypeOK'
  OBVIOUS
<1>0. SalesTypeOK /\ Quantity \in Nat /\ MaxCancels \in Nat
  BY SalesConstants DEF SalesInv
<1>1. CASE UNCHANGED salesVars
  BY <1>0, <1>1 DEF salesVars, SalesTypeOK
<1>2. ASSUME NEW r \in Requests, request' = [request EXCEPT ![r] = Idle]
      PROVE  request' \in [Requests -> RequestStates]
  BY <1>0, <1>2, IdleTypes DEF SalesTypeOK
<1>3. ASSUME NEW r \in Requests, NEW s \in SaleIds, NEW tenders \in TenderLists, Create(r, s, tenders)
      PROVE  SalesTypeOK'
  <2>1. tenders \in Seq(Tender)
    BY SalesConstants
  <2>2. /\ Paying(tenders) \in Seq(Payment) /\ SettledBy(tenders) \in Nat
        /\ \A C \in SUBSET DOMAIN tenders : SumOf(tenders, C) \in Nat
    BY <2>1, TendersPaid
  <2>3. \A b \in Boxes : SumOf(tenders, FillBox(tenders, b)) \in Nat
    BY <2>2 DEF FillBox, InBox
  <2>4. SumOf(tenders, ByMethod(tenders, "CASH")) \in Nat
    BY <2>2 DEF ByMethod
  <2>5. payments' = [payments EXCEPT ![s] = Paying(tenders)]
    BY <1>3 DEF Create, Paying
  <2>6. payments' \in [SaleIds -> Seq(Payment)]
    BY <1>0, <2>2, <2>5 DEF SalesTypeOK
  <2>7. status' \in [SaleIds -> Statuses \cup {"NONE"}]
    BY <1>0, <1>3 DEF SalesTypeOK, Create, StatusFor, Statuses
  <2>8. /\ box' \in [Boxes -> Int] /\ cashAccount' \in Int /\ stock' \in Nat
        /\ receivable' \in [SaleIds -> Int]
    BY <1>0, <1>3, <2>2, <2>3, <2>4 DEF SalesTypeOK, Create, Total
  <2>9. UNCHANGED <<cancels, installments, returned, request>>
    BY <1>3 DEF Create
  <2> QED BY <1>0, <2>6, <2>7, <2>8, <2>9 DEF SalesTypeOK
<1>4. ASSUME NEW r \in Requests, NEW s \in SaleIds, NEW m \in CollectMethods, NEW n \in 1..Quantity,
             NEW b \in CollectBoxes, CollectLock(r, s, m, n, b)
      PROVE  SalesTypeOK'
  <2>1. Paid(s) \in Nat
    BY <1>0, RowSums DEF Paid, SalesTypeOK
  <2>2. m \in Methods /\ b \in Boxes \cup {NoBox}
    BY SalesConstants
  <2>3. [pc |-> "collecting", sale |-> s, method |-> m, amount |-> n, box |-> b,
         paidSoFar |-> Paid(s)] \in RequestStates
    BY <2>1, <2>2 DEF RequestStates
  <2> QED BY <1>0, <1>4, <2>3 DEF CollectLock, SalesTypeOK
<1>5. ASSUME NEW r \in Requests, NEW s \in SaleIds, SplitRead(r, s) PROVE SalesTypeOK'
  <2>1. Paid(s) \in Nat
    BY <1>0, RowSums DEF Paid, SalesTypeOK
  <2>2. Total - Paid(s) \in 1..Quantity
    BY <1>0, <1>5, <2>1 DEF SplitRead, Total
  <2>3. [pc |-> "splitting", sale |-> s, remaining |-> Total - Paid(s)] \in RequestStates
    BY <2>2 DEF RequestStates
  <2> QED BY <1>0, <1>5, <2>3 DEF SplitRead, SalesTypeOK
<1>6. ASSUME NEW r \in Requests, NEW s \in SaleIds, NEW i \in DOMAIN installments[s],
             NEW b \in Boxes, PayInstallmentSum(r, s, i, b)
      PROVE  SalesTypeOK'
  <2>1. Paid(s) \in Nat
    BY <1>0, RowSums DEF Paid, SalesTypeOK
  <2>2. installments[s] \in Seq(Installment)
    BY <1>0 DEF SalesTypeOK
  <2>3. installments[s][i] \in Installment /\ i \in Nat
    BY <2>2
  <2>4. installments[s][i].amount \in Nat
    BY <1>0, <2>3 DEF Installment
  <2>5. [pc |-> "paying", sale |-> s, index |-> i, box |-> b,
         paid |-> Paid(s) + installments[s][i].amount] \in RequestStates
    BY <2>1, <2>3, <2>4 DEF RequestStates
  <2> QED BY <1>0, <1>6, <2>5 DEF PayInstallmentSum, SalesTypeOK
<1>7. ASSUME NEW r \in Requests, NEW s \in SaleIds, NEW i \in DOMAIN installments[s],
             MarkInstallment(r, s, i)
      PROVE  SalesTypeOK'
  <2>1. [installments[s] EXCEPT ![i].status = "PAID"] \in Seq(Installment)
    BY <1>0, InstallmentPaid DEF SalesTypeOK
  <2>2. installments' \in [SaleIds -> Seq(Installment)]
    BY <1>0, <1>7, <2>1 DEF MarkInstallment, SalesTypeOK
  <2> QED BY <1>0, <1>7, <2>2 DEF MarkInstallment, SalesTypeOK
<1>8. ASSUME NEW r \in Requests, NEW s \in SaleIds, Cancel(r, s) PROVE SalesTypeOK'
  <2> DEFINE gone == [i \in DOMAIN payments[s] |-> [payments[s][i] EXCEPT !.status = "REFUNDED"]]
  <2>1. payments[s] \in Seq(Payment)
    BY <1>0 DEF SalesTypeOK
  <2>2. gone \in Seq(Payment)
    BY <2>1, PaymentsRefunded
  <2>3. payments' = [payments EXCEPT ![s] = gone]
    BY <1>0, <1>8 DEF Cancel, SalesTypeOK
  <2>4. payments' \in [SaleIds -> Seq(Payment)]
    BY <1>0, <2>2, <2>3 DEF SalesTypeOK
  <2>5. \A b \in Boxes : RefundedBy(s, b) \in Nat
    BY <2>1, RowSums DEF RefundedBy
  <2>6. \A m : Tendered(s, m) \in Nat
    <3> TAKE m
    <3>1. {i \in ByMethod(payments[s], m) : payments[s][i].origin = "tender"} \subseteq DOMAIN payments[s]
      BY DEF ByMethod
    <3> QED BY <2>1, <3>1, RowSums DEF Tendered
  <2>7. box' \in [Boxes -> Int] /\ stock' \in Nat
    BY <1>0, <1>8, <2>5 DEF Cancel, SalesTypeOK
  <2>8. Tendered(s, "CASH") \in Nat /\ Tendered(s, "CARD") \in Nat
    BY <2>6
  <2>9. cashAccount' \in Int /\ receivable' \in [SaleIds -> Int]
    <3>1. CASE cancels[s] = 0
      <4>1. /\ cashAccount' = cashAccount - Tendered(s, "CASH")
            /\ receivable' = [receivable EXCEPT ![s] =
                 @ - (Total - Tendered(s, "CASH") - Tendered(s, "CARD"))]
        BY <1>8, <3>1 DEF Cancel
      <4> QED BY <1>0, <2>8, <4>1 DEF SalesTypeOK, Total
    <3>2. CASE cancels[s] # 0
      BY <1>0, <1>8, <3>2 DEF Cancel, SalesTypeOK
    <3> QED BY <3>1, <3>2
  <2>10. cancels' \in [SaleIds -> 0..MaxCancels] /\ status' \in [SaleIds -> Statuses \cup {"NONE"}]
    BY <1>0, <1>8 DEF Cancel, SalesTypeOK, Statuses
  <2>11. UNCHANGED <<installments, returned, request>>
    BY <1>8 DEF Cancel
  <2> QED BY <1>0, <2>4, <2>7, <2>9, <2>10, <2>11 DEF SalesTypeOK
<1>9. ASSUME NEW r \in Requests, NEW s \in SaleIds, NEW n \in 1..Quantity, NEW x \in RefundTargets,
             Return(r, s, n, x)
      PROVE  SalesTypeOK'
  <2>1. returned[s] \in [RefundTargets -> Nat]
    BY <1>0 DEF SalesTypeOK
  <2>2. /\ returned[s][x] <= UnitsReturned(s) /\ UnitsReturned(s) \in Int
        /\ returned[s][x] \in Nat
    BY <2>1, ReturnedWithin DEF UnitsReturned
  <2>3. returned[s][x] + n \in 0..Quantity
    BY <1>0, <1>9, <2>2 DEF Return, Returnable
  <2>4. returned' \in [SaleIds -> [RefundTargets -> 0..Quantity]]
    BY <1>0, <1>9, <2>3 DEF Return, SalesTypeOK
  <2>5. CASE x \in Boxes
    <3>1. box' \in [Boxes -> Int]
      BY <1>0, <1>9, <2>5 DEF Return, Into, SalesTypeOK
    <3>2. cashAccount' \in Int /\ stock' \in Nat /\ receivable' \in [SaleIds -> Int]
      BY <1>0, <1>9 DEF Return, SalesTypeOK
    <3> QED BY <1>0, <1>9, <2>4, <3>1, <3>2 DEF Return, SalesTypeOK
  <2>6. CASE x \notin Boxes
    <3>1. cashAccount' \in Int /\ stock' \in Nat /\ receivable' \in [SaleIds -> Int]
      BY <1>0, <1>9 DEF Return, SalesTypeOK
    <3> QED BY <1>0, <1>9, <2>4, <2>6, <3>1 DEF Return, SalesTypeOK
  <2> QED BY <2>5, <2>6
<1>10. ASSUME NEW r \in Requests, Collect(r) PROVE SalesTypeOK'
  <2> DEFINE q == request[r]
  <2>1. /\ q.sale \in SaleIds /\ CollectedRow(q) \in Payment
        /\ payments' = [payments EXCEPT ![q.sale] = Append(payments[q.sale], CollectedRow(q))]
    BY <1>10, CollectAppends
  <2>2. q.pc = "collecting"
    BY <1>10 DEF Collect
  <2>3. q.amount \in Nat /\ q.box \in Boxes \cup {NoBox}
    BY <1>0, <2>2, SalesRequestFields
  <2>4. payments' \in [SaleIds -> Seq(Payment)]
    BY <1>0, <2>1 DEF SalesTypeOK
  <2>5. box' \in [Boxes -> Int]
    BY <1>0, <1>10, <2>3 DEF Collect, Into, SalesTypeOK
  <2>6. cashAccount' \in Int /\ receivable' \in [SaleIds -> Int]
    BY <1>0, <1>10, <2>1, <2>3 DEF Collect, Collected, SalesTypeOK
  <2>7. status' \in [SaleIds -> Statuses \cup {"NONE"}]
    BY <1>0, <1>10, <2>1 DEF Collect, SalesTypeOK, Statuses
  <2>8. UNCHANGED <<cancels, installments, returned, stock>> /\ request' = [request EXCEPT ![r] = Idle]
    BY <1>10 DEF Collect
  <2> QED BY <1>0, <1>2, <2>4, <2>5, <2>6, <2>7, <2>8 DEF SalesTypeOK
<1>11. ASSUME NEW r \in Requests, NEW count \in 2..Quantity, SplitWrite(r, count) PROVE SalesTypeOK'
  <2> DEFINE q == request[r]
  <2>1. q.pc = "splitting" /\ count <= q.remaining
    BY <1>11 DEF SplitWrite
  <2>2. q.sale \in SaleIds /\ q.remaining \in 1..Quantity
    BY <1>0, <2>1, SalesRequestFields
  <2>3. Shares(q.remaining, count) \in Seq(Installment)
    BY <2>1, <2>2, SharesType
  <2>4. installments[q.sale] \o Shares(q.remaining, count) \in Seq(Installment)
    BY <1>0, <2>2, <2>3 DEF SalesTypeOK
  <2>5. installments' \in [SaleIds -> Seq(Installment)]
    BY <1>0, <1>11, <2>2, <2>4 DEF SplitWrite, SalesTypeOK
  <2>6. /\ UNCHANGED <<status, cancels, payments, returned, stock, box, cashAccount, receivable>>
        /\ request' = [request EXCEPT ![r] = Idle]
    BY <1>11 DEF SplitWrite
  <2> QED BY <1>0, <1>2, <2>5, <2>6 DEF SalesTypeOK
<1>12. ASSUME NEW r \in Requests, PayInstallment(r) PROVE SalesTypeOK'
  <2> DEFINE q == request[r]
             amount == installments[q.sale][q.index].amount
  <2>1. /\ q.sale \in SaleIds /\ InstallmentRow(q, amount) \in Payment /\ amount \in 1..Quantity
        /\ q.index \in DOMAIN installments[q.sale] /\ q.box \in Boxes
        /\ payments' = [payments EXCEPT ![q.sale] =
                          Append(payments[q.sale], InstallmentRow(q, amount))]
    BY <1>12, PayInstallmentAppends
  <2>2. payments' \in [SaleIds -> Seq(Payment)]
    BY <1>0, <2>1 DEF SalesTypeOK
  <2>3. [installments[q.sale] EXCEPT ![q.index].status = "PAID"] \in Seq(Installment)
    BY <1>0, <2>1, InstallmentPaid DEF SalesTypeOK
  <2>4. installments' \in [SaleIds -> Seq(Installment)]
    BY <1>0, <1>12, <2>1, <2>3 DEF PayInstallment, SalesTypeOK
  <2>5. amount \in Nat
    BY <1>0, <2>1
  <2> HIDE DEF amount
  <2>6. /\ box' = Into(q.box, amount) /\ cashAccount' = cashAccount + amount
        /\ receivable' = Collected(q.sale, "CASH", amount)
    BY <1>12 DEF PayInstallment, amount
  <2>7. box' \in [Boxes -> Int] /\ cashAccount' \in Int /\ receivable' \in [SaleIds -> Int]
    <3>1. cashAccount \in Int /\ box \in [Boxes -> Int] /\ receivable \in [SaleIds -> Int]
      BY <1>0 DEF SalesTypeOK
    <3>2. box' \in [Boxes -> Int]
      BY <2>1, <2>5, <2>6, <3>1 DEF Into
    <3>3. receivable' \in [SaleIds -> Int]
      BY <2>1, <2>5, <2>6, <3>1 DEF Collected
    <3> QED BY <2>5, <2>6, <3>1, <3>2, <3>3
  <2>8. status' \in [SaleIds -> Statuses \cup {"NONE"}]
    BY <1>0, <1>12, <2>1 DEF PayInstallment, SalesTypeOK, Statuses
  <2>9. UNCHANGED <<cancels, returned, stock>> /\ request' = [request EXCEPT ![r] = Idle]
    BY <1>12 DEF PayInstallment
  <2> QED BY <1>0, <1>2, <2>2, <2>4, <2>7, <2>8, <2>9 DEF SalesTypeOK
<1>13. ASSUME NEW r \in Requests, Abandon(r) PROVE SalesTypeOK'
  BY <1>0, <1>2, <1>13 DEF Abandon, SalesTypeOK
<1> QED BY <1>1, <1>3, <1>4, <1>5, <1>6, <1>7, <1>8, <1>9, <1>10, <1>11, <1>12, <1>13 DEF SalesNext
-----------------------------------------------------------------------------
(* What the invariant says of a single sale, and a step that changes one.  *)
SaleFine(s) ==
  LET rows == payments[s] IN
  /\ status[s] # "NONE"
  /\ SumOf(rows, Money(rows) \cap AtCounter(rows)) <= Total
  /\ cancels[s] = 0 => receivable[s] = Total - SumOf(rows, Money(rows)) - returned[s]["CREDIT"]
  /\ status[s] = "PAID" => SumOf(rows, Completed(rows)) >= Total

OnlySale(s) ==
  \A x \in SaleIds \ {s} :
    /\ status'[x] = status[x] /\ cancels'[x] = cancels[x] /\ payments'[x] = payments[x]
    /\ installments'[x] = installments[x] /\ returned'[x] = returned[x]
    /\ receivable'[x] = receivable[x]

AllSalesFine == NothingYet /\ CounterNeverOverpaid /\ ReceivableIsDebt /\ PaidIsCovered

LEMMA FineSale == ASSUME SalesInv, NEW s \in SaleIds, status[s] # "NONE" PROVE SaleFine(s)
BY DEF SalesInv, SaleFine, CounterNeverOverpaid, ReceivableIsDebt, PaidIsCovered, Money, Received, Paid

LEMMA OneSaleChanged ==
  ASSUME SalesInv, NEW s \in SaleIds, OnlySale(s), SaleFine(s)'
  PROVE  AllSalesFine'
<1>1. NothingYet'
  BY DEF SalesInv, NothingYet, OnlySale, SaleFine
<1>2. CounterNeverOverpaid'
  BY DEF SalesInv, CounterNeverOverpaid, OnlySale, SaleFine, Money, Total
<1>3. ReceivableIsDebt'
  BY DEF SalesInv, ReceivableIsDebt, Received, OnlySale, SaleFine, Money, Total
<1>4. PaidIsCovered'
  BY DEF SalesInv, PaidIsCovered, Paid, OnlySale, SaleFine, Total
<1> QED BY <1>1, <1>2, <1>3, <1>4 DEF AllSalesFine

LEMMA SalesUnchanged ==
  ASSUME SalesInv, UNCHANGED <<status, cancels, payments, returned, receivable>>,
         \/ UNCHANGED installments
         \/ \E s \in SaleIds : /\ status[s] # "NONE"
                               /\ \A x \in SaleIds \ {s} : installments'[x] = installments[x]
  PROVE  AllSalesFine'
<1>1. NothingYet'
  BY DEF SalesInv, NothingYet
<1>2. CounterNeverOverpaid'
  BY DEF SalesInv, CounterNeverOverpaid, Total
<1>3. ReceivableIsDebt'
  BY DEF SalesInv, ReceivableIsDebt, Received, Total
<1>4. PaidIsCovered'
  BY DEF SalesInv, PaidIsCovered, Paid, Total
<1> QED BY <1>1, <1>2, <1>3, <1>4 DEF AllSalesFine

(* Every step leaves every sale fine.                                      *)
LEMMA NextSalesFine == SalesInv /\ [SalesNext]_salesVars => AllSalesFine'
<1> SUFFICES ASSUME SalesInv, [SalesNext]_salesVars PROVE AllSalesFine'
  OBVIOUS
<1>0. SalesTypeOK /\ Quantity \in Nat
  BY SalesConstants DEF SalesInv
<1>1. CASE UNCHANGED salesVars
  BY <1>1, SalesUnchanged DEF salesVars
<1>2. ASSUME NEW r \in Requests, NEW s \in SaleIds, NEW tenders \in TenderLists, Create(r, s, tenders)
      PROVE  AllSalesFine'
  <2> DEFINE rows == Paying(tenders)
  <2>1. tenders \in Seq(Tender) /\ "CREDIT" \in RefundTargets
    BY SalesConstants
  <2>2. /\ SumOf(rows, Money(rows)) = SettledBy(tenders)
        /\ SumOf(rows, Money(rows) \cap AtCounter(rows)) = SettledBy(tenders)
        /\ SettledBy(tenders) <= SumOf(rows, Completed(rows))
        /\ SettledBy(tenders) \in Nat /\ rows \in Seq(Payment)
    BY <2>1, TendersPaid
  <2>3. SumOf(rows, Completed(rows)) \in Nat
    BY <2>2, RowSums
  <2>4. payments' = [payments EXCEPT ![s] = rows]
    BY <1>2 DEF Create, Paying
  <2> HIDE DEF rows
  <2>5. OnlySale(s)
    BY <1>0, <1>2, <2>4 DEF OnlySale, Create, SalesTypeOK
  <2>6. /\ payments'[s] = rows /\ status'[s] = StatusFor(SettledBy(tenders))
        /\ receivable'[s] = Total - SettledBy(tenders) /\ SettledBy(tenders) <= Total
        /\ returned'[s] = returned[s]
    BY <1>0, <1>2, <2>4 DEF Create, SalesTypeOK
  <2>7. returned[s]["CREDIT"] = 0
    BY <1>2, <2>1 DEF Create, SalesInv, NothingYet
  <2>8. SaleFine(s)'
    BY <1>0, <2>2, <2>3, <2>6, <2>7 DEF SaleFine, StatusFor, Total
  <2> QED BY <2>5, <2>8, OneSaleChanged
<1>3. ASSUME NEW r \in Requests, NEW s \in SaleIds, Cancel(r, s) PROVE AllSalesFine'
  <2> DEFINE gone == [i \in DOMAIN payments[s] |-> [payments[s][i] EXCEPT !.status = "REFUNDED"]]
  <2>1. Completed(gone) = {}
    BY <1>0, PaymentsRefunded DEF SalesTypeOK
  <2>2. payments' = [payments EXCEPT ![s] = gone]
    BY <1>0, <1>3 DEF Cancel, SalesTypeOK
  <2>3. payments'[s] = gone
    BY <1>0, <2>2 DEF SalesTypeOK
  <2> HIDE DEF gone
  <2>4. SumOf(gone, Money(gone) \cap AtCounter(gone)) = 0
    BY <2>1, NoMoney
  <2>5. status'[s] = "CANCELLED" /\ cancels'[s] # 0
    BY <1>0, <1>3 DEF Cancel, SalesTypeOK
  <2>6. OnlySale(s)
    BY <1>0, <1>3, <2>2 DEF OnlySale, Cancel, SalesTypeOK
  <2>7. SaleFine(s)'
    BY <1>0, <2>3, <2>4, <2>5 DEF SaleFine, Total
  <2> QED BY <2>6, <2>7, OneSaleChanged
<1>4. ASSUME NEW r \in Requests, NEW s \in SaleIds, NEW n \in 1..Quantity, NEW x \in RefundTargets,
             Return(r, s, n, x)
      PROVE  AllSalesFine'
  <2>1. /\ UNCHANGED <<status, cancels, payments, installments>> /\ status[s] # "NONE"
        /\ returned' = [returned EXCEPT ![s][x] = @ + n]
        /\ receivable' = [receivable EXCEPT ![s] = @ - (IF x = "CREDIT" THEN n ELSE 0)]
    BY <1>4 DEF Return
  <2>2. SaleFine(s) /\ payments[s] \in Seq(Payment) /\ "CREDIT" \in RefundTargets
    BY <1>0, <2>1, FineSale, SalesConstants DEF SalesTypeOK
  <2>3. SumOf(payments[s], Money(payments[s])) \in Nat
    BY <2>2, RowSums
  <2>4. OnlySale(s)
    BY <1>0, <2>1 DEF OnlySale, SalesTypeOK
  <2>5. /\ receivable'[s] = receivable[s] - (IF x = "CREDIT" THEN n ELSE 0)
        /\ returned'[s]["CREDIT"] = returned[s]["CREDIT"] + (IF x = "CREDIT" THEN n ELSE 0)
        /\ receivable[s] \in Int /\ returned[s]["CREDIT"] \in Nat
    BY <1>0, <2>1, <2>2 DEF SalesTypeOK
  <2>6. SaleFine(s)'
    BY <1>0, <2>1, <2>2, <2>3, <2>5 DEF SaleFine, Total
  <2> QED BY <2>4, <2>6, OneSaleChanged
<1>5. ASSUME NEW r \in Requests, Collect(r) PROVE AllSalesFine'
  <2>a. PICK q : q = request[r]
    OBVIOUS
  <2> DEFINE s == q.sale
             p == CollectedRow(q)
             rows == payments[s]
             more == Append(rows, p)
  <2>1. /\ s \in SaleIds /\ status[s] # "NONE" /\ p \in Payment
        /\ payments' = [payments EXCEPT ![s] = more]
    BY <1>5, <2>a, CollectAppends
  <2>2. /\ q.pc = "collecting" /\ UNCHANGED <<cancels, installments, returned>>
        /\ receivable' = Collected(s, q.method, q.amount)
        /\ status' = [status EXCEPT ![s] =
                        IF q.paidSoFar + q.amount >= Total THEN "PAID" ELSE "PARTIAL"]
    BY <1>5, <2>a DEF Collect
  <2>3. q.amount \in Nat /\ q.paidSoFar \in Nat
    BY <1>0, <2>2, <2>a, SalesRequestFields
  <2>4. /\ p.status = "COMPLETED" /\ p.method = q.method /\ p.amount = q.amount
        /\ p.origin = "payment"
    BY DEF CollectedRow
  <2>5. /\ SaleFine(s) /\ rows \in Seq(Payment) /\ returned[s]["CREDIT"] \in Nat
        /\ receivable[s] \in Int
    BY <1>0, <2>1, FineSale, SalesConstants DEF SalesTypeOK
  <2>6. q.paidSoFar = SumOf(rows, Completed(rows)) /\ q.amount <= Total - q.paidSoFar
    BY <2>2, <2>a DEF SalesInv, LocksHold, LockHolds, Paid
  <2>7. payments'[s] = more
    BY <1>0, <2>1 DEF SalesTypeOK
  <2> HIDE DEF p
  <2>8. /\ SumOf(more, Completed(more)) = SumOf(rows, Completed(rows)) + p.amount
        /\ SumOf(more, Money(more))
             = SumOf(rows, Money(rows)) + (IF p.method # "CREDIT" THEN p.amount ELSE 0)
        /\ SumOf(more, Money(more) \cap AtCounter(more))
             = SumOf(rows, Money(rows) \cap AtCounter(rows))
                 + (IF p.method # "CREDIT" /\ p.origin # "installment" THEN p.amount ELSE 0)
    BY <2>1, <2>4, <2>5, PaymentAdded
  <2>9. /\ SumOf(rows, Money(rows)) \in Nat
        /\ SumOf(rows, Money(rows) \cap AtCounter(rows)) \in Nat
        /\ SumOf(rows, Money(rows) \cap AtCounter(rows)) <= SumOf(rows, Completed(rows))
    BY <2>5, RowSums
  <2> HIDE DEF more, rows
  <2>10. OnlySale(s)
    BY <1>0, <2>1, <2>2 DEF OnlySale, Collected, SalesTypeOK
  <2>11. /\ receivable'[s] = receivable[s] - (IF q.method = "CREDIT" THEN 0 ELSE q.amount)
         /\ status'[s] = IF q.paidSoFar + q.amount >= Total THEN "PAID" ELSE "PARTIAL"
         /\ cancels'[s] = cancels[s] /\ returned'[s] = returned[s]
    BY <1>0, <2>1, <2>2 DEF Collected, SalesTypeOK
  <2> HIDE DEF s
  <2>12. cancels[s] = 0 => receivable[s] = Total - SumOf(rows, Money(rows)) - returned[s]["CREDIT"]
    BY <2>5 DEF SaleFine, rows
  <2>13. SaleFine(s)'
    BY <1>0, <2>3, <2>4, <2>5, <2>6, <2>7, <2>8, <2>9, <2>11, <2>12 DEF SaleFine, Total
  <2> QED BY <2>1, <2>10, <2>13, OneSaleChanged
<1>6. ASSUME NEW r \in Requests, PayInstallment(r) PROVE AllSalesFine'
  <2>a. PICK q : q = request[r]
    OBVIOUS
  <2>b. PICK amount : amount = installments[q.sale][q.index].amount
    OBVIOUS
  <2> DEFINE s == q.sale
             p == InstallmentRow(q, amount)
             rows == payments[s]
             more == Append(rows, p)
  <2>1. /\ s \in SaleIds /\ status[s] # "NONE" /\ p \in Payment /\ amount \in 1..Quantity
        /\ payments' = [payments EXCEPT ![s] = more]
    BY <1>6, <2>a, <2>b, PayInstallmentAppends
  <2>2. /\ q.pc = "paying" /\ UNCHANGED <<cancels, returned>>
        /\ receivable' = Collected(s, "CASH", amount)
        /\ installments' = [installments EXCEPT ![s][q.index].status = "PAID"]
        /\ status' = [status EXCEPT ![s] = IF q.paid >= Total THEN "PAID" ELSE "PARTIAL"]
    BY <1>6, <2>a, <2>b DEF PayInstallment
  <2>3. q.paid \in Nat /\ amount \in Nat
    BY <1>0, <2>1, <2>2, <2>a, SalesConstants, SalesRequestFields
  <2>4. /\ p.status = "COMPLETED" /\ p.method = "CASH" /\ p.amount = amount
        /\ p.origin = "installment"
    BY DEF InstallmentRow
  <2>5. /\ SaleFine(s) /\ rows \in Seq(Payment) /\ returned[s]["CREDIT"] \in Nat
        /\ receivable[s] \in Int
    BY <1>0, <2>1, FineSale, SalesConstants DEF SalesTypeOK
  <2>6. q.paid <= SumOf(rows, Completed(rows)) + amount
    BY <2>2, <2>a, <2>b DEF SalesInv, LocksHold, LockHolds, Paid
  <2>7. payments'[s] = more
    BY <1>0, <2>1 DEF SalesTypeOK
  <2> HIDE DEF p
  <2>8. /\ SumOf(more, Completed(more)) = SumOf(rows, Completed(rows)) + p.amount
        /\ SumOf(more, Money(more))
             = SumOf(rows, Money(rows)) + (IF p.method # "CREDIT" THEN p.amount ELSE 0)
        /\ SumOf(more, Money(more) \cap AtCounter(more))
             = SumOf(rows, Money(rows) \cap AtCounter(rows))
                 + (IF p.method # "CREDIT" /\ p.origin # "installment" THEN p.amount ELSE 0)
    BY <2>1, <2>4, <2>5, PaymentAdded
  <2>9. /\ SumOf(rows, Money(rows)) \in Nat /\ SumOf(rows, Completed(rows)) \in Nat
        /\ SumOf(rows, Money(rows) \cap AtCounter(rows)) \in Nat
    BY <2>5, RowSums
  <2> HIDE DEF more, rows
  <2>10. OnlySale(s)
    BY <1>0, <2>1, <2>2 DEF OnlySale, Collected, SalesTypeOK
  <2>11. /\ receivable'[s] = receivable[s] - amount
         /\ status'[s] = IF q.paid >= Total THEN "PAID" ELSE "PARTIAL"
         /\ cancels'[s] = cancels[s] /\ returned'[s] = returned[s]
    BY <1>0, <2>1, <2>2 DEF Collected, SalesTypeOK
  <2> HIDE DEF s
  <2>12. /\ cancels[s] = 0 => receivable[s] = Total - SumOf(rows, Money(rows)) - returned[s]["CREDIT"]
         /\ SumOf(rows, Money(rows) \cap AtCounter(rows)) <= Total
    BY <2>5 DEF SaleFine, rows
  <2>13. SaleFine(s)'
    BY <1>0, <2>3, <2>4, <2>5, <2>6, <2>7, <2>8, <2>9, <2>11, <2>12 DEF SaleFine, Total
  <2> QED BY <2>1, <2>10, <2>13, OneSaleChanged
<1>7. ASSUME NEW r \in Requests, NEW count \in 2..Quantity, SplitWrite(r, count) PROVE AllSalesFine'
  <2>1. request[r].pc = "splitting" /\ request[r] # Idle
    BY <1>7, IdleTypes DEF SplitWrite
  <2>2. request[r].sale \in SaleIds /\ status[request[r].sale] # "NONE"
    BY <1>0, <2>1, SalesRequestFields DEF SalesInv, LocksHold, LockHolds
  <2>3. \A x \in SaleIds \ {request[r].sale} : installments'[x] = installments[x]
    BY <1>0, <1>7 DEF SplitWrite, SalesTypeOK
  <2> QED BY <1>7, <2>2, <2>3, SalesUnchanged DEF SplitWrite
<1>8. ASSUME NEW r \in Requests, NEW s \in SaleIds, NEW i \in DOMAIN installments[s],
             MarkInstallment(r, s, i)
      PROVE  AllSalesFine'
  <2>1. status[s] # "NONE"
    BY DEF SalesInv, NothingYet
  <2>2. \A x \in SaleIds \ {s} : installments'[x] = installments[x]
    BY <1>0, <1>8 DEF MarkInstallment, SalesTypeOK
  <2> QED BY <1>8, <2>1, <2>2, SalesUnchanged DEF MarkInstallment
<1>9. ASSUME UNCHANGED <<status, cancels, payments, installments, returned, receivable>>
      PROVE  AllSalesFine'
  BY <1>9, SalesUnchanged
<1> QED BY <1>1, <1>2, <1>3, <1>4, <1>5, <1>6, <1>7, <1>8, <1>9
        DEF SalesNext, CollectLock, SplitRead, PayInstallmentSum, Abandon
-----------------------------------------------------------------------------
(* A step that starts no request keeps what the locks promise, if it does  *)
(* not touch the payments of a sale that another request collects for, and *)
(* takes neither payments nor installments from one that pays.             *)
LEMMA LocksKept ==
  ASSUME LocksHold,
         \A x \in Requests : request'[x] = request[x] \/ request'[x] = Idle,
         \A x \in Requests : \A q : q = request[x] /\ q # Idle /\ request'[x] = q =>
           /\ status[q.sale] # "NONE" => status'[q.sale] # "NONE"
           /\ q.pc = "collecting" => payments'[q.sale] = payments[q.sale]
           /\ q.pc = "paying" =>
                /\ SumOf(payments[q.sale], Completed(payments[q.sale]))
                     <= SumOf(payments'[q.sale], Completed(payments'[q.sale]))
                /\ SumOf(payments'[q.sale], Completed(payments'[q.sale])) \in Nat
                /\ SumOf(payments[q.sale], Completed(payments[q.sale])) \in Nat
                /\ q.paid \in Nat /\ installments[q.sale][q.index].amount \in Nat
                /\ q.index \in DOMAIN installments'[q.sale]
                /\ installments'[q.sale][q.index].amount = installments[q.sale][q.index].amount
  PROVE  LocksHold'
<1> SUFFICES ASSUME NEW x \in Requests, NEW q, q = request'[x] PROVE LockHolds(x, q)'
  BY DEF LocksHold
<1>1. CASE q = Idle
  BY <1>1, IdleTypes DEF LockHolds
<1>2. CASE q # Idle
  <2>1. q = request[x] /\ LockHolds(x, q)
    BY <1>2 DEF LocksHold
  <2>2. status'[q.sale] # "NONE"
    BY <1>2, <2>1 DEF LockHolds
  <2>3. ASSUME q.pc = "collecting"
        PROVE  q.paidSoFar = Paid(q.sale)' /\ q.amount <= Total - q.paidSoFar /\ SaleFree(x, q.sale)'
    <3>1. payments'[q.sale] = payments[q.sale]
      BY <1>2, <2>1, <2>3
    <3>2. q.paidSoFar = Paid(q.sale) /\ q.amount <= Total - q.paidSoFar /\ SaleFree(x, q.sale)
      BY <2>1, <2>3 DEF LockHolds
    <3>3. SaleFree(x, q.sale)'
      BY <3>2, IdleTypes DEF SaleFree
    <3> QED BY <3>1, <3>2, <3>3 DEF Paid
  <2>4. ASSUME q.pc = "paying"
        PROVE  /\ q.index \in DOMAIN installments'[q.sale]
               /\ q.paid <= Paid(q.sale)' + installments'[q.sale][q.index].amount
    <3> DEFINE old == SumOf(payments[q.sale], Completed(payments[q.sale]))
               new == SumOf(payments'[q.sale], Completed(payments'[q.sale]))
               amount == installments[q.sale][q.index].amount
               after == installments'[q.sale][q.index].amount
    <3>1. q.paid <= old + amount
      BY <2>1, <2>4 DEF LockHolds, Paid
    <3>2. /\ old <= new /\ old \in Nat /\ new \in Nat /\ q.paid \in Nat /\ amount \in Nat
          /\ q.index \in DOMAIN installments'[q.sale] /\ after = amount
      BY <1>2, <2>1, <2>4
    <3>3. Paid(q.sale)' = new
      BY DEF Paid
    <3> HIDE DEF old, new, amount
    <3>4. q.paid <= new + amount
      BY <3>1, <3>2
    <3> QED BY <3>2, <3>3, <3>4
  <2> QED BY <2>2, <2>3, <2>4 DEF LockHolds, Total
<1> QED BY <1>1, <1>2

(* A request that starts leaves the tables as they are.                    *)
LEMMA LocksStarted ==
  ASSUME LocksHold, UNCHANGED <<status, payments, installments>>,
         NEW r \in Requests, request[r] = Idle, NEW q,
         \A x \in Requests : request'[x] = IF x = r THEN q ELSE request[x],
         q.pc \in {"collecting", "paying"} => SaleShareable(r, q.sale),
         LockHolds(r, q)
  PROVE  LocksHold'
<1> SUFFICES ASSUME NEW x \in Requests, NEW y, y = request'[x] PROVE LockHolds(x, y)'
  BY DEF LocksHold
<1>1. ASSUME NEW z PROVE Paid(z)' = Paid(z)
  BY DEF Paid
<1>2. LockHolds(x, y)
  BY DEF LocksHold
<1>3. ASSUME y.pc = "collecting" PROVE SaleFree(x, y.sale)'
  <2>1. SaleFree(x, y.sale)
    BY <1>2, <1>3 DEF LockHolds
  <2>2. CASE x = r
    BY <2>1, <2>2 DEF SaleFree
  <2>3. CASE x # r
    <3>1. request[x] = y
      BY <2>3
    <3>2. q.pc \in {"collecting", "paying"} => q.sale # y.sale
      BY <1>3, <2>3, <3>1 DEF SaleShareable
    <3> QED BY <2>1, <2>3, <3>2 DEF SaleFree
  <2> QED BY <2>2, <2>3
<1> QED BY <1>1, <1>2, <1>3 DEF LockHolds, Total

LEMMA NextLocks == SalesInv /\ [SalesNext]_salesVars => LocksHold'
<1> SUFFICES ASSUME SalesInv, [SalesNext]_salesVars PROVE LocksHold'
  OBVIOUS
<1>0. SalesTypeOK /\ LocksHold /\ Quantity \in Nat
  BY SalesConstants DEF SalesInv
(* What a request that pays relies on, if its sale stays as it is.         *)
<1>a. \A x \in Requests : \A q : q = request[x] /\ q.pc = "paying" =>
        /\ q.sale \in SaleIds /\ q.paid \in Nat /\ q.index \in DOMAIN installments[q.sale]
        /\ installments[q.sale][q.index].amount \in Nat
        /\ SumOf(payments[q.sale], Completed(payments[q.sale])) \in Nat
  <2> SUFFICES ASSUME NEW x \in Requests, NEW q, q = request[x], q.pc = "paying"
               PROVE  /\ q.sale \in SaleIds /\ q.paid \in Nat /\ q.index \in DOMAIN installments[q.sale]
                      /\ installments[q.sale][q.index].amount \in Nat
                      /\ SumOf(payments[q.sale], Completed(payments[q.sale])) \in Nat
    OBVIOUS
  <2>1. q.sale \in SaleIds /\ q.paid \in Nat
    BY <1>0, SalesRequestFields
  <2>2. q.index \in DOMAIN installments[q.sale]
    BY <1>0 DEF LocksHold, LockHolds
  <2>3. installments[q.sale] \in Seq(Installment) /\ payments[q.sale] \in Seq(Payment)
    BY <1>0, <2>1 DEF SalesTypeOK
  <2>4. installments[q.sale][q.index] \in Installment
    BY <2>2, <2>3
  <2>5. installments[q.sale][q.index].amount \in 1..Quantity
    BY <2>4 DEF Installment
  <2>6. SumOf(payments[q.sale], Completed(payments[q.sale])) \in Nat
    BY <2>3, RowSums
  <2> QED BY <1>0, <2>1, <2>2, <2>5, <2>6
<1>b. \A x \in Requests :
        request[x] # Idle => request[x].sale \in SaleIds /\ status[request[x].sale] # "NONE"
  BY <1>0, SalesRequestFields DEF LocksHold, LockHolds
<1>c. \A x \in Requests : request[x].pc \in {"collecting", "paying"} => request[x] # Idle
  BY IdleTypes
<1>1. CASE UNCHANGED salesVars
  <2>1. UNCHANGED <<status, payments, installments, request>>
    BY <1>1 DEF salesVars
  <2> QED BY <1>0, <1>a, <2>1, LocksKept
<1>2. ASSUME NEW r \in Requests, NEW s \in SaleIds, NEW tenders \in TenderLists, Create(r, s, tenders)
      PROVE  LocksHold'
  <2>1. /\ status[s] = "NONE" /\ UNCHANGED <<installments, request>>
        /\ \A z \in SaleIds \ {s} : payments'[z] = payments[z] /\ status'[z] = status[z]
    BY <1>0, <1>2 DEF Create, SalesTypeOK
  <2> QED BY <1>0, <1>a, <1>b, <2>1, LocksKept
<1>3. ASSUME NEW r \in Requests, NEW s \in SaleIds, NEW m \in CollectMethods, NEW n \in 1..Quantity,
             NEW b \in CollectBoxes, CollectLock(r, s, m, n, b)
      PROVE  LocksHold'
  <2> DEFINE q == [pc |-> "collecting", sale |-> s, method |-> m, amount |-> n, box |-> b,
                   paidSoFar |-> Paid(s)]
  <2>1. /\ request[r] = Idle /\ status[s] # "NONE" /\ SaleFree(r, s) /\ n <= Total - Paid(s)
        /\ UNCHANGED <<status, payments, installments>>
    BY <1>3 DEF CollectLock
  <2>2. request' = [request EXCEPT ![r] = q]
    BY <1>3 DEF CollectLock
  <2>3. \A x \in Requests : request'[x] = IF x = r THEN q ELSE request[x]
    BY <1>0, <2>2 DEF SalesTypeOK
  <2>4. SaleShareable(r, s)
    BY <2>1 DEF SaleFree, SaleShareable
  <2>5. q.pc = "collecting" /\ q.sale = s /\ q.paidSoFar = Paid(s) /\ q.amount = n
    OBVIOUS
  <2>6. LockHolds(r, q)
    BY <2>1, <2>5 DEF LockHolds
  <2> HIDE DEF q
  <2> QED
    <3>1. PICK y : y = q
      OBVIOUS
    <3> QED BY <1>0, <2>1, <2>3, <2>4, <2>5, <2>6, <3>1, LocksStarted
<1>4. ASSUME NEW r \in Requests, NEW s \in SaleIds, SplitRead(r, s) PROVE LocksHold'
  <2> DEFINE q == [pc |-> "splitting", sale |-> s, remaining |-> Total - Paid(s)]
  <2>1. /\ request[r] = Idle /\ status[s] # "NONE"
        /\ UNCHANGED <<status, payments, installments>>
    BY <1>4 DEF SplitRead
  <2>2. request' = [request EXCEPT ![r] = q]
    BY <1>4 DEF SplitRead
  <2>3. \A x \in Requests : request'[x] = IF x = r THEN q ELSE request[x]
    BY <1>0, <2>2 DEF SalesTypeOK
  <2>4. q.pc = "splitting" /\ q.sale = s
    OBVIOUS
  <2>5. LockHolds(r, q)
    BY <2>1, <2>4 DEF LockHolds
  <2> HIDE DEF q
  <2> QED
    <3>1. PICK y : y = q
      OBVIOUS
    <3> QED BY <1>0, <2>1, <2>3, <2>4, <2>5, <3>1, LocksStarted
<1>5. ASSUME NEW r \in Requests, NEW s \in SaleIds, NEW i \in DOMAIN installments[s],
             NEW b \in Boxes, PayInstallmentSum(r, s, i, b)
      PROVE  LocksHold'
  <2> DEFINE q == [pc |-> "paying", sale |-> s, index |-> i, box |-> b,
                   paid |-> Paid(s) + installments[s][i].amount]
  <2>1. /\ request[r] = Idle /\ SaleShareable(r, s)
        /\ UNCHANGED <<status, payments, installments>>
    BY <1>5 DEF PayInstallmentSum
  <2>2. request' = [request EXCEPT ![r] = q]
    BY <1>5 DEF PayInstallmentSum
  <2>3. \A x \in Requests : request'[x] = IF x = r THEN q ELSE request[x]
    BY <1>0, <2>2 DEF SalesTypeOK
  <2>4. status[s] # "NONE"
    BY DEF SalesInv, NothingYet
  <2>5. /\ q.pc = "paying" /\ q.sale = s /\ q.index = i
        /\ q.paid = Paid(s) + installments[s][i].amount
    OBVIOUS
  <2>6. installments[s] \in Seq(Installment) /\ Paid(s) \in Nat
    BY <1>0, RowSums DEF SalesTypeOK, Paid
  <2>7. installments[s][i].amount \in Nat
    <3>1. installments[s][i] \in Installment
      BY <2>6
    <3> QED BY <1>0, <3>1 DEF Installment
  <2> HIDE DEF q
  <2>8. LockHolds(r, q)
    BY <2>4, <2>5, <2>6, <2>7 DEF LockHolds
  <2> QED
    <3>1. PICK y : y = q
      OBVIOUS
    <3> QED BY <1>0, <2>1, <2>3, <2>5, <2>8, <3>1, LocksStarted
<1>6. ASSUME NEW r \in Requests, NEW s \in SaleIds, Cancel(r, s) PROVE LocksHold'
  <2>1. /\ request[r] = Idle /\ SaleFree(r, s) /\ UNCHANGED <<installments, request>>
        /\ \A z \in SaleIds \ {s} : payments'[z] = payments[z] /\ status'[z] = status[z]
        /\ status'[s] # "NONE"
    BY <1>0, <1>6 DEF Cancel, SalesTypeOK
  <2>2. \A x \in Requests : request[x].pc \in {"collecting", "paying"} => request[x].sale # s
    BY <2>1, IdleTypes DEF SaleFree
  <2> QED BY <1>0, <1>a, <1>b, <1>c, <2>1, <2>2, LocksKept
<1>7. ASSUME NEW r \in Requests, NEW s \in SaleIds, NEW n \in 1..Quantity, NEW x \in RefundTargets,
             Return(r, s, n, x)
      PROVE  LocksHold'
  <2>1. UNCHANGED <<status, payments, installments, request>>
    BY <1>7 DEF Return
  <2> QED BY <1>0, <1>a, <2>1, LocksKept
<1>8. ASSUME NEW r \in Requests, Collect(r) PROVE LocksHold'
  <2>a. PICK s, p : s = request[r].sale /\ p = CollectedRow(request[r])
    OBVIOUS
  <2> DEFINE more == Append(payments[s], p)
  <2>1. /\ s \in SaleIds /\ p \in Payment /\ p.amount \in 1..Quantity
        /\ payments' = [payments EXCEPT ![s] = more]
    BY <1>8, <2>a, CollectAppends
  <2>2. /\ request[r].pc = "collecting" /\ UNCHANGED installments
        /\ request' = [request EXCEPT ![r] = Idle]
        /\ status' = [status EXCEPT ![s] =
             IF request[r].paidSoFar + request[r].amount >= Total THEN "PAID" ELSE "PARTIAL"]
    BY <1>8, <2>a DEF Collect
  <2>3. p.status = "COMPLETED"
    BY <2>a DEF CollectedRow
  <2>4. payments[s] \in Seq(Payment)
    BY <1>0, <2>1 DEF SalesTypeOK
  <2>5. SaleFree(r, s)
    BY <1>0, <2>a, <2>2 DEF LocksHold, LockHolds
  <2>6. \A x \in Requests \ {r} : request[x].pc \in {"collecting", "paying"} => request[x].sale # s
    BY <2>5 DEF SaleFree
  <2>7. /\ \A z \in SaleIds \ {s} : payments'[z] = payments[z] /\ status'[z] = status[z]
        /\ status'[s] # "NONE" /\ request'[r] = Idle
        /\ \A x \in Requests \ {r} : request'[x] = request[x]
    BY <1>0, <2>1, <2>2 DEF SalesTypeOK
  <2> QED BY <1>0, <1>a, <1>b, <1>c, <2>2, <2>6, <2>7, LocksKept
<1>9. ASSUME NEW r \in Requests, NEW count \in 2..Quantity, SplitWrite(r, count) PROVE LocksHold'
  <2>a. PICK s, shares : s = request[r].sale /\ shares = Shares(request[r].remaining, count)
    OBVIOUS
  <2>1. /\ request[r].pc = "splitting" /\ count <= request[r].remaining
        /\ UNCHANGED <<status, payments>>
        /\ installments' = [installments EXCEPT ![s] = @ \o shares]
        /\ request' = [request EXCEPT ![r] = Idle]
    BY <1>9, <2>a DEF SplitWrite
  <2>2. s \in SaleIds /\ shares \in Seq(Installment)
    BY <1>0, <2>a, <2>1, SalesRequestFields, SharesType
  <2>3. installments[s] \in Seq(Installment)
    BY <1>0, <2>2 DEF SalesTypeOK
  <2>4. /\ DOMAIN installments[s] \subseteq DOMAIN (installments[s] \o shares)
        /\ \A j \in DOMAIN installments[s] :
             (installments[s] \o shares)[j].amount = installments[s][j].amount
    BY <2>2, <2>3, SharesAdded
  <2>5. /\ installments'[s] = installments[s] \o shares
        /\ \A z \in SaleIds \ {s} : installments'[z] = installments[z]
        /\ request'[r] = Idle /\ \A x \in Requests \ {r} : request'[x] = request[x]
    BY <1>0, <2>1, <2>2 DEF SalesTypeOK
  <2>6. \A z \in SaleIds : \A j \in DOMAIN installments[z] :
          j \in DOMAIN installments'[z] /\ installments'[z][j].amount = installments[z][j].amount
    BY <2>4, <2>5
  <2> QED BY <1>0, <1>a, <2>1, <2>5, <2>6, LocksKept
<1>10. ASSUME NEW s \in SaleIds, NEW i \in DOMAIN installments[s],
              installments' = [installments EXCEPT ![s][i].status = "PAID"]
       PROVE  \A z \in SaleIds : \A j \in DOMAIN installments[z] :
                j \in DOMAIN installments'[z] /\ installments'[z][j].amount = installments[z][j].amount
  <2>1. installments[s] \in Seq(Installment)
    BY <1>0 DEF SalesTypeOK
  <2>2. /\ installments'[s] = [installments[s] EXCEPT ![i].status = "PAID"]
        /\ \A z \in SaleIds \ {s} : installments'[z] = installments[z]
    BY <1>0, <1>10 DEF SalesTypeOK
  <2>3. /\ DOMAIN installments'[s] = DOMAIN installments[s]
        /\ \A j \in DOMAIN installments[s] : installments'[s][j].amount = installments[s][j].amount
    BY <2>1, <2>2, InstallmentPaid
  <2> QED BY <2>2, <2>3
<1>11. ASSUME NEW r \in Requests, NEW s \in SaleIds, NEW i \in DOMAIN installments[s],
              MarkInstallment(r, s, i)
       PROVE  LocksHold'
  <2>1. UNCHANGED <<status, payments, request>>
    BY <1>11 DEF MarkInstallment
  <2>2. \A z \in SaleIds : \A j \in DOMAIN installments[z] :
          j \in DOMAIN installments'[z] /\ installments'[z][j].amount = installments[z][j].amount
    BY <1>10, <1>11 DEF MarkInstallment
  <2> QED BY <1>0, <1>a, <2>1, <2>2, LocksKept
<1>12. ASSUME NEW r \in Requests, PayInstallment(r) PROVE LocksHold'
  <2>a. PICK s, i : s = request[r].sale /\ i = request[r].index
    OBVIOUS
  <2>b. PICK p : p = InstallmentRow(request[r], installments[s][i].amount)
    OBVIOUS
  <2> DEFINE more == Append(payments[s], p)
  <2>1. /\ s \in SaleIds /\ p \in Payment /\ i \in DOMAIN installments[s]
        /\ payments' = [payments EXCEPT ![s] = more]
    BY <1>12, <2>a, <2>b, PayInstallmentAppends
  <2>2. /\ request[r].pc = "paying"
        /\ installments' = [installments EXCEPT ![s][i].status = "PAID"]
        /\ request' = [request EXCEPT ![r] = Idle]
        /\ status' = [status EXCEPT ![s] = IF request[r].paid >= Total THEN "PAID" ELSE "PARTIAL"]
    BY <1>12, <2>a DEF PayInstallment
  <2>3. p.status = "COMPLETED" /\ p.amount \in Nat
    BY <1>0, <2>1, <2>b DEF InstallmentRow, Payment
  <2>4. payments[s] \in Seq(Payment)
    BY <1>0, <2>1 DEF SalesTypeOK
  <2>5. /\ more \in Seq(Payment)
        /\ SumOf(more, Completed(more)) = SumOf(payments[s], Completed(payments[s])) + p.amount
    BY <2>1, <2>3, <2>4, PaymentAdded
  <2>6. /\ SumOf(payments[s], Completed(payments[s])) \in Nat
        /\ payments'[s] = more
        /\ \A z \in SaleIds \ {s} : payments'[z] = payments[z] /\ status'[z] = status[z]
        /\ status'[s] # "NONE" /\ request'[r] = Idle
        /\ \A x \in Requests \ {r} : request'[x] = request[x]
    BY <1>0, <2>1, <2>2, <2>4, RowSums DEF SalesTypeOK
  <2> HIDE DEF more
  <2>7. \A z \in SaleIds : \A j \in DOMAIN installments[z] :
          j \in DOMAIN installments'[z] /\ installments'[z][j].amount = installments[z][j].amount
    BY <1>10, <2>1, <2>2
  <2>8. \A z \in SaleIds : SumOf(payments[z], Completed(payments[z])) \in Nat =>
          /\ SumOf(payments[z], Completed(payments[z])) <= SumOf(payments'[z], Completed(payments'[z]))
          /\ SumOf(payments'[z], Completed(payments'[z])) \in Nat
    BY <2>3, <2>5, <2>6
  <2>9. \A x \in Requests \ {r} : request[x].pc = "collecting" => request[x].sale # s
    BY <1>0, <2>a, <2>2 DEF LocksHold, LockHolds, SaleFree
  <2> QED BY <1>0, <1>a, <1>b, <2>6, <2>7, <2>8, <2>9, LocksKept
<1>13. ASSUME NEW r \in Requests, Abandon(r) PROVE LocksHold'
  <2>1. /\ UNCHANGED <<status, payments, installments>>
        /\ request'[r] = Idle /\ \A x \in Requests \ {r} : request'[x] = request[x]
    BY <1>0, <1>13 DEF Abandon, SalesTypeOK
  <2> QED BY <1>0, <1>a, <2>1, LocksKept
<1> QED BY <1>1, <1>2, <1>3, <1>4, <1>5, <1>6, <1>7, <1>8, <1>9, <1>11, <1>12, <1>13 DEF SalesNext
-----------------------------------------------------------------------------
(* The drawers.                                                            *)
BoxMoney(rows, b) == SumOf(rows, Money(rows) \cap InBox(rows, b))

LEMMA BoxMoneyNat == ASSUME NEW rows \in Seq(Payment), NEW b PROVE BoxMoney(rows, b) \in Nat
BY RowSums DEF BoxMoney

LEMMA InDrawerInt ==
  ASSUME SalesTypeOK, NEW s \in SaleIds, NEW b
  PROVE  InDrawer(s, b) \in Int
<1>1. BoxMoney(payments[s], b) \in Nat
  BY BoxMoneyNat DEF SalesTypeOK
<1>2. (IF b \in RefundTargets THEN returned[s][b] ELSE 0) \in Int
  BY DEF SalesTypeOK
<1> QED BY <1>1, <1>2 DEF InDrawer, BoxMoney, Money

LEMMA InDrawerNextInt ==
  ASSUME SalesTypeOK', NEW s \in SaleIds, NEW b
  PROVE  InDrawer(s, b)' \in Int
<1>1. payments'[s] \in Seq(Payment)
  BY DEF SalesTypeOK
<1>2. BoxMoney(payments'[s], b) \in Nat
  BY <1>1, BoxMoneyNat
<1>3. (IF b \in RefundTargets THEN returned'[s][b] ELSE 0) \in Int
  BY DEF SalesTypeOK
<1> QED BY <1>2, <1>3 DEF InDrawer, BoxMoney, Money

(* What a sale brings into a drawer, the drawer gains.                     *)
LEMMA DrawerGains ==
  ASSUME SalesTypeOK, SalesTypeOK', NEW s \in SaleIds, NEW b,
         \A x \in SaleIds \ {s} : payments'[x] = payments[x] /\ returned'[x] = returned[x]
  PROVE  /\ Drawer(b)' = Drawer(b) + (InDrawer(s, b)' - InDrawer(s, b))
         /\ Drawer(b) \in Int
<1> DEFINE f == [x \in SaleIds |-> InDrawer(x, b)]
           g == [x \in SaleIds |-> InDrawer(x, b)']
<1>1. \A x \in SaleIds \ {s} : InDrawer(x, b)' = InDrawer(x, b)
  BY DEF InDrawer
<1>2. /\ IsFiniteSet(SaleIds) /\ \A x \in SaleIds : f[x] \in Int /\ g[x] \in Int
      /\ \A x \in SaleIds \ {s} : f[x] = g[x]
  BY <1>1, InDrawerInt, InDrawerNextInt, SalesConstants
<1>3. Drawer(b) = SumFunctionOnSet(f, SaleIds) /\ Drawer(b)' = SumFunctionOnSet(g, SaleIds)
  BY DEF Drawer
<1>4. f[s] = InDrawer(s, b) /\ g[s] = InDrawer(s, b)'
  OBVIOUS
<1> HIDE DEF f, g
<1>5. SumFunctionOnSet(g, SaleIds) = SumFunctionOnSet(f, SaleIds) + g[s] - f[s]
  BY <1>2, SumChange
<1>6. SumFunctionOnSet(f, SaleIds) \in Int
  BY <1>2, SumInt
<1>7. f[s] \in Int /\ g[s] \in Int
  BY <1>2
<1> QED BY <1>3, <1>4, <1>5, <1>6, <1>7

(* A step that changes one sale and the drawers by what it brings in.      *)
LEMMA DrawersFollow ==
  ASSUME SalesInv, SalesTypeOK', NEW s \in SaleIds,
         \A x \in SaleIds \ {s} : payments'[x] = payments[x] /\ returned'[x] = returned[x],
         CreditMoved(s) => CreditMoved(s)',
         ~CreditMoved(s)' => \A b \in Boxes : box'[b] = box[b] + (InDrawer(s, b)' - InDrawer(s, b))
  PROVE  DrawerHoldsItsPayments'
<1> SUFFICES ASSUME \A x \in SaleIds : ~CreditMoved(x)', NEW b \in Boxes
             PROVE  box'[b] = Drawer(b)'
  BY DEF DrawerHoldsItsPayments
<1>1. \A x \in SaleIds : ~CreditMoved(x)
  BY DEF CreditMoved
<1>2. box[b] = Drawer(b)
  BY <1>1 DEF SalesInv, DrawerHoldsItsPayments
<1>3. SalesTypeOK
  BY DEF SalesInv
<1>4. Drawer(b)' = Drawer(b) + (InDrawer(s, b)' - InDrawer(s, b)) /\ Drawer(b) \in Int
  BY <1>3, DrawerGains
<1> QED BY <1>2, <1>4

LEMMA DrawersUnchanged ==
  ASSUME SalesInv, UNCHANGED <<payments, returned, box>>
  PROVE  DrawerHoldsItsPayments'
<1> SUFFICES ASSUME \A x \in SaleIds : ~CreditMoved(x)', NEW b \in Boxes
             PROVE  box'[b] = Drawer(b)'
  BY DEF DrawerHoldsItsPayments
<1>1. \A x \in SaleIds : ~CreditMoved(x)
  BY DEF CreditMoved
<1>2. \A x : InDrawer(x, b)' = InDrawer(x, b)
  BY DEF InDrawer
<1>3. Drawer(b)' = Drawer(b)
  BY <1>2 DEF Drawer
<1> QED BY <1>1, <1>3 DEF SalesInv, DrawerHoldsItsPayments

LEMMA NextDrawers == SalesInv /\ [SalesNext]_salesVars => DrawerHoldsItsPayments'
<1> SUFFICES ASSUME SalesInv, [SalesNext]_salesVars PROVE DrawerHoldsItsPayments'
  OBVIOUS
<1>0. SalesTypeOK /\ SalesTypeOK' /\ Quantity \in Nat /\ NoBox \notin Boxes
  BY NextSalesType, SalesConstants DEF SalesInv
<1>a. \A s \in SaleIds : \A b :
        /\ InDrawer(s, b)
             = BoxMoney(payments[s], b) - (IF b \in RefundTargets THEN returned[s][b] ELSE 0)
        /\ InDrawer(s, b)'
             = BoxMoney(payments'[s], b) - (IF b \in RefundTargets THEN returned'[s][b] ELSE 0)
  BY DEF InDrawer, BoxMoney, Money
<1>b. \A s \in SaleIds : \A b :
        /\ BoxMoney(payments[s], b) \in Nat /\ BoxMoney(payments'[s], b) \in Nat
        /\ (IF b \in RefundTargets THEN returned[s][b] ELSE 0) \in Int
        /\ (IF b \in RefundTargets THEN returned'[s][b] ELSE 0) \in Int
  <2> TAKE s \in SaleIds
  <2> TAKE b
  <2>1. payments[s] \in Seq(Payment) /\ payments'[s] \in Seq(Payment)
    BY <1>0 DEF SalesTypeOK
  <2>2. /\ (IF b \in RefundTargets THEN returned[s][b] ELSE 0) \in Int
        /\ (IF b \in RefundTargets THEN returned'[s][b] ELSE 0) \in Int
    BY <1>0 DEF SalesTypeOK
  <2> QED BY <2>1, <2>2, BoxMoneyNat
<1>c. \A b \in Boxes : box[b] \in Int
  BY <1>0 DEF SalesTypeOK
<1>1. CASE UNCHANGED salesVars
  BY <1>1, DrawersUnchanged DEF salesVars
<1>2. ASSUME NEW r \in Requests, NEW s \in SaleIds, NEW tenders \in TenderLists, Create(r, s, tenders)
      PROVE  DrawerHoldsItsPayments'
  <2> DEFINE rows == Paying(tenders)
  <2>1. tenders \in Seq(Tender)
    BY SalesConstants
  <2>2. \A b : BoxMoney(rows, b) = SumOf(tenders, FillBox(tenders, b))
    BY <2>1, TendersPaid DEF BoxMoney
  <2>3. payments' = [payments EXCEPT ![s] = rows]
    BY <1>2 DEF Create, Paying
  <2>4. /\ payments[s] = <<>> /\ returned[s] = [x \in RefundTargets |-> 0]
        /\ returned' = returned
        /\ box' = [b \in Boxes |-> box[b] + SumOf(tenders, FillBox(tenders, b))]
    BY <1>2 DEF Create, SalesInv, NothingYet
  <2> HIDE DEF rows
  <2>5. payments'[s] = rows /\ \A x \in SaleIds \ {s} : payments'[x] = payments[x]
    BY <1>0, <2>3 DEF SalesTypeOK
  <2>6. ~CreditMoved(s)
    BY <2>4 DEF CreditMoved
  <2>7. Completed(payments[s]) = {}
    BY <2>4 DEF Completed
  <2>8. ASSUME NEW b \in Boxes PROVE box'[b] = box[b] + (InDrawer(s, b)' - InDrawer(s, b))
    <3>1. BoxMoney(payments[s], b) = 0
      BY <2>7, NoMoney DEF BoxMoney
    <3>2. BoxMoney(payments'[s], b) = SumOf(tenders, FillBox(tenders, b))
      BY <2>2, <2>5
    <3>3. box'[b] = box[b] + BoxMoney(payments'[s], b)
      BY <2>4, <3>2
    <3>4. InDrawer(s, b) = 0 /\ InDrawer(s, b)' = BoxMoney(payments'[s], b)
      BY <1>a, <1>b, <2>4, <3>1
    <3> QED BY <1>b, <1>c, <3>3, <3>4
  <2> QED BY <1>0, <2>4, <2>5, <2>6, <2>8, DrawersFollow
<1>3. ASSUME NEW r \in Requests, NEW s \in SaleIds, Cancel(r, s) PROVE DrawerHoldsItsPayments'
  <2> DEFINE rows == payments[s]
             gone == [i \in DOMAIN rows |-> [rows[i] EXCEPT !.status = "REFUNDED"]]
  <2>1. rows \in Seq(Payment)
    BY <1>0 DEF SalesTypeOK
  <2>2. Completed(gone) = {} /\ DOMAIN gone = DOMAIN rows
    BY <2>1, PaymentsRefunded
  <2>3. payments' = [payments EXCEPT ![s] = gone]
    BY <1>0, <1>3 DEF Cancel, SalesTypeOK
  <2>4. \A i \in DOMAIN rows : gone[i].method = rows[i].method /\ gone[i].status = "REFUNDED"
    <3>1. \A i \in DOMAIN rows : rows[i] \in Payment
      BY <2>1, PaymentRows
    <3> QED BY <3>1 DEF Payment
  <2>5. returned' = returned /\ box' = [b \in Boxes |-> box[b] - RefundedBy(s, b)]
    BY <1>3 DEF Cancel
  <2>6. \A b : RefundedBy(s, b) = SumOf(rows, Completed(rows) \cap InBox(rows, b))
    BY DEF RefundedBy
  <2> HIDE DEF gone
  <2>7. payments'[s] = gone /\ \A x \in SaleIds \ {s} : payments'[x] = payments[x]
    BY <1>0, <2>3 DEF SalesTypeOK
  <2>8. \A i \in DOMAIN rows : rows[i].method = "CREDIT" => CreditMoved(s)'
    BY <2>2, <2>4, <2>7 DEF CreditMoved
  <2>9. CreditMoved(s) => CreditMoved(s)'
    BY <2>8 DEF CreditMoved
  <2>10. ASSUME ~CreditMoved(s)', NEW b \in Boxes
         PROVE  box'[b] = box[b] + (InDrawer(s, b)' - InDrawer(s, b))
    <3>1. Completed(rows) \cap InBox(rows, b) = Money(rows) \cap InBox(rows, b)
      BY <2>8, <2>10 DEF Money, Completed, Settling
    <3>2. RefundedBy(s, b) = BoxMoney(rows, b)
      BY <2>6, <3>1 DEF BoxMoney
    <3>3. BoxMoney(payments'[s], b) = 0
      BY <2>2, <2>7, NoMoney DEF BoxMoney
    <3>4. box'[b] = box[b] - BoxMoney(rows, b)
      BY <2>5, <3>2
    <3>5. InDrawer(s, b)' - InDrawer(s, b) = 0 - BoxMoney(rows, b)
      BY <1>a, <1>b, <2>5, <3>3
    <3>6. BoxMoney(rows, b) \in Nat /\ box[b] \in Int
      BY <1>b, <1>c
    <3> QED BY ONLY <3>4, <3>5, <3>6
  <2> QED BY <1>0, <2>5, <2>7, <2>9, <2>10, DrawersFollow
<1>4. ASSUME NEW r \in Requests, NEW s \in SaleIds, NEW n \in 1..Quantity, NEW x \in RefundTargets,
             Return(r, s, n, x)
      PROVE  DrawerHoldsItsPayments'
  <2>1. /\ payments' = payments /\ returned' = [returned EXCEPT ![s][x] = @ + n]
        /\ box' = IF x \in Boxes THEN Into(x, -n) ELSE box
    BY <1>4 DEF Return
  <2>2. /\ \A z \in SaleIds \ {s} : returned'[z] = returned[z]
        /\ \A z \in RefundTargets : returned'[s][z] = returned[s][z] + (IF z = x THEN n ELSE 0)
        /\ \A z \in RefundTargets : returned[s][z] \in Nat
    <3>1. returned[s] \in [RefundTargets -> 0..Quantity]
      BY <1>0 DEF SalesTypeOK
    <3>2. /\ returned'[s] = [returned[s] EXCEPT ![x] = @ + n]
          /\ \A z \in SaleIds \ {s} : returned'[z] = returned[z]
      BY <1>0, <2>1 DEF SalesTypeOK
    <3> QED BY <1>0, <3>1, <3>2
  <2>3. \A b \in Boxes : box'[b] = box[b] - (IF b = x THEN n ELSE 0)
    <3>1. CASE x \in Boxes
      <4>1. x # NoBox /\ box' = [box EXCEPT ![x] = @ + (-n)]
        BY <1>0, <2>1, <3>1 DEF Into
      <4>2. \A b \in Boxes : box'[b] = IF b = x THEN box[b] + (-n) ELSE box[b]
        BY <1>0, <4>1 DEF SalesTypeOK
      <4>3. n \in Nat
        BY <1>0
      <4> QED BY <1>c, <4>2, <4>3
    <3>2. CASE x \notin Boxes
      BY <1>c, <2>1, <3>2
    <3> QED BY <3>1, <3>2
  <2>4. CreditMoved(s) => CreditMoved(s)'
    BY <2>1 DEF CreditMoved
  <2>5. ASSUME NEW b \in Boxes PROVE box'[b] = box[b] + (InDrawer(s, b)' - InDrawer(s, b))
    <3>1. CASE b \in RefundTargets
      <4>1. InDrawer(s, b)' - InDrawer(s, b) = 0 - (IF b = x THEN n ELSE 0)
        BY <1>0, <1>a, <1>b, <2>1, <2>2, <3>1
      <4> QED BY <1>0, <1>c, <2>3, <4>1
    <3>2. CASE b \notin RefundTargets
      <4>1. InDrawer(s, b)' - InDrawer(s, b) = 0 /\ b # x
        BY <1>a, <1>b, <2>1, <3>2
      <4> QED BY <1>c, <2>3, <4>1
    <3> QED BY <3>1, <3>2
  <2> QED BY <1>0, <2>1, <2>2, <2>4, <2>5, DrawersFollow
(* A payment that is added, and what the drawer of it gets.                *)
<1>5. ASSUME NEW s \in SaleIds, NEW p \in Payment, p.status = "COMPLETED",
             payments' = [payments EXCEPT ![s] = Append(payments[s], p)],
             returned' = returned, box' = Into(p.box, p.amount),
             p.method = "CREDIT" => p.origin = "payment"
      PROVE  DrawerHoldsItsPayments'
  <2> DEFINE rows == payments[s]
             more == Append(rows, p)
  <2>1. rows \in Seq(Payment)
    BY <1>0 DEF SalesTypeOK
  <2>2. /\ DOMAIN rows \subseteq DOMAIN more /\ \A i \in DOMAIN rows : more[i] = rows[i]
        /\ Len(rows) + 1 \in DOMAIN more /\ more[Len(rows) + 1] = p
    BY <2>1
  <2>3. \A b : BoxMoney(more, b) = BoxMoney(rows, b)
                                     + (IF p.method # "CREDIT" /\ p.box = b THEN p.amount ELSE 0)
    BY <1>5, <2>1, PaymentAdded DEF BoxMoney
  <2>4. p.amount \in Nat /\ p.box \in Boxes \cup {NoBox}
    BY <1>0 DEF Payment
  <2> HIDE DEF more
  <2>5. payments'[s] = more /\ \A x \in SaleIds \ {s} : payments'[x] = payments[x]
    BY <1>0, <1>5 DEF SalesTypeOK, more
  <2>6. CreditMoved(s) => CreditMoved(s)'
    BY <2>2, <2>5 DEF CreditMoved
  <2>7. p.method = "CREDIT" /\ p.box # NoBox => CreditMoved(s)'
    BY <1>5, <2>2, <2>5 DEF CreditMoved
  <2>8. ASSUME ~CreditMoved(s)', NEW b \in Boxes
        PROVE  box'[b] = box[b] + (InDrawer(s, b)' - InDrawer(s, b))
    <3>1. box'[b] = box[b] + (IF p.box = b THEN p.amount ELSE 0)
      BY <1>0, <1>5, <2>4 DEF Into, SalesTypeOK
    <3>2. p.box = b => p.method # "CREDIT"
      BY <1>0, <2>7, <2>8
    <3>3. BoxMoney(payments'[s], b) = BoxMoney(payments[s], b) + (IF p.box = b THEN p.amount ELSE 0)
      BY <2>3, <2>5, <3>2
    <3>4. InDrawer(s, b)' - InDrawer(s, b) = IF p.box = b THEN p.amount ELSE 0
      BY <1>a, <1>b, <1>5, <2>4, <3>3
    <3> QED BY <3>1, <3>4
  <2> QED BY <1>0, <1>5, <2>5, <2>6, <2>8, DrawersFollow
<1>6. ASSUME NEW r \in Requests, Collect(r) PROVE DrawerHoldsItsPayments'
  <2>a. PICK s, p : s = request[r].sale /\ p = CollectedRow(request[r])
    OBVIOUS
  <2>1. s \in SaleIds /\ p \in Payment /\ payments' = [payments EXCEPT ![s] = Append(payments[s], p)]
    BY <1>6, <2>a, CollectAppends
  <2>2. /\ p.status = "COMPLETED" /\ p.origin = "payment" /\ p.box = request[r].box
        /\ p.amount = request[r].amount
    BY <2>a DEF CollectedRow
  <2>3. returned' = returned /\ box' = Into(request[r].box, request[r].amount)
    BY <1>6 DEF Collect
  <2> QED BY <1>5, <2>1, <2>2, <2>3
<1>7. ASSUME NEW r \in Requests, PayInstallment(r) PROVE DrawerHoldsItsPayments'
  <2>a. PICK s, amount : s = request[r].sale /\ amount = installments[s][request[r].index].amount
    OBVIOUS
  <2>b. PICK p : p = InstallmentRow(request[r], amount)
    OBVIOUS
  <2>1. s \in SaleIds /\ p \in Payment /\ payments' = [payments EXCEPT ![s] = Append(payments[s], p)]
    BY <1>7, <2>a, <2>b, PayInstallmentAppends
  <2>2. /\ p.status = "COMPLETED" /\ p.method = "CASH" /\ p.box = request[r].box
        /\ p.amount = amount
    BY <2>b DEF InstallmentRow
  <2>3. returned' = returned /\ box' = Into(request[r].box, amount)
    BY <1>7, <2>a DEF PayInstallment
  <2> QED BY <1>5, <2>1, <2>2, <2>3
<1>8. ASSUME UNCHANGED <<payments, returned, box>> PROVE DrawerHoldsItsPayments'
  BY <1>8, DrawersUnchanged
<1>9. ASSUME NEW r \in Requests, NEW s \in SaleIds,
             \/ \E m \in CollectMethods, n \in 1..Quantity, b \in CollectBoxes :
                  CollectLock(r, s, m, n, b)
             \/ SplitRead(r, s)
             \/ \E i \in DOMAIN installments[s] :
                  (\E b \in Boxes : PayInstallmentSum(r, s, i, b)) \/ MarkInstallment(r, s, i)
      PROVE  DrawerHoldsItsPayments'
  <2>1. UNCHANGED <<payments, returned, box>>
    BY <1>9, Zenon DEF CollectLock, SplitRead, PayInstallmentSum, MarkInstallment
  <2> QED BY <1>8, <2>1
<1>10. ASSUME NEW r \in Requests, (\E count \in 2..Quantity : SplitWrite(r, count)) \/ Abandon(r)
       PROVE  DrawerHoldsItsPayments'
  <2>1. UNCHANGED <<payments, returned, box>>
    BY <1>10, Zenon DEF SplitWrite, Abandon
  <2> QED BY <1>8, <2>1
<1> QED BY <1>1, <1>2, <1>3, <1>4, <1>6, <1>7, <1>9, <1>10 DEF SalesNext
-----------------------------------------------------------------------------
LEMMA SalesInvAlways == SalesSpec => []SalesInv
<1>1. SalesInv /\ [SalesNext]_salesVars => SalesInv'
  BY NextSalesType, NextSalesFine, NextLocks, NextDrawers DEF SalesInv, AllSalesFine
<1> QED BY SalesInitInv, <1>1, PTL DEF SalesSpec

(* Every row of the sales, and what every request carries between its two  *)
(* halves, has the form the code gives it; the stock is never negative and *)
(* no more units come back than an invoice sold.                           *)
THEOREM SalesTypeCorrect == SalesSpec => []SalesTypeOK
<1>1. SalesInv => SalesTypeOK
  BY DEF SalesInv
<1> QED BY SalesInvAlways, <1>1, PTL

(* However many requests collect, pay installments and cancel at once, the *)
(* payments at the counter never exceed the invoice.                       *)
THEOREM CounterIsNeverOverpaid == SalesSpec => []CounterNeverOverpaid
<1>1. SalesInv => CounterNeverOverpaid
  BY DEF SalesInv
<1> QED BY SalesInvAlways, <1>1, PTL

(* Until an invoice is cancelled, the receivables account holds exactly    *)
(* what the customer still owes for it.                                    *)
THEOREM ReceivableIsAlwaysDebt == SalesSpec => []ReceivableIsDebt
<1>1. SalesInv => ReceivableIsDebt
  BY DEF SalesInv
<1> QED BY SalesInvAlways, <1>1, PTL

(* An invoice that is shown as paid is covered by completed payments.      *)
THEOREM PaidIsAlwaysCovered == SalesSpec => []PaidIsCovered
<1>1. SalesInv => PaidIsCovered
  BY DEF SalesInv
<1> QED BY SalesInvAlways, <1>1, PTL

(* As long as credit has moved no money of a drawer, every drawer holds    *)
(* the money paid into it less the refunds.                                *)
THEOREM DrawerAlwaysHoldsItsPayments == SalesSpec => []DrawerHoldsItsPayments
<1>1. SalesInv => DrawerHoldsItsPayments
  BY DEF SalesInv
<1> QED BY SalesInvAlways, <1>1, PTL
=============================================================================
