------------------------- MODULE Consignment_proofs -------------------------
(***************************************************************************)
(* Proofs about Consignment, for any documents, lines, requests, shelves,  *)
(* costs and prices: a consignment is closed when, and only when, nothing  *)
(* of it is left, if its moves post; and the goods and the books follow    *)
(* its lines.                                                              *)
(*                                                                         *)
(* The first part is the induction over IInv: what a request has read is   *)
(* still true of what others may change.  The second one, from "The goods  *)
(* and the books", is about sums: an issue that has not committed adds up  *)
(* (IssueAddsUp), and a commit changes the sums by what it posts.          *)
(***************************************************************************)
EXTENDS Consignment, Lemmas

(* The stock tables are typed and explained, in the words of Lemmas.       *)
LEMMA StockInvExplained ==
  /\ StockInv <=> Explained(Cells, inventory, kardex)
  /\ StockInv' <=> Explained(Cells, inventory', kardex')
BY DEF StockInv, StockTypeOK, AbsentRowIsEmpty, KardexExplainsStock, Explained

(* One accepted applyStockDelta keeps the tables typed and explained.      *)
LEMMA ApplyStockDeltaPreserves ==
  ASSUME StockInv, NEW c \in Cells, NEW delta \in Int, NEW reason,
         NEW unitCost \in Cost, ApplyStockDelta(c, delta, reason, unitCost)
  PROVE  StockInv'
BY StockInvExplained, ApplyDeltaExplained DEF ApplyStockDelta

USE ConsignmentConstants

(* What the request's fields are, while it creates or moves.               *)
LEMMA RequestFields ==
  ASSUME TypeOK, NEW r \in Requests
  PROVE  /\ InCreate(r) => /\ request[r].doc \in Documents
                           /\ request[r].todo \in SUBSET Lines
                           /\ request[r].taken \in [Cells -> Nat]
                           /\ request[r].total \in Nat
                           /\ request[r].cost \in [Lines -> Cost]
         /\ request[r].pc \in {"creating", "written"} => request[r] \in Creating
         /\ request[r].pc = "costed" => request[r].line \in Lines
         /\ InMove(r) => /\ request[r].line \in Lines /\ request[r].kind \in Kind
                         /\ request[r].qty \in Nat \ {0}
         /\ request[r].pc = "moved" => request[r].closing \in BOOLEAN
<1>1. request[r] \in Creating \cup Costed \cup Moving \cup {Idle}
  BY DEF TypeOK
<1>2. CASE request[r] \in Creating
  BY <1>2 DEF Creating, InCreate, InMove
<1>3. CASE request[r] \in Costed
  BY <1>3 DEF Costed, InCreate, InMove
<1>4. CASE request[r] \in Moving
  BY <1>4 DEF Moving, InCreate, InMove
<1>5. CASE request[r] = Idle
  BY <1>5 DEF Idle, InCreate, InMove
<1> QED BY <1>1, <1>2, <1>3, <1>4, <1>5

(* A line has a shelf.                                                     *)
LEMMA CellOfLine == \A l \in Lines : CellOf(l) \in Cells /\ DocumentOf[l] \in Documents
BY DEF CellOf, Cells

(* Entries are amounts per account.                                        *)
LEMMA EntryType ==
  ASSUME TypeOK
  PROVE  /\ \A n \in Nat : IssueEntry(n) \in [Accounts -> Int]
         /\ \A l \in Lines, kind \in Kind, qty \in Nat :
              MoveEntry(l, kind, qty) \in [Accounts -> Int]
<1>1. NoEntry \in [Accounts -> Int]
  BY DEF NoEntry
<1>2. \A a, b \in Accounts, n \in Int : Transfer(a, b, n) \in [Accounts -> Int]
  BY <1>1 DEF Transfer
<1>3. ASSUME NEW n \in Nat PROVE IssueEntry(n) \in [Accounts -> Int]
  <2>1. RoundDiv(n, Scale) \in Nat
    BY RoundDivClose
  <2>2. "consigned" \in Accounts /\ "inventory" \in Accounts
    BY DEF Accounts
  <2>3. Transfer("consigned", "inventory", RoundDiv(n, Scale)) \in [Accounts -> Int]
    BY <1>2, <2>1, <2>2
  <2> QED BY <1>1, <2>3 DEF IssueEntry
<1>4. ASSUME NEW l \in Lines, NEW kind \in Kind, NEW qty \in Nat
      PROVE  MoveEntry(l, kind, qty) \in [Accounts -> Int]
  <2>1. LineCost(l) \in Nat
    BY DEF LineCost, OrZero, TypeOK, Item, Cost
  <2>2. LineCost(l) * qty \in Int /\ PriceOf[l] * qty \in Int
    BY <2>1
  <2> DEFINE cost == LineCost(l) * qty
             revenue == PriceOf[l] * qty
  <2> HIDE DEF cost, revenue
  <2>3. /\ Transfer("inventory", "consigned", cost) \in [Accounts -> Int]
        /\ Transfer("receivable", "salesRevenue", revenue) \in [Accounts -> Int]
        /\ Transfer("cogs", "consigned", cost) \in [Accounts -> Int]
        /\ Transfer("cogs", "payable", revenue) \in [Accounts -> Int]
    BY <1>2, <2>2 DEF Accounts, cost, revenue
  <2>4. Plus(Transfer("receivable", "salesRevenue", revenue),
             Transfer("cogs", "consigned", cost)) \in [Accounts -> Int]
    BY <2>3 DEF Plus
  <2> QED BY <1>1, <2>3, <2>4 DEF MoveEntry, cost, revenue
<1> QED BY <1>3, <1>4

(* A move of a line that had a cost leaves an entry.                       *)
LEMMA CostedMovePosts ==
  ASSUME TypeOK, NEW l \in Lines, NEW kind \in Kind, NEW qty \in Nat \ {0},
         EveryMovePosts(DocumentOf[l])
  PROVE  MoveEntry(l, kind, qty) # NoEntry
<1> DEFINE cost == LineCost(l) * qty
           revenue == PriceOf[l] * qty
<1>1. IsOut(l) /\ LineCost(l) > 0 /\ LineCost(l) \in Nat
  BY DEF EveryMovePosts, IsOut, LinesOf, LineCost, OrZero, TypeOK, Item, Cost
<1>2. cost \in Nat /\ cost # 0 /\ revenue \in Int
  BY <1>1
<1> HIDE DEF cost, revenue
<1>3. NoEntry["consigned"] = 0 /\ "consigned" \in Accounts
  BY DEF NoEntry, Accounts
<1>4. Transfer("inventory", "consigned", cost)["consigned"] = -cost
  BY DEF Transfer, NoEntry, Accounts
<1>5. /\ Transfer("receivable", "salesRevenue", revenue)["consigned"] = 0
      /\ Transfer("cogs", "consigned", cost)["consigned"] = -cost
  BY DEF Transfer, NoEntry, Accounts
<1>6. Plus(Transfer("receivable", "salesRevenue", revenue),
           Transfer("cogs", "consigned", cost))["consigned"] = -cost
  BY <1>2, <1>3, <1>5 DEF Plus
<1>7. MoveEntry(l, kind, qty)["consigned"] = -cost
  BY <1>1, <1>4, <1>6 DEF MoveEntry, cost, revenue
<1> QED BY <1>2, <1>3, <1>7

-----------------------------------------------------------------------------
\* The steps that change nothing but the locals of one request.
LocalStep(r) ==
  \/ \E d \in Documents : CreateOut(r, d)
  \/ \E l \in Lines : ReadCost(r, l)
  \/ Debit(r) \/ CreatePost(r)
  \/ \E l \in Lines, kind \in Kind : \E qty \in 1..QuantityOf[l] : MoveLock(r, l, kind, qty)
  \/ MoveWork(r) \/ MoveRefused(r) \/ Abort(r)

(* They do.                                                                *)
LEMMA LocalStepIsLocal ==
  ASSUME TypeOK, NEW r \in Requests, LocalStep(r)
  PROVE  /\ UNCHANGED <<inventory, kardex, consignment, item, balance>>
         /\ \A x \in Requests \ {r} : request'[x] = request[x]
         /\ \A l \in Lines : Open(l)' = Open(l) /\ LineCost(l)' = LineCost(l)
         /\ \A x \in Requests \ {r} :
              /\ InCreate(x)' = InCreate(x) /\ InMove(x)' = InMove(x)
              /\ Posting(x)' = Posting(x)
              /\ \A c \in Cells : Holds(x, c)' = Holds(x, c)
<1>1. UNCHANGED <<inventory, kardex, consignment, item, balance>>
  BY DEF LocalStep, CreateOut, ReadCost, Debit, CreatePost, MoveLock, MoveWork,
         MoveRefused, Abort
<1>2. \E q : request' = [request EXCEPT ![r] = q]
  BY DEF LocalStep, CreateOut, ReadCost, Debit, CreatePost, MoveLock, MoveWork,
         MoveRefused, Abort, Done
<1>3. \A x \in Requests \ {r} : request'[x] = request[x]
  BY <1>2 DEF TypeOK
<1>4. \A l \in Lines : Open(l)' = Open(l) /\ LineCost(l)' = LineCost(l)
  BY <1>1 DEF Open, LineCost, OrZero
<1>5. \A x \in Requests \ {r} : /\ InCreate(x)' = InCreate(x) /\ InMove(x)' = InMove(x)
                                 /\ \A c \in Cells : Holds(x, c)' = Holds(x, c)
  BY <1>3 DEF InCreate, InMove, Holds, ToShelf
<1>6. \A x \in Requests \ {r} : Posting(x)' = Posting(x)
  <2>1. \A l, kind, qty : MoveEntry(l, kind, qty)' = MoveEntry(l, kind, qty)
    BY <1>1 DEF MoveEntry, LineCost, OrZero
  <2> QED BY <1>3, <2>1 DEF Posting
<1> QED BY <1>1, <1>3, <1>4, <1>5, <1>6

(* Every step is of one of six kinds.                                      *)
LEMMA Steps ==
  ASSUME [Next]_vars
  PROVE  \/ UNCHANGED vars
         \/ \E c \in Cells, qty \in 1..MaxQty, cost \in UnitCosts \cup {NoCost} :
              ReceiveGoods(c, qty, cost)
         \/ \E c \in Cells, qty \in 1..MaxQty : IssueSale(c, qty)
         \/ \E d \in Documents : CreateIn(d)
         \/ \E r \in Requests : LocalStep(r)
         \/ \E r \in Requests : CreateCommit(r)
         \/ \E r \in Requests : MoveCommit(r)
BY DEF Next, Step, LocalStep

(* What goes out with a document was there.                                *)
LEMMA CreateCommitStock ==
  ASSUME IInv, NEW r \in Requests, CreateCommit(r)
  PROVE  StockInv'
<1> DEFINE taken == request[r].taken
<1>1. InCreate(r) /\ taken \in [Cells -> Nat]
  BY RequestFields DEF IInv, CreateCommit, InCreate
<1>2. \A c \in Cells : taken[c] <= inventory[c].quantity
  BY <1>1 DEF IInv, TakenIsThere
<1>3. ASSUME NEW c \in Cells
      PROVE  /\ inventory'[c] \in Row /\ kardex'[c] \in Kardex
             /\ inventory'[c].quantity = inventory[c].quantity - taken[c]
             /\ ~inventory'[c].exists => inventory'[c] = NoRow
             /\ kardex'[c].total = inventory'[c].quantity
             /\ kardex'[c].balance = inventory'[c].quantity
  <2> DEFINE row == inventory[c]
             n == taken[c]
  <2>1. /\ row \in Row /\ (~row.exists => row = NoRow) /\ kardex[c] \in Kardex
        /\ kardex[c].total = row.quantity /\ kardex[c].balance = row.quantity
        /\ n \in Nat /\ n <= row.quantity /\ row.quantity \in Nat
    BY <1>1, <1>2 DEF IInv, TypeOK, StockTypeOK, AbsentRowIsEmpty, KardexExplainsStock, Row
  <2>2. /\ inventory'[c] = IF n > 0 THEN ApplyDelta(row, -n, NoCost) ELSE row
        /\ kardex'[c] = Record(kardex[c], -n, row.quantity - n, "TRANSFER_OUT")
    BY DEF CreateCommit
  <2> HIDE DEF row, n
  <2>3. -n \in Int /\ row.quantity - n \in Nat /\ NoCost \in Cost /\ CanApply(row, -n)
    BY <2>1 DEF CanApply, Cost
  <2>4. /\ ApplyDelta(row, -n, NoCost) \in Row /\ ApplyDelta(row, -n, NoCost).exists
        /\ ApplyDelta(row, -n, NoCost).quantity = row.quantity + (-n)
    BY <2>1, <2>3, ApplyDeltaRow
  <2>5. /\ kardex'[c] \in Kardex /\ kardex'[c].total = kardex[c].total + (-n)
        /\ kardex'[c].balance = IF -n = 0 THEN kardex[c].balance ELSE row.quantity - n
    BY <2>1, <2>2, <2>3, RecordKardex
  <2>6. CASE n > 0
    BY <2>1, <2>2, <2>4, <2>5, <2>6 DEF row, n
  <2>7. CASE n = 0
    <3>1. row.quantity - n = row.quantity
      BY <2>1, <2>7
    <3> QED BY <2>1, <2>2, <2>5, <2>7, <3>1 DEF row, n
  <2> QED BY <2>1, <2>6, <2>7
<1>4. inventory' = [c \in Cells |-> inventory'[c]] /\ kardex' = [c \in Cells |-> kardex'[c]]
  BY DEF CreateCommit
<1>5. StockTypeOK'
  BY <1>3, <1>4 DEF StockTypeOK
<1> QED BY <1>3, <1>5 DEF StockInv, AbsentRowIsEmpty, KardexExplainsStock

(* Every step keeps the shelves typed and explained.                       *)
LEMMA NextStock == IInv /\ [Next]_vars => StockInv'
<1> SUFFICES ASSUME IInv, [Next]_vars PROVE StockInv'
  OBVIOUS
<1>0. StockInv /\ TypeOK
  BY DEF IInv, TypeOK, StockInv
<1>1. CASE UNCHANGED vars
  BY <1>0, <1>1 DEF vars, StockInv, StockTypeOK, AbsentRowIsEmpty, KardexExplainsStock
<1>2. ASSUME NEW c \in Cells, NEW qty \in 1..MaxQty, NEW cost \in UnitCosts \cup {NoCost},
             ReceiveGoods(c, qty, cost)
      PROVE  StockInv'
  <2>1. cost \in Cost /\ qty \in Int
    BY DEF Cost
  <2> DEFINE reason == IF cost = NoCost THEN "ADJUST" ELSE "PURCHASE"
  <2>2. ApplyStockDelta(c, qty, reason, cost)
    BY <1>2 DEF ReceiveGoods
  <2> HIDE DEF reason
  <2> QED BY <1>0, <2>1, <2>2, ApplyStockDeltaPreserves
<1>3. ASSUME NEW c \in Cells, NEW qty \in 1..MaxQty, IssueSale(c, qty)
      PROVE  StockInv'
  <2>1. NoCost \in Cost /\ -qty \in Int
    BY DEF Cost
  <2> QED BY <1>0, <1>3, <2>1, ApplyStockDeltaPreserves DEF IssueSale
<1>4. ASSUME UNCHANGED <<inventory, kardex>> PROVE StockInv'
  BY <1>0, <1>4 DEF StockInv, StockTypeOK, AbsentRowIsEmpty, KardexExplainsStock
<1>5. ASSUME NEW d \in Documents, CreateIn(d) PROVE StockInv'
  BY <1>4, <1>5 DEF CreateIn
<1>6. ASSUME NEW r \in Requests, LocalStep(r) PROVE StockInv'
  BY <1>0, <1>4, <1>6, LocalStepIsLocal
<1>7. ASSUME NEW r \in Requests, MoveCommit(r) PROVE StockInv'
  <2> DEFINE l == request[r].line
             qty == request[r].qty
             back == IF item[l].unitCost = NoCost THEN NoCost ELSE item[l].unitCost * Scale
  <2>1. l \in Lines /\ qty \in Int
    BY <1>0, <1>7, RequestFields DEF MoveCommit, InMove
  <2>2. CellOf(l) \in Cells
    BY <2>1, CellOfLine
  <2>3. back \in Cost
    <3>1. item[l].unitCost \in Cost
      BY <1>0, <2>1 DEF TypeOK, Item
    <3>2. CASE item[l].unitCost = NoCost
      BY <3>2 DEF Cost
    <3>3. CASE item[l].unitCost # NoCost
      <4>1. item[l].unitCost \in Nat
        BY <3>1, <3>3 DEF Cost
      <4>2. item[l].unitCost * Scale \in Nat
        BY <4>1
      <4> QED BY <3>3, <4>2 DEF Cost
    <3> QED BY <3>2, <3>3
  <2>4. ApplyStockDelta(CellOf(l), qty, "TRANSFER_IN", back) \/ UNCHANGED <<inventory, kardex>>
    BY <1>7 DEF MoveCommit, stockVars
  <2> HIDE DEF l, qty, back
  <2> QED BY <1>0, <1>4, <2>1, <2>2, <2>3, <2>4, ApplyStockDeltaPreserves
<1> QED BY <1>1, <1>2, <1>3, <1>5, <1>6, <1>7, CreateCommitStock, Steps

(* A move adds to one of the two columns.                                  *)
LEMMA MovedRow ==
  ASSUME NEW row \in Item, NEW kind \in Kind, NEW qty \in Nat
  PROVE  /\ Moved(row, kind, qty) \in Item
         /\ Moved(row, kind, qty).unitCost = row.unitCost
         /\ Moved(row, kind, qty).settled + Moved(row, kind, qty).returned
              = row.settled + row.returned + qty
<1>1. CASE kind = "SETTLE"
  BY <1>1 DEF Moved, Item
<1>2. CASE kind = "RETURN"
  BY <1>2 DEF Moved, Item
<1> QED BY <1>1, <1>2 DEF Kind

(* The locals of a request stay typed.                                     *)
LEMMA LocalStepTypes ==
  ASSUME IInv, NEW r \in Requests, LocalStep(r)
  PROVE  request' \in [Requests -> Creating \cup Costed \cup Moving \cup {Idle}]
<1> DEFINE States == Creating \cup Costed \cup Moving \cup {Idle}
           q == request[r]
<1>0. TypeOK /\ request \in [Requests -> States] /\ Idle \in States
  BY DEF IInv, TypeOK
<1> HIDE DEF States
<1>1. ASSUME NEW s \in States, request' = [request EXCEPT ![r] = s]
      PROVE  request' \in [Requests -> States]
  BY <1>0, <1>1
<1>2. ASSUME NEW d \in Documents, CreateOut(r, d) PROVE request' \in [Requests -> States]
  <2> DEFINE s == [pc |-> "creating", doc |-> d, todo |-> LinesOf(d),
                   taken |-> [c \in Cells |-> 0], total |-> 0, cost |-> [l \in Lines |-> NoCost]]
  <2>1. s \in Creating
    BY DEF Creating, LinesOf, Cost
  <2> QED BY <1>1, <1>2, <2>1 DEF CreateOut, States
<1>3. ASSUME NEW l \in Lines, ReadCost(r, l) PROVE request' \in [Requests -> States]
  <2> DEFINE cost == [q.cost EXCEPT ![l] = inventory[CellOf(l)].avgCost]
             s == [pc |-> "costed", doc |-> q.doc, todo |-> q.todo \ {l}, taken |-> q.taken,
                   total |-> q.total, cost |-> cost, line |-> l]
  <2>1. InCreate(r)
    BY <1>3 DEF ReadCost, InCreate
  <2>2. inventory[CellOf(l)].avgCost \in Cost
    BY <1>0, CellOfLine DEF TypeOK, StockTypeOK, Row
  <2>3. cost \in [Lines -> Cost]
    BY <1>0, <2>1, <2>2, RequestFields
  <2> HIDE DEF cost
  <2>4. s \in Costed
    BY <1>0, <2>1, <2>3, RequestFields DEF Costed
  <2> QED BY <1>1, <1>3, <2>4 DEF ReadCost, States, cost
<1>4. ASSUME Debit(r) PROVE request' \in [Requests -> States]
  <2> DEFINE c == CellOf(q.line)
             qty == QuantityOf[q.line]
             taken == [q.taken EXCEPT ![c] = @ + qty]
             total == q.total + OrZero(q.cost[q.line]) * qty
             s == [pc |-> "creating", doc |-> q.doc, todo |-> q.todo, taken |-> taken,
                   total |-> total, cost |-> q.cost]
  <2>1. InCreate(r) /\ q.pc = "costed"
    BY <1>4 DEF Debit, InCreate
  <2>2. /\ q.line \in Lines /\ q.taken \in [Cells -> Nat] /\ q.total \in Nat
        /\ q.cost \in [Lines -> Cost]
    BY <1>0, <2>1, RequestFields
  <2>3. c \in Cells /\ qty \in Nat /\ OrZero(q.cost[q.line]) \in Nat
    BY <2>2, CellOfLine DEF OrZero, Cost
  <2>4. taken \in [Cells -> Nat]
    BY <2>2, <2>3
  <2>5. OrZero(q.cost[q.line]) * qty \in Nat
    BY <2>3
  <2>6. total \in Nat
    BY <2>2, <2>5
  <2>7. s \in Creating
    <3> HIDE DEF taken, total
    <3> QED BY <1>0, <2>1, <2>4, <2>6, RequestFields DEF Creating
  <2>8. request' = [request EXCEPT ![r] = s] \/ Done(r)
    BY <1>4 DEF Debit
  <2> HIDE DEF s
  <2> QED BY <1>0, <1>1, <2>7, <2>8 DEF Done, States
<1>5. ASSUME CreatePost(r) PROVE request' \in [Requests -> States]
  <2>1. q \in Creating
    BY <1>0, <1>5, RequestFields DEF CreatePost
  <2>2. [q EXCEPT !.pc = "written"] \in Creating
    BY <2>1 DEF Creating
  <2> QED BY <1>1, <1>5, <2>2 DEF CreatePost, States
<1>6. ASSUME NEW l \in Lines, NEW kind \in Kind, NEW qty \in 1..QuantityOf[l],
             MoveLock(r, l, kind, qty)
      PROVE  request' \in [Requests -> States]
  <2>1. [pc |-> "locked", line |-> l, kind |-> kind, qty |-> qty] \in Moving
    BY DEF Moving
  <2> QED BY <1>1, <1>6, <2>1 DEF MoveLock, States
<1>7. ASSUME MoveWork(r) PROVE request' \in [Requests -> States]
  <2>1. InMove(r)
    BY <1>7 DEF MoveWork, InMove
  <2>2. NothingOpen(q.line, q.qty) \in BOOLEAN
    BY DEF NothingOpen
  <2>3. [pc |-> "moved", line |-> q.line, kind |-> q.kind, qty |-> q.qty,
         closing |-> NothingOpen(q.line, q.qty)] \in Moving
    BY <1>0, <2>1, <2>2, RequestFields DEF Moving
  <2> QED BY <1>1, <1>7, <2>3 DEF MoveWork, States
<1>8. ASSUME Done(r) PROVE request' \in [Requests -> States]
  BY <1>0, <1>1, <1>8 DEF Done
<1> QED BY <1>2, <1>3, <1>4, <1>5, <1>6, <1>7, <1>8
        DEF LocalStep, MoveRefused, Abort, States

(* Every step keeps the types.                                             *)
LEMMA NextTypes == IInv /\ [Next]_vars => TypeOK'
<1> SUFFICES ASSUME IInv, [Next]_vars PROVE TypeOK'
  OBVIOUS
<1>0. TypeOK /\ StockTypeOK'
  BY NextStock DEF IInv, StockInv
<1>1. CASE UNCHANGED vars
  BY <1>0, <1>1 DEF vars, TypeOK
<1>2. ASSUME UNCHANGED <<consignment, item, balance, request>> PROVE TypeOK'
  BY <1>0, <1>2 DEF TypeOK
<1>3. ASSUME NEW d \in Documents, CreateIn(d) PROVE TypeOK'
  BY <1>0, <1>3 DEF CreateIn, TypeOK
<1>4. ASSUME NEW r \in Requests, LocalStep(r) PROVE TypeOK'
  <2>1. UNCHANGED <<consignment, item, balance>>
    BY <1>0, <1>4, LocalStepIsLocal
  <2> QED BY <1>0, <1>4, <2>1, LocalStepTypes DEF TypeOK
<1>5. ASSUME NEW entry \in [Accounts -> Int], Post(entry) PROVE balance' \in [Accounts -> Int]
  BY <1>0, <1>5 DEF Post, Plus, TypeOK
<1>6. ASSUME NEW r \in Requests, Done(r)
      PROVE  request' \in [Requests -> Creating \cup Costed \cup Moving \cup {Idle}]
  BY <1>0, <1>6 DEF Done, TypeOK
<1>7. ASSUME NEW r \in Requests, CreateCommit(r) PROVE TypeOK'
  <2> DEFINE q == request[r]
  <2>1. q.doc \in Documents /\ q.total \in Nat /\ q.cost \in [Lines -> Cost]
    BY <1>0, <1>7, RequestFields DEF CreateCommit, InCreate
  <2>2. \A l \in Lines : UnitCost(q.cost[l]) \in Cost
    BY <2>1, RoundDivClose DEF UnitCost, Cost
  <2>3. \A l \in Lines : [item[l] EXCEPT !.unitCost = UnitCost(q.cost[l])] \in Item
    <3>1. ASSUME NEW i \in Item, NEW c \in Cost PROVE [i EXCEPT !.unitCost = c] \in Item
      BY DEF Item
    <3>2. \A l \in Lines : item[l] \in Item
      BY <1>0 DEF TypeOK
    <3> QED BY ONLY <2>2, <3>1, <3>2
  <2>4. item' \in [Lines -> Item]
    BY <1>0, <1>7, <2>3 DEF CreateCommit, TypeOK
  <2>5. consignment' \in [Documents -> {"NONE", "OPEN", "CLOSED"}]
    BY <1>0, <1>7, <2>1 DEF CreateCommit, TypeOK
  <2>6. IssueEntry(q.total) \in [Accounts -> Int]
    BY <1>0, <2>1, EntryType
  <2>7. balance' \in [Accounts -> Int]
    BY <1>5, <1>7, <2>6 DEF CreateCommit
  <2> QED BY <1>0, <1>6, <1>7, <2>4, <2>5, <2>7 DEF CreateCommit, TypeOK
<1>8. ASSUME NEW r \in Requests, MoveCommit(r) PROVE TypeOK'
  <2> DEFINE q == request[r]
  <2>1. q.line \in Lines /\ q.kind \in Kind /\ q.qty \in Nat /\ DocumentOf[q.line] \in Documents
    BY <1>0, <1>8, RequestFields DEF MoveCommit, InMove
  <2>2. Moved(item[q.line], q.kind, q.qty) \in Item
    BY <1>0, <2>1, MovedRow DEF TypeOK
  <2>3. item' = [item EXCEPT ![q.line] = Moved(@, q.kind, q.qty)]
    BY <1>8 DEF MoveCommit
  <2>4. item' \in [Lines -> Item]
    BY <1>0, <2>1, <2>2, <2>3 DEF TypeOK
  <2>5. consignment' \in [Documents -> {"NONE", "OPEN", "CLOSED"}]
    BY <1>0, <1>8, <2>1 DEF MoveCommit, TypeOK
  <2>6. MoveEntry(q.line, q.kind, q.qty) \in [Accounts -> Int]
    BY <1>0, <2>1, EntryType
  <2>7. balance' \in [Accounts -> Int]
    BY <1>5, <1>8, <2>6 DEF MoveCommit
  <2> QED BY <1>0, <1>6, <1>8, <2>4, <2>5, <2>7 DEF MoveCommit, TypeOK
<1> QED BY <1>1, <1>2, <1>3, <1>4, <1>7, <1>8, Steps DEF ReceiveGoods, IssueSale

-----------------------------------------------------------------------------
(* What an issue's commit changes: its document opens, its lines get their *)
(* cost; no line's open quantity, no other request.                        *)
LEMMA CreateCommitEffect ==
  ASSUME IInv, NEW r \in Requests, CreateCommit(r)
  PROVE  /\ request[r].doc \in Documents /\ consignment[request[r].doc] = "NONE"
         /\ InCreate(r) /\ consignment' = [consignment EXCEPT ![request[r].doc] = "OPEN"]
         /\ \A l \in Lines : /\ Open(l)' = Open(l)
                             /\ item'[l].settled = item[l].settled
                             /\ item'[l].returned = item[l].returned
                             /\ DocumentOf[l] # request[r].doc => LineCost(l)' = LineCost(l)
         /\ \A l \in LinesOf(request[r].doc) : Open(l) = QuantityOf[l]
         /\ request'[r] = Idle /\ \A x \in Requests \ {r} : request'[x] = request[x]
<1>0. TypeOK
  BY DEF IInv
<1>1. InCreate(r) /\ request[r].doc \in Documents
  BY <1>0, RequestFields DEF CreateCommit, InCreate
<1>2. consignment[request[r].doc] = "NONE"
  BY <1>1 DEF IInv, NewDocuments
<1>3. \A l \in Lines : item[l] \in Item
  BY <1>0 DEF TypeOK
<1>4. ASSUME NEW l \in Lines
      PROVE  /\ item'[l].settled = item[l].settled
             /\ item'[l].returned = item[l].returned
             /\ DocumentOf[l] # request[r].doc => item'[l] = item[l]
  BY <1>3 DEF CreateCommit, Item, LinesOf
<1>5. \A l \in Lines : /\ Open(l)' = Open(l)
                       /\ DocumentOf[l] # request[r].doc => LineCost(l)' = LineCost(l)
  BY <1>4 DEF Open, LineCost, OrZero
<1>6. \A l \in LinesOf(request[r].doc) : Open(l) = QuantityOf[l]
  BY <1>2 DEF IInv, NewDocuments, LinesOf, Open
<1>7. request'[r] = Idle /\ \A x \in Requests \ {r} : request'[x] = request[x]
  BY <1>0 DEF CreateCommit, Done, TypeOK
<1> QED BY <1>1, <1>2, <1>4, <1>5, <1>6, <1>7 DEF CreateCommit

(* What a move's commit changes: one line has qty less open, its document  *)
(* closes or not.                                                          *)
LEMMA MoveCommitEffect ==
  ASSUME IInv, NEW r \in Requests, MoveCommit(r)
  PROVE  /\ request[r].line \in Lines /\ request[r].qty \in Nat \ {0}
         /\ request[r].kind \in Kind /\ InMove(r)
         /\ consignment[DocumentOf[request[r].line]] # "NONE"
         /\ request[r].qty <= Open(request[r].line)
         /\ \A m \in Lines :
              /\ m # request[r].line => item'[m] = item[m]
              /\ Open(m)' = IF m = request[r].line THEN Open(m) - request[r].qty ELSE Open(m)
              /\ LineCost(m)' = LineCost(m)
         /\ consignment' = IF request[r].closing
              THEN [consignment EXCEPT ![DocumentOf[request[r].line]] = "CLOSED"]
              ELSE consignment
         /\ request'[r] = Idle /\ \A x \in Requests \ {r} : request'[x] = request[x]
<1> DEFINE q == request[r]
           l == q.line
           row == Moved(item[l], q.kind, q.qty)
<1>0. TypeOK
  BY DEF IInv
<1>1. InMove(r) /\ l \in Lines /\ q.qty \in Nat \ {0} /\ q.kind \in Kind
  BY <1>0, RequestFields DEF MoveCommit, InMove
<1>2. consignment[DocumentOf[l]] # "NONE" /\ q.qty <= Open(l)
  BY <1>1 DEF IInv, MovedIsOpen
<1>3. item[l] \in Item /\ item' = [item EXCEPT ![l] = row]
  BY <1>0, <1>1 DEF TypeOK, MoveCommit
<1>4. row \in Item /\ row.unitCost = item[l].unitCost
      /\ row.settled + row.returned = item[l].settled + item[l].returned + q.qty
  BY <1>1, <1>3, MovedRow
<1>5. item'[l] = row /\ \A m \in Lines : m # l => item'[m] = item[m]
  BY <1>0, <1>1, <1>3 DEF TypeOK
<1> HIDE DEF row
<1>6. ASSUME NEW m \in Lines, m = l PROVE Open(m)' = Open(m) - q.qty
  <2>1. Open(m)' = QuantityOf[m] - row.settled - row.returned
    BY <1>5, <1>6 DEF Open
  <2>2. QuantityOf[m] \in Int /\ q.qty \in Int
        /\ row.settled \in Int /\ row.returned \in Int
        /\ item[m].settled \in Int /\ item[m].returned \in Int
    BY <1>1, <1>3, <1>4, <1>6 DEF Item
  <2> QED BY <1>4, <1>6, <2>1, <2>2 DEF Open
<1>7. \A m \in Lines : (m # l => Open(m)' = Open(m)) /\ LineCost(m)' = LineCost(m)
  BY <1>4, <1>5 DEF Open, LineCost, OrZero
<1>8. request'[r] = Idle /\ \A x \in Requests \ {r} : request'[x] = request[x]
  BY <1>0 DEF MoveCommit, Done, TypeOK
<1> QED BY <1>1, <1>2, <1>5, <1>6, <1>7, <1>8 DEF MoveCommit

(* A document that is being written stays new.                             *)
LEMMA NextNewDocuments == IInv /\ [Next]_vars => NewDocuments'
<1> SUFFICES ASSUME IInv, [Next]_vars PROVE NewDocuments'
  OBVIOUS
<1>0. TypeOK /\ NewDocuments
  BY DEF IInv
<1>1. ASSUME UNCHANGED <<consignment, item, request>> PROVE NewDocuments'
  BY <1>0, <1>1 DEF NewDocuments, InCreate
<1>2. ASSUME NEW d \in Documents, CreateIn(d) PROVE NewDocuments'
  <2>1. \A x \in Requests : InCreate(x) => request[x].doc # d
    BY <1>0, <1>2 DEF CreateIn, NewDocuments
  <2> QED BY <1>0, <1>2, <2>1 DEF CreateIn, NewDocuments, InCreate, TypeOK
<1>3. ASSUME NEW r \in Requests, LocalStep(r) PROVE NewDocuments'
  <2>1. /\ UNCHANGED <<consignment, item>>
        /\ \A x \in Requests \ {r} : InCreate(x)' = InCreate(x) /\ request'[x] = request[x]
    BY <1>0, <1>3, LocalStepIsLocal
  <2>2. InCreate(r)' => /\ consignment[request'[r].doc] = "NONE"
                        /\ Direction[request'[r].doc] = "OUT"
                        /\ \A x \in Requests \ {r} :
                             InCreate(x) => request[x].doc # request'[r].doc
    <3>1. CASE \E d \in Documents : CreateOut(r, d)
      BY <1>0, <3>1 DEF CreateOut, TypeOK
    <3>2. CASE ~InCreate(r)' \/ (InCreate(r) /\ request'[r].doc = request[r].doc)
      BY <1>0, <3>2 DEF NewDocuments
    <3>3. CASE Debit(r) \/ CreatePost(r) \/ \E l \in Lines : ReadCost(r, l)
      <4>1. InCreate(r)
        BY <3>3 DEF Debit, CreatePost, ReadCost, InCreate
      <4>2. request'[r] = Idle \/ request'[r].doc = request[r].doc
        <5>1. CASE Debit(r)
          BY <1>0, <5>1 DEF Debit, Done, TypeOK
        <5>2. CASE CreatePost(r)
          <6>1. request[r] \in Creating
            BY <1>0, <5>2, RequestFields DEF CreatePost
          <6> QED BY <1>0, <5>2, <6>1 DEF CreatePost, TypeOK, Creating
        <5>3. CASE \E l \in Lines : ReadCost(r, l)
          BY <1>0, <5>3 DEF ReadCost, TypeOK
        <5> QED BY <3>3, <5>1, <5>2, <5>3
      <4> QED BY <3>2, <4>1, <4>2 DEF InCreate, Idle
    <3>4. CASE MoveWork(r) \/ MoveRefused(r) \/ Abort(r)
               \/ \E l \in Lines, kind \in Kind : \E qty \in 1..QuantityOf[l] :
                    MoveLock(r, l, kind, qty)
      BY <1>0, <3>2, <3>4
         DEF MoveWork, MoveRefused, Abort, MoveLock, Done, Idle, InCreate, TypeOK
    <3> QED BY <1>3, <3>1, <3>3, <3>4 DEF LocalStep
  <2> QED BY <1>0, <2>1, <2>2 DEF NewDocuments
<1>4. ASSUME NEW r \in Requests, CreateCommit(r) PROVE NewDocuments'
  <2>1. ~InCreate(r)' /\ \A x \in Requests \ {r} : InCreate(x)' = InCreate(x)
    BY <1>4, CreateCommitEffect DEF InCreate, Idle
  <2> DEFINE d == request[r].doc
  <2>2. InCreate(r) /\ d \in Documents /\ request'[r] = Idle
        /\ \A x \in Requests \ {r} : request'[x] = request[x]
    BY <1>4, CreateCommitEffect
  <2>3. \A x \in Requests \ {r} : InCreate(x) =>
          request[x].doc # d /\ request[x].doc \in Documents
    BY <1>0, <2>2, RequestFields DEF NewDocuments
  <2>4. \A e \in Documents : consignment'[e] = IF e = d THEN "OPEN" ELSE consignment[e]
    BY <1>0, <1>4, CreateCommitEffect DEF TypeOK
  <2>5. \A l \in Lines : DocumentOf[l] \in Documents
          /\ item'[l].settled = item[l].settled /\ item'[l].returned = item[l].returned
    BY <1>4, CreateCommitEffect, CellOfLine
  <2> QED BY <1>0, <2>1, <2>2, <2>3, <2>4, <2>5 DEF NewDocuments
<1>5. ASSUME NEW r \in Requests, MoveCommit(r) PROVE NewDocuments'
  <2>1. ~InCreate(r)' /\ \A x \in Requests \ {r} : InCreate(x)' = InCreate(x)
    BY <1>5, MoveCommitEffect DEF InCreate, Idle
  <2>2. \A d \in Documents : consignment'[d] = "NONE" <=> consignment[d] = "NONE"
    BY <1>0, <1>5, MoveCommitEffect, CellOfLine DEF TypeOK
  <2>3. \A x \in Requests : InCreate(x) => request[x].doc \in Documents
    BY <1>0, RequestFields
  <2> QED BY <1>0, <1>5, <2>1, <2>2, <2>3, MoveCommitEffect, CellOfLine DEF NewDocuments
<1> QED BY <1>1, <1>2, <1>3, <1>4, <1>5, Steps DEF ReceiveGoods, IssueSale, vars

(* What a request holds after a local step it held before, or nobody else  *)
(* does; and it never takes more of a shelf than is there.                 *)
LEMMA LocalStepHolds ==
  ASSUME IInv, NEW r \in Requests, LocalStep(r), NEW c \in Cells
  PROVE  /\ Holds(r, c)' => Holds(r, c) \/ ShelfFree(r, c)
         /\ InCreate(r)' => request'[r].taken[c] <= inventory[c].quantity
<1> DEFINE q == request[r]
<1>0. TypeOK /\ TakenIsThere /\ inventory[c].quantity \in Nat
  BY DEF IInv, TypeOK, StockTypeOK, Row
<1>1. CASE request'[r] = Idle
  BY <1>1 DEF Holds, InCreate, Idle
<1>2. CASE \E d \in Documents : CreateOut(r, d)
  <2>1. request'[r].pc = "creating" /\ request'[r].taken = [e \in Cells |-> 0]
    BY <1>0, <1>2 DEF CreateOut, TypeOK
  <2> QED BY <1>0, <2>1 DEF Holds
<1>3. CASE InCreate(r) /\ request'[r].pc \in {"costed", "written"}
           /\ request'[r].taken = request[r].taken
  BY <1>0, <1>3 DEF Holds, InCreate, TakenIsThere
<1>4. CASE \E l \in Lines : ReadCost(r, l)
  <2>1. InCreate(r) /\ request'[r].pc = "costed" /\ request'[r].taken = request[r].taken
    BY <1>0, <1>4 DEF ReadCost, TypeOK, InCreate
  <2> QED BY <1>3, <2>1
<1>5. CASE CreatePost(r)
  <2>1. request[r] \in Creating
    BY <1>0, <1>5, RequestFields DEF CreatePost
  <2>2. request'[r].pc = "written" /\ request'[r].taken = request[r].taken /\ InCreate(r)
    BY <1>0, <1>5, <2>1 DEF CreatePost, TypeOK, Creating, InCreate
  <2> QED BY <1>3, <2>2
<1>6. CASE Debit(r) /\ request'[r] # Idle
  <2> DEFINE e == CellOf(q.line)
             qty == QuantityOf[q.line]
  <2>1. InCreate(r) /\ q.pc = "costed" /\ q.line \in Lines /\ q.taken \in [Cells -> Nat]
    BY <1>0, <1>6, RequestFields DEF Debit, InCreate
  <2>2. e \in Cells /\ qty \in Nat
    BY <2>1, CellOfLine
  <2>3. /\ ShelfFree(r, e) /\ CanApply(inventory[e], -(q.taken[e] + qty))
        /\ request'[r].pc = "creating"
        /\ request'[r].taken = [q.taken EXCEPT ![e] = @ + qty]
    BY <1>0, <1>6 DEF Debit, Done, TypeOK
  <2>4. inventory[e].quantity \in Nat
    BY <1>0, <2>2 DEF TypeOK, StockTypeOK, Row
  <2> HIDE DEF e, qty
  <2>5. CASE c = e
    <3>1. request'[r].taken[c] = q.taken[c] + qty
      BY <2>1, <2>2, <2>3, <2>5
    <3>2. q.taken[c] + qty <= inventory[c].quantity
      <4>1. q.taken[c] \in Nat
        BY <2>1
      <4> QED BY <2>2, <2>3, <2>4, <2>5, <4>1 DEF CanApply
    <3> QED BY <2>3, <2>5, <3>1, <3>2
  <2>6. CASE c # e
    <3>1. request'[r].taken[c] = q.taken[c]
      BY <2>1, <2>2, <2>3, <2>6
    <3> QED BY <1>0, <2>1, <2>3, <3>1 DEF Holds, InCreate, TakenIsThere
  <2> QED BY <2>5, <2>6
<1>7. CASE MoveWork(r)
  <2>1. /\ request'[r].pc = "moved" /\ request'[r].line = q.line /\ request'[r].kind = q.kind
        /\ ToShelf(q.line, q.kind) => ShelfFree(r, CellOf(q.line))
    BY <1>0, <1>7 DEF MoveWork, TypeOK
  <2> QED BY <2>1 DEF Holds, InCreate, ToShelf, IsOut, CellOf
<1>8. CASE \E l \in Lines, kind \in Kind : \E qty \in 1..QuantityOf[l] : MoveLock(r, l, kind, qty)
  <2>1. request'[r].pc = "locked"
    BY <1>0, <1>8 DEF MoveLock, TypeOK
  <2> QED BY <2>1 DEF Holds, InCreate
<1>9. CASE MoveRefused(r) \/ Abort(r)
  <2>1. request'[r] = Idle
    BY <1>0, <1>9 DEF MoveRefused, Abort, Done, TypeOK
  <2> QED BY <1>1, <2>1
<1> QED BY <1>1, <1>2, <1>4, <1>5, <1>6, <1>7, <1>8, <1>9 DEF LocalStep

(* A shelf that one request takes from is not changed by another.          *)
LEMMA NextTaken == IInv /\ [Next]_vars => TakenIsThere'
<1> SUFFICES ASSUME IInv, [Next]_vars PROVE TakenIsThere'
  OBVIOUS
<1>0. TypeOK /\ TakenIsThere
  BY DEF IInv
<1>1. ASSUME UNCHANGED <<inventory, request>> PROVE TakenIsThere'
  BY <1>0, <1>1 DEF TakenIsThere, InCreate, Holds, ToShelf
<1>2. \A x \in Requests, c \in Cells :
        InCreate(x) => /\ request[x].taken[c] \in Nat
                       /\ request[x].taken[c] > 0 => Holds(x, c)
  BY <1>0, RequestFields DEF Holds, InCreate
<1>3. \A c \in Cells : inventory[c].quantity \in Nat /\ inventory'[c].quantity \in Nat
  BY <1>0, NextStock DEF TypeOK, StockTypeOK, StockInv, Row
<1>4. ASSUME NEW c \in Cells, \A x \in Requests : ~Holds(x, c), UNCHANGED request,
             \A d \in Cells \ {c} : inventory'[d] = inventory[d]
      PROVE  TakenIsThere'
  <2>1. \A x \in Requests : InCreate(x) => request[x].taken[c] = 0
    BY <1>2, <1>4
  <2>2. \A x \in Requests, d \in Cells : Holds(x, d)' = Holds(x, d) /\ InCreate(x)' = InCreate(x)
    BY <1>4 DEF Holds, InCreate, ToShelf
  <2>3. \A x \in Requests, d \in Cells : InCreate(x) => request[x].taken[d] <= inventory'[d].quantity
    <3> SUFFICES ASSUME NEW x \in Requests, NEW d \in Cells, InCreate(x)
                 PROVE  request[x].taken[d] <= inventory'[d].quantity
      OBVIOUS
    <3>1. CASE d = c
      BY <1>3, <2>1, <3>1
    <3>2. CASE d # c
      BY <1>0, <1>4, <3>2 DEF TakenIsThere
    <3> QED BY <3>1, <3>2
  <2> QED BY <1>0, <1>4, <2>2, <2>3 DEF TakenIsThere
<1>5. ASSUME NEW c \in Cells, NEW delta, NEW reason, NEW cost,
             ApplyStockDelta(c, delta, reason, cost)
      PROVE  \A d \in Cells \ {c} : inventory'[d] = inventory[d]
  BY <1>0, <1>5 DEF ApplyStockDelta, TypeOK, StockTypeOK
<1>6. ASSUME NEW c \in Cells, NEW qty \in 1..MaxQty,
             (\E cost \in UnitCosts \cup {NoCost} : ReceiveGoods(c, qty, cost)) \/ IssueSale(c, qty)
      PROVE  TakenIsThere'
  BY <1>4, <1>5, <1>6 DEF ReceiveGoods, IssueSale
<1>7. ASSUME NEW d \in Documents, CreateIn(d) PROVE TakenIsThere'
  BY <1>1, <1>7 DEF CreateIn
<1>8. ASSUME NEW r \in Requests, LocalStep(r) PROVE TakenIsThere'
  <2>1. /\ UNCHANGED inventory
        /\ \A x \in Requests \ {r} : /\ InCreate(x)' = InCreate(x) /\ request'[x] = request[x]
                                       /\ \A c \in Cells : Holds(x, c)' = Holds(x, c)
    BY <1>0, <1>8, LocalStepIsLocal
  <2>2. \A c \in Cells : /\ Holds(r, c)' => Holds(r, c) \/ ShelfFree(r, c)
                         /\ InCreate(r)' => request'[r].taken[c] <= inventory[c].quantity
    BY <1>8, LocalStepHolds
  <2> QED BY <1>0, <2>1, <2>2 DEF TakenIsThere, ShelfFree
<1>9. ASSUME NEW r \in Requests, request'[r] = Idle,
             \A x \in Requests \ {r} : request'[x] = request[x],
             \A c \in Cells : ~Holds(r, c) => inventory'[c].quantity = inventory[c].quantity
      PROVE  TakenIsThere'
  <2>1. \A c \in Cells : ~Holds(r, c)' /\ ~InCreate(r)'
    BY <1>9 DEF Holds, InCreate, Idle
  <2>2. \A x \in Requests \ {r}, c \in Cells :
          Holds(x, c)' = Holds(x, c) /\ InCreate(x)' = InCreate(x)
    BY <1>9 DEF Holds, InCreate, ToShelf
  <2>3. \A x \in Requests \ {r}, c \in Cells :
          InCreate(x) => request[x].taken[c] <= inventory'[c].quantity
    <3> SUFFICES ASSUME NEW x \in Requests \ {r}, NEW c \in Cells, InCreate(x)
                 PROVE  request[x].taken[c] <= inventory'[c].quantity
      OBVIOUS
    <3>1. CASE ~Holds(r, c)
      BY <1>0, <1>9, <3>1 DEF TakenIsThere
    <3>2. CASE Holds(r, c)
      <4>1. ~Holds(x, c)
        BY <1>0, <3>2 DEF TakenIsThere
      <4> QED BY <1>2, <1>3, <4>1
    <3> QED BY <3>1, <3>2
  <2> QED BY <1>0, <1>9, <2>1, <2>2, <2>3 DEF TakenIsThere
<1>10. ASSUME NEW r \in Requests, CreateCommit(r) PROVE TakenIsThere'
  <2>1. \A c \in Cells : ~Holds(r, c) => inventory'[c] = inventory[c]
    BY <1>10 DEF CreateCommit, Holds
  <2> QED BY <1>9, <1>10, <2>1, CreateCommitEffect
<1>11. ASSUME NEW r \in Requests, MoveCommit(r) PROVE TakenIsThere'
  <2>1. \A c \in Cells : ~Holds(r, c) => inventory'[c] = inventory[c]
    <3>1. CASE ToShelf(request[r].line, request[r].kind)
      <4>1. CellOf(request[r].line) \in Cells /\ Holds(r, CellOf(request[r].line))
        BY <1>11, <3>1, MoveCommitEffect, CellOfLine DEF MoveCommit, Holds
      <4>2. \A d \in Cells \ {CellOf(request[r].line)} : inventory'[d] = inventory[d]
        BY <1>5, <1>11, <3>1, <4>1 DEF MoveCommit
      <4> QED BY <4>1, <4>2
    <3>2. CASE ~ToShelf(request[r].line, request[r].kind)
      BY <1>11, <3>2 DEF MoveCommit, stockVars
    <3> QED BY <3>1, <3>2
  <2> QED BY <1>9, <1>11, <2>1, MoveCommitEffect
<1>12. CASE UNCHANGED vars
  BY <1>1, <1>12 DEF vars
<1> QED BY <1>6, <1>7, <1>8, <1>10, <1>11, <1>12, Steps

(* What is open is never overdrawn.                                        *)
LEMMA NextMoved == IInv /\ [Next]_vars => MovedIsOpen'
<1> SUFFICES ASSUME IInv, [Next]_vars PROVE MovedIsOpen'
  OBVIOUS
<1>0. TypeOK /\ MovedIsOpen
  BY DEF IInv
<1>1. ASSUME UNCHANGED <<item, request>>,
             \A d \in Documents : consignment'[d] = "NONE" => consignment[d] = "NONE"
      PROVE  MovedIsOpen'
  <2>1. \A x \in Requests : InMove(x) => DocumentOf[request[x].line] \in Documents
    BY <1>0, RequestFields
  <2> QED BY <1>0, <1>1, <2>1 DEF MovedIsOpen, InMove, Open
<1>2. ASSUME NEW d \in Documents, CreateIn(d) PROVE MovedIsOpen'
  <2>1. \A e \in Documents : consignment'[e] = "NONE" => consignment[e] = "NONE"
    BY <1>0, <1>2 DEF CreateIn, TypeOK
  <2> QED BY <1>1, <1>2, <2>1 DEF CreateIn
<1>3. ASSUME NEW r \in Requests, LocalStep(r) PROVE MovedIsOpen'
  <2>1. /\ UNCHANGED consignment /\ \A l \in Lines : Open(l)' = Open(l)
        /\ \A x \in Requests \ {r} : InMove(x)' = InMove(x) /\ request'[x] = request[x]
    BY <1>0, <1>3, LocalStepIsLocal
  <2> DEFINE Fits(q) == /\ q.line \in Lines /\ consignment[DocumentOf[q.line]] # "NONE"
                        /\ q.qty <= Open(q.line)
                        /\ \A x \in Requests \ {r} : InMove(x) => request[x].line # q.line
  <2>2. InMove(r)' => Fits(request'[r])
    <3>1. CASE \E l \in Lines, kind \in Kind : \E qty \in 1..QuantityOf[l] :
                 MoveLock(r, l, kind, qty)
      <4>1. PICK l \in Lines, kind \in Kind : \E qty \in 1..QuantityOf[l] :
                   MoveLock(r, l, kind, qty)
        BY <3>1
      <4>2. PICK qty \in 1..QuantityOf[l] : MoveLock(r, l, kind, qty)
        BY <4>1
      <4>3. request'[r] = [pc |-> "locked", line |-> l, kind |-> kind, qty |-> qty]
        BY <1>0, <4>2 DEF MoveLock, TypeOK
      <4> QED BY <4>2, <4>3 DEF MoveLock, LineFree, InMove
    <3>2. CASE MoveWork(r)
      <4>1. InMove(r) /\ request'[r].line = request[r].line /\ request'[r].qty = request[r].qty
        BY <1>0, <3>2 DEF MoveWork, TypeOK, InMove
      <4> QED BY <1>0, <4>1, RequestFields DEF MovedIsOpen
    <3>3. CASE MoveRefused(r) \/ Abort(r)
      BY <1>0, <3>3 DEF MoveRefused, Abort, Done, TypeOK, InMove, Idle
    <3>4. CASE Debit(r) \/ CreatePost(r) \/ (\E l \in Lines : ReadCost(r, l))
                 \/ (\E d \in Documents : CreateOut(r, d))
      <4>1. CASE Debit(r) \/ (\E l \in Lines : ReadCost(r, l))
                   \/ (\E d \in Documents : CreateOut(r, d))
        BY <1>0, <4>1 DEF Debit, ReadCost, CreateOut, Done, Idle, InMove, TypeOK
      <4>2. CASE CreatePost(r)
        <5>1. request[r] \in Creating
          BY <1>0, <4>2, RequestFields DEF CreatePost
        <5> QED BY <1>0, <4>2, <5>1 DEF CreatePost, TypeOK, Creating, InMove
      <4> QED BY <3>4, <4>1, <4>2
    <3> QED BY <1>3, <3>1, <3>2, <3>3, <3>4 DEF LocalStep
  <2>3. \A x \in Requests : InMove(x) => request[x].line \in Lines
    BY <1>0, RequestFields
  <2> QED BY <1>0, <2>1, <2>2, <2>3 DEF MovedIsOpen
<1>4. ASSUME NEW r \in Requests, CreateCommit(r) PROVE MovedIsOpen'
  <2>1. ~InMove(r)' /\ \A x \in Requests \ {r} :
          InMove(x)' = InMove(x) /\ request'[x] = request[x]
    BY <1>4, CreateCommitEffect DEF InMove, Idle
  <2>2. \A d \in Documents : consignment'[d] = "NONE" => consignment[d] = "NONE"
    BY <1>0, <1>4, CreateCommitEffect DEF TypeOK
  <2>3. \A x \in Requests : InMove(x) =>
          request[x].line \in Lines /\ DocumentOf[request[x].line] \in Documents
    BY <1>0, RequestFields
  <2>4. \A l \in Lines : Open(l)' = Open(l)
    BY <1>4, CreateCommitEffect
  <2> QED BY <1>0, <2>1, <2>2, <2>3, <2>4 DEF MovedIsOpen
<1>5. ASSUME NEW r \in Requests, MoveCommit(r) PROVE MovedIsOpen'
  <2> DEFINE l == request[r].line
             qty == request[r].qty
  <2>1. ~InMove(r)' /\ InMove(r) /\ \A x \in Requests \ {r} :
          InMove(x)' = InMove(x) /\ request'[x] = request[x]
    BY <1>5, MoveCommitEffect DEF InMove, Idle
  <2>2. \A d \in Documents : consignment'[d] = "NONE" => consignment[d] = "NONE"
    BY <1>0, <1>5, MoveCommitEffect DEF TypeOK
  <2>3. \A x \in Requests : InMove(x) =>
          request[x].line \in Lines /\ DocumentOf[request[x].line] \in Documents
    BY <1>0, RequestFields
  <2>4. /\ l \in Lines /\ qty \in Nat /\ qty <= Open(l)
        /\ \A m \in Lines : Open(m)' = IF m = l THEN Open(m) - qty ELSE Open(m)
    BY <1>5, MoveCommitEffect
  <2>5. \A x \in Requests \ {r} : InMove(x) => request[x].line # l
    BY <1>0, <2>1 DEF MovedIsOpen
  <2>6. \A m \in Lines : Open(m) \in Int
    BY <1>0 DEF TypeOK, Item, Open
  <2> HIDE DEF l, qty
  <2>7. \A m \in Lines : Open(m)' >= 0
    BY <1>0, <2>4, <2>6 DEF MovedIsOpen
  <2> QED BY <1>0, <2>1, <2>2, <2>3, <2>4, <2>5, <2>7 DEF MovedIsOpen
<1> QED BY <1>1, <1>2, <1>3, <1>4, <1>5, Steps DEF ReceiveGoods, IssueSale, vars

(* The number of an entry lets one request post at a time.                 *)
LEMMA NextPosting == IInv /\ [Next]_vars => OnePosting'
<1> SUFFICES ASSUME IInv, [Next]_vars PROVE OnePosting'
  OBVIOUS
<1>0. TypeOK /\ OnePosting
  BY DEF IInv
<1>1. ASSUME UNCHANGED <<item, request>> PROVE OnePosting'
  BY <1>0, <1>1 DEF OnePosting, Posting, MoveEntry, LineCost, OrZero
<1>2. ASSUME NEW r \in Requests, LocalStep(r) PROVE OnePosting'
  <2>1. \A x \in Requests \ {r} : Posting(x)' = Posting(x)
    BY <1>0, <1>2, LocalStepIsLocal
  <2>2. Posting(r)' => JournalFree(r)
    <3>1. \A l, kind, qty : MoveEntry(l, kind, qty)' = MoveEntry(l, kind, qty)
      BY <1>0, <1>2, LocalStepIsLocal DEF MoveEntry, LineCost, OrZero
    <3>2. CASE CreatePost(r)
      <4>1. request[r] \in Creating
        BY <1>0, <3>2, RequestFields DEF CreatePost
      <4>2. request'[r].pc = "written" /\ request'[r].total = request[r].total
        BY <1>0, <3>2, <4>1 DEF CreatePost, TypeOK, Creating
      <4> QED BY <3>2, <4>2 DEF CreatePost, Posting
    <3>3. CASE MoveWork(r)
      <4>1. /\ request'[r].pc = "moved" /\ request'[r].line = request[r].line
            /\ request'[r].kind = request[r].kind /\ request'[r].qty = request[r].qty
        BY <1>0, <3>3 DEF MoveWork, TypeOK
      <4> QED BY <3>1, <3>3, <4>1 DEF MoveWork, Posting
    <3>4. CASE request'[r].pc \notin {"written", "moved"}
      BY <3>4 DEF Posting
    <3>5. CASE Debit(r) \/ (\E l \in Lines : ReadCost(r, l)) \/ (\E d \in Documents : CreateOut(r, d))
      BY <1>0, <3>4, <3>5 DEF Debit, ReadCost, CreateOut, Done, Idle, TypeOK
    <3>6. CASE MoveRefused(r) \/ Abort(r)
                 \/ \E l \in Lines, kind \in Kind : \E qty \in 1..QuantityOf[l] :
                      MoveLock(r, l, kind, qty)
      BY <1>0, <3>4, <3>6 DEF MoveRefused, Abort, MoveLock, Done, Idle, TypeOK
    <3> QED BY <1>2, <3>2, <3>3, <3>5, <3>6 DEF LocalStep
  <2> QED BY <1>0, <2>1, <2>2 DEF OnePosting, JournalFree
<1>3. ASSUME NEW r \in Requests, request'[r] = Idle,
             \A x \in Requests \ {r} : Posting(x)' => Posting(x)
      PROVE  OnePosting'
  <2>1. ~Posting(r)'
    BY <1>3 DEF Posting, Idle
  <2> QED BY <1>0, <1>3, <2>1 DEF OnePosting
<1>4. ASSUME NEW r \in Requests, CreateCommit(r) PROVE OnePosting'
  <2>1. ASSUME NEW x \in Requests \ {r}, request[x].pc = "moved"
        PROVE  LineCost(request[x].line)' = LineCost(request[x].line)
    <3>1. request[x].line \in Lines /\ consignment[DocumentOf[request[x].line]] # "NONE"
      BY <1>0, <2>1, RequestFields DEF InMove, IInv, MovedIsOpen
    <3>2. DocumentOf[request[x].line] # request[r].doc
      BY <1>4, <3>1, CreateCommitEffect
    <3>3. request'[x] = request[x]
      BY <1>4, CreateCommitEffect
    <3>4. \A l \in Lines : DocumentOf[l] # request[r].doc => LineCost(l)' = LineCost(l)
      BY <1>4, CreateCommitEffect
    <3> QED BY <3>1, <3>2, <3>3, <3>4 DEF LineCost, OrZero
  <2>2. ASSUME NEW x \in Requests \ {r} PROVE Posting(x)' => Posting(x)
    <3>1. request'[x] = request[x]
      BY <1>4, CreateCommitEffect
    <3>2. request[x].pc = "moved" =>
            MoveEntry(request[x].line, request[x].kind, request[x].qty)'
              = MoveEntry(request[x].line, request[x].kind, request[x].qty)
      BY <2>1, <3>1 DEF MoveEntry
    <3> QED BY <3>1, <3>2 DEF Posting
  <2> QED BY <1>3, <1>4, <2>2, CreateCommitEffect
<1>5. ASSUME NEW r \in Requests, MoveCommit(r) PROVE OnePosting'
  <2>1. ASSUME NEW x \in Requests \ {r} PROVE Posting(x)' => Posting(x)
    <3>1. request'[x] = request[x] /\ \A l \in Lines : LineCost(l)' = LineCost(l)
      BY <1>5, MoveCommitEffect
    <3>2. request[x].pc = "moved" =>
            MoveEntry(request[x].line, request[x].kind, request[x].qty)'
              = MoveEntry(request[x].line, request[x].kind, request[x].qty)
      <4>1. request[x].pc = "moved" => request[x].line \in Lines
        BY <1>0, RequestFields DEF InMove
      <4>2. request[x].pc = "moved" => LineCost(request[x].line)' = LineCost(request[x].line)
        BY <3>1, <4>1 DEF LineCost, OrZero
      <4> QED BY <3>1, <4>2 DEF MoveEntry
    <3> QED BY <3>1, <3>2 DEF Posting
  <2> QED BY <1>3, <1>5, <2>1, MoveCommitEffect
<1> QED BY <1>1, <1>2, <1>4, <1>5, Steps DEF ReceiveGoods, IssueSale, CreateIn, vars

(* A move that has looked at its document stays right about it: who would  *)
(* change its mind has no open line to move, or would have to post.        *)
LEMMA NextClosing == IInv /\ [Next]_vars => ClosingIsRight'
<1> SUFFICES ASSUME IInv, [Next]_vars PROVE ClosingIsRight'
  OBVIOUS
<1>0. TypeOK /\ ClosingIsRight
  BY DEF IInv
<1> DEFINE Right(q) ==
      /\ q.closing => NothingOpen(q.line, q.qty)
      /\ ~q.closing /\ EveryMovePosts(DocumentOf[q.line]) => ~NothingOpen(q.line, q.qty)
<1>1. ASSUME UNCHANGED <<item, request>> PROVE ClosingIsRight'
  BY <1>0, <1>1 DEF ClosingIsRight, NothingOpen, EveryMovePosts, Open, LineCost, OrZero
<1>2. ASSUME NEW r \in Requests, LocalStep(r) PROVE ClosingIsRight'
  <2>1. UNCHANGED item /\ \A x \in Requests \ {r} : request'[x] = request[x]
    BY <1>0, <1>2, LocalStepIsLocal
  <2>2. request'[r].pc = "moved" => Right(request'[r])
    <3>1. CASE MoveWork(r)
      <4>1. /\ request'[r].line = request[r].line /\ request'[r].qty = request[r].qty
            /\ request'[r].closing = NothingOpen(request[r].line, request[r].qty)
        BY <1>0, <3>1 DEF MoveWork, TypeOK
      <4> QED BY <4>1
    <3>2. CASE CreatePost(r)
      <4>1. request[r] \in Creating
        BY <1>0, <3>2, RequestFields DEF CreatePost
      <4> QED BY <1>0, <3>2, <4>1 DEF CreatePost, TypeOK, Creating
    <3>3. CASE Debit(r) \/ (\E l \in Lines : ReadCost(r, l)) \/ (\E d \in Documents : CreateOut(r, d))
      BY <1>0, <3>3 DEF Debit, ReadCost, CreateOut, Done, Idle, TypeOK
    <3>4. CASE MoveRefused(r) \/ Abort(r)
                 \/ \E l \in Lines, kind \in Kind : \E qty \in 1..QuantityOf[l] :
                      MoveLock(r, l, kind, qty)
      BY <1>0, <3>4 DEF MoveRefused, Abort, MoveLock, Done, Idle, TypeOK
    <3> QED BY <1>2, <3>1, <3>2, <3>3, <3>4 DEF LocalStep
  <2> QED BY <1>0, <2>1, <2>2
          DEF ClosingIsRight, NothingOpen, EveryMovePosts, Open, LineCost, OrZero
<1>3. ASSUME NEW x \in Requests, request[x].pc = "moved"
      PROVE  /\ request[x].line \in Lines /\ request[x].kind \in Kind
             /\ request[x].qty \in Nat \ {0} /\ InMove(x) /\ request[x].closing \in BOOLEAN
             /\ DocumentOf[request[x].line] \in Documents
             /\ consignment[DocumentOf[request[x].line]] # "NONE"
             /\ EveryMovePosts(DocumentOf[request[x].line]) => Posting(x)
  <2>1. /\ request[x].line \in Lines /\ request[x].kind \in Kind
        /\ request[x].qty \in Nat \ {0} /\ InMove(x) /\ request[x].closing \in BOOLEAN
    BY <1>0, <1>3, RequestFields DEF InMove
  <2> QED BY <1>0, <1>3, <2>1, CostedMovePosts DEF Posting, IInv, MovedIsOpen
<1>4. ASSUME NEW r \in Requests, CreateCommit(r) PROVE ClosingIsRight'
  <2> SUFFICES ASSUME NEW x \in Requests, request'[x].pc = "moved" PROVE Right(request[x])'
    BY DEF ClosingIsRight
  <2>1. x # r /\ request'[x] = request[x]
    BY <1>4, CreateCommitEffect DEF Idle
  <2> DEFINE d == DocumentOf[request[x].line]
  <2>2. request[x].line \in Lines /\ d # request[r].doc
    BY <1>3, <1>4, <2>1, CreateCommitEffect
  <2>3. \A l \in Lines : Open(l)' = Open(l)
    BY <1>4, CreateCommitEffect
  <2>4. \A l \in LinesOf(d) : LineCost(l)' = LineCost(l)
    BY <1>4, <2>2, CreateCommitEffect DEF LinesOf
  <2>5. \A qty : \A l \in Lines : NothingOpen(l, qty)' = NothingOpen(l, qty)
    BY <2>3 DEF NothingOpen, LinesOf
  <2>6. \A e \in Documents : e = d => EveryMovePosts(e)' = EveryMovePosts(e)
    BY <2>4 DEF EveryMovePosts, LinesOf
  <2>7. request[x].pc = "moved" /\ d \in Documents
    BY <1>3, <2>1
  <2>8. Right(request[x])
    BY <1>0, <2>7 DEF ClosingIsRight
  <2>9. \A q : q = request[x] => (Right(q)' <=> Right(q))
    BY <2>2, <2>5, <2>6, <2>7
  <2> QED BY <2>1, <2>8, <2>9
<1>5. ASSUME NEW r \in Requests, MoveCommit(r) PROVE ClosingIsRight'
  <2> SUFFICES ASSUME NEW x \in Requests, request'[x].pc = "moved" PROVE Right(request[x])'
    BY DEF ClosingIsRight
  <2>1. x # r /\ request'[x] = request[x] /\ request[x].pc = "moved" /\ request[r].pc = "moved"
    <3>1. request'[r] = Idle /\ \A y \in Requests \ {r} : request'[y] = request[y]
      BY <1>0, <1>5 DEF MoveCommit, Done, TypeOK
    <3>2. Idle.pc # "moved"
      BY DEF Idle
    <3>3. x # r
      BY <3>1, <3>2
    <3>4. request[r].pc = "moved"
      BY <1>5 DEF MoveCommit
    <3> QED BY <3>1, <3>3, <3>4
  <2> DEFINE l == request[x].line
             m == request[r].line
  <2>2. l \in Lines /\ m \in Lines /\ l # m
    BY <1>3, <2>1 DEF IInv, MovedIsOpen
  <2>3. Right(request[x])
    BY <1>0, <2>1 DEF ClosingIsRight
  <2>4. /\ request[r].qty \in Nat \ {0} /\ request[r].qty <= Open(m)
        /\ \A k \in Lines : Open(k)' = IF k = m THEN Open(k) - request[r].qty ELSE Open(k)
        /\ \A k \in Lines : LineCost(k)' = LineCost(k)
    BY <1>5, MoveCommitEffect
  <2>5. Open(m) # 0
    BY <1>0, <2>2, <2>4 DEF TypeOK, Item, Open
  <2>6. CASE DocumentOf[l] = DocumentOf[m]
    <3>1. ~NothingOpen(l, request[x].qty)
      BY <2>2, <2>5, <2>6 DEF NothingOpen, LinesOf
    <3>2. ~EveryMovePosts(DocumentOf[l])
      BY <1>3, <2>1, <2>6 DEF IInv, OnePosting
    <3>3. ~request[x].closing
      BY <2>3, <3>1
    <3>4. \A e \in Documents : EveryMovePosts(e)' = EveryMovePosts(e)
      BY <2>4 DEF EveryMovePosts, LinesOf
    <3>5. \A q : q = request[x] => Right(q)'
      BY <1>3, <2>1, <3>2, <3>3, <3>4
    <3> QED BY <2>1, <3>5
  <2>7. CASE DocumentOf[l] # DocumentOf[m]
    <3>1. \A k \in LinesOf(DocumentOf[l]) : Open(k)' = Open(k) /\ LineCost(k)' = LineCost(k)
      BY <2>2, <2>4, <2>7 DEF LinesOf
    <3>2. l \in LinesOf(DocumentOf[l])
      BY <2>2 DEF LinesOf
    <3>3. \A qty : \A k \in Lines : k = l => NothingOpen(k, qty)' = NothingOpen(k, qty)
      BY <3>1, <3>2 DEF NothingOpen, LinesOf
    <3>4. \A e \in Documents : EveryMovePosts(e)' = EveryMovePosts(e)
      BY <2>4 DEF EveryMovePosts, LinesOf
    <3>5. \A q : q = request[x] => (Right(q)' <=> Right(q))
      BY <1>3, <2>1, <2>2, <3>3, <3>4
    <3> QED BY <2>1, <2>3, <3>5
  <2> QED BY <2>6, <2>7
<1> QED BY <1>1, <1>2, <1>4, <1>5, Steps DEF ReceiveGoods, IssueSale, CreateIn, vars

(* Documents close when, and only when, nothing is left.                   *)
LEMMA NextDocuments == IInv /\ [Next]_vars => ClosedHasNothingOpen' /\ LastMoveCloses'
<1> SUFFICES ASSUME IInv, [Next]_vars PROVE ClosedHasNothingOpen' /\ LastMoveCloses'
  OBVIOUS
<1>0. TypeOK /\ ClosedHasNothingOpen /\ LastMoveCloses
  BY DEF IInv
<1>1. ASSUME \A l \in Lines : Open(l)' = Open(l) /\ LineCost(l)' = LineCost(l),
             UNCHANGED consignment
      PROVE  ClosedHasNothingOpen' /\ LastMoveCloses'
  BY <1>0, <1>1 DEF ClosedHasNothingOpen, LastMoveCloses, EveryMovePosts, LinesOf
<1>2. ASSUME UNCHANGED <<item, consignment>> PROVE ClosedHasNothingOpen' /\ LastMoveCloses'
  BY <1>1, <1>2 DEF Open, LineCost, OrZero
<1>3. ASSUME NEW d \in Documents, CreateIn(d) PROVE ClosedHasNothingOpen' /\ LastMoveCloses'
  <2>1. \A l \in Lines : Open(l)' = Open(l) /\ LineCost(l)' = LineCost(l)
    BY <1>3 DEF CreateIn, Open, LineCost, OrZero
  <2>2. \A e \in Documents : consignment'[e] = IF e = d THEN "OPEN" ELSE consignment[e]
    BY <1>0, <1>3 DEF CreateIn, TypeOK
  <2>3. ~EveryMovePosts(d)'
    BY <1>3 DEF CreateIn, EveryMovePosts
  <2> QED BY <1>0, <2>1, <2>2, <2>3
          DEF ClosedHasNothingOpen, LastMoveCloses, EveryMovePosts, LinesOf
<1>4. ASSUME NEW r \in Requests, LocalStep(r) PROVE ClosedHasNothingOpen' /\ LastMoveCloses'
  BY <1>0, <1>1, <1>4, LocalStepIsLocal
<1>5. ASSUME NEW r \in Requests, CreateCommit(r) PROVE ClosedHasNothingOpen' /\ LastMoveCloses'
  <2> DEFINE d == request[r].doc
  <2>1. /\ d \in Documents /\ \A l \in Lines : Open(l)' = Open(l)
        /\ \A l \in Lines : DocumentOf[l] # d => LineCost(l)' = LineCost(l)
        /\ \A l \in LinesOf(d) : Open(l) = QuantityOf[l]
    BY <1>5, CreateCommitEffect
  <2>2. \A e \in Documents : consignment'[e] = IF e = d THEN "OPEN" ELSE consignment[e]
    BY <1>0, <1>5, CreateCommitEffect DEF TypeOK
  <2> HIDE DEF d
  <2>3. \E l \in LinesOf(d) : Open(l) > 0
    BY <2>1 DEF LinesOf
  <2> QED BY <1>0, <2>1, <2>2, <2>3
          DEF ClosedHasNothingOpen, LastMoveCloses, EveryMovePosts, LinesOf
<1>6. ASSUME NEW r \in Requests, MoveCommit(r) PROVE ClosedHasNothingOpen' /\ LastMoveCloses'
  <2> DEFINE q == request[r]
             l == q.line
             d == DocumentOf[l]
  <2>1. /\ l \in Lines /\ d \in Documents /\ q.qty \in Nat \ {0} /\ q.qty <= Open(l)
        /\ \A k \in Lines : Open(k)' = IF k = l THEN Open(k) - q.qty ELSE Open(k)
        /\ \A k \in Lines : LineCost(k)' = LineCost(k)
    BY <1>6, MoveCommitEffect, CellOfLine
  <2>2. \A e \in Documents : consignment'[e] = IF q.closing /\ e = d THEN "CLOSED" ELSE consignment[e]
    BY <1>0, <1>6, <2>1, MoveCommitEffect DEF TypeOK
  <2>3. \A k \in Lines : Open(k) \in Int /\ Open(k) >= 0
    BY <1>0 DEF TypeOK, Item, Open, IInv, MovedIsOpen
  <2>4. /\ q.closing => NothingOpen(l, q.qty)
        /\ ~q.closing /\ EveryMovePosts(d) => ~NothingOpen(l, q.qty)
    BY <1>0, <1>6 DEF ClosingIsRight, MoveCommit, IInv
  <2>5. l \in LinesOf(d) /\ \A e \in Documents : l \in LinesOf(e) => e = d
    BY <2>1 DEF LinesOf
  <2>6. consignment[d] # "CLOSED"
    BY <1>0, <2>1, <2>3, <2>5 DEF ClosedHasNothingOpen
  <2>7. \A e \in Documents : /\ EveryMovePosts(e)' = EveryMovePosts(e)
                             /\ LinesOf(e) \subseteq Lines
    BY <2>1 DEF EveryMovePosts, LinesOf
  <2>8. NothingOpen(l, q.qty) <=> Open(l) = q.qty /\ \A k \in LinesOf(d) \ {l} : Open(k) = 0
    BY DEF NothingOpen
  <2> HIDE DEF q, l, d
  <2>9. ClosedHasNothingOpen'
    <3> SUFFICES ASSUME NEW e \in Documents, consignment'[e] = "CLOSED", NEW k \in LinesOf(e)
                 PROVE  Open(k)' = 0
      BY DEF ClosedHasNothingOpen, LinesOf
    <3>1. CASE e = d
      BY <2>1, <2>2, <2>3, <2>4, <2>6, <2>7, <2>8, <3>1
    <3>2. CASE e # d
      BY <1>0, <2>1, <2>2, <2>5, <2>7, <3>2 DEF ClosedHasNothingOpen
    <3> QED BY <3>1, <3>2
  <2>10. LastMoveCloses'
    <3> SUFFICES ASSUME NEW e \in Documents, consignment'[e] = "OPEN", EveryMovePosts(e)
                 PROVE  \E k \in LinesOf(e) : Open(k)' > 0
      BY <2>7 DEF LastMoveCloses, LinesOf
    <3>1. CASE e = d
      <4>1. ~NothingOpen(l, q.qty)
        BY <2>2, <2>4, <3>1
      <4>2. CASE Open(l) # q.qty
        <5>1. PICK k \in LinesOf(d) : k = l
          BY <2>5
        <5>2. Open(k)' = Open(k) - q.qty
          BY <2>1, <5>1
        <5>3. Open(k)' > 0
          BY <2>1, <2>3, <4>2, <5>1, <5>2
        <5> QED BY <3>1, <5>3
      <4>3. CASE \E k \in LinesOf(d) \ {l} : Open(k) # 0
        <5>1. PICK k \in LinesOf(d) \ {l} : Open(k) # 0
          BY <4>3
        <5>2. Open(k)' = Open(k) /\ Open(k) > 0
          BY <2>1, <2>3, <2>7, <5>1
        <5> QED BY <3>1, <5>1, <5>2
      <4> QED BY <2>8, <4>1, <4>2, <4>3
    <3>2. CASE e # d
      BY <1>0, <2>1, <2>2, <2>5, <2>7, <3>2 DEF LastMoveCloses
    <3> QED BY <3>1, <3>2
  <2> QED BY <2>9, <2>10
<1> QED BY <1>2, <1>3, <1>4, <1>5, <1>6, Steps DEF ReceiveGoods, IssueSale, vars

-----------------------------------------------------------------------------
LEMMA InitIInv == Init => IInv
<1> SUFFICES ASSUME Init PROVE IInv
  OBVIOUS
<1> USE DEF Init
<1>1. StockInv
  BY DEF StockInv, StockInit, StockTypeOK, AbsentRowIsEmpty, KardexExplainsStock,
         Row, NoRow, Kardex, EmptyKardex, Cost
<1>2. TypeOK
  BY <1>1 DEF TypeOK, StockInv, Item, Cost
<1>3. \A x \in Requests : request[x].pc = "idle"
  BY DEF Idle
<1>4. \A l \in Lines : Open(l) = QuantityOf[l] /\ QuantityOf[l] \in Nat \ {0}
  BY ConsignmentConstants DEF Open
<1>5. NewDocuments /\ OnePosting /\ ClosingIsRight
  BY <1>3, ConsignmentConstants DEF NewDocuments, InCreate, OnePosting, Posting, ClosingIsRight
<1>6. TakenIsThere /\ MovedIsOpen
  BY <1>3, <1>4 DEF TakenIsThere, Holds, InCreate, MovedIsOpen, InMove
<1>7. ClosedHasNothingOpen /\ LastMoveCloses
  BY DEF ClosedHasNothingOpen, LastMoveCloses
<1> QED BY <1>1, <1>2, <1>5, <1>6, <1>7 DEF IInv, StockInv

LEMMA NextIInv == IInv /\ [Next]_vars => IInv'
BY NextStock, NextTypes, NextNewDocuments, NextTaken, NextMoved, NextPosting, NextClosing,
   NextDocuments DEF IInv, StockInv

LEMMA Invariant == Spec => []IInv
BY InitIInv, NextIInv, PTL DEF Spec

(* Every column and every local keeps its type: no quantity of a line is   *)
(* ever settled or returned that was not open, no shelf goes below zero.   *)
THEOREM ConsignmentTypeCorrect == Spec => []TypeOK
<1>1. IInv => TypeOK
  BY DEF IInv
<1> QED
  BY Invariant, <1>1, PTL

(* move closes a document only when nothing of it is left, although it     *)
(* looks at lines that other requests have locked.                         *)
THEOREM ClosedAlwaysHasNothingOpen == Spec => []ClosedHasNothingOpen
<1>1. IInv => ClosedHasNothingOpen
  BY DEF IInv
<1> QED
  BY Invariant, <1>1, PTL

(* Of moves that post, the one that leaves nothing open closes the         *)
(* document: the number of the journal entry lets one of them at a time    *)
(* look at the other lines.                                                *)
THEOREM LastMoveAlwaysCloses == Spec => []LastMoveCloses
<1>1. IInv => LastMoveCloses
  BY DEF IInv
<1> QED
  BY Invariant, <1>1, PTL
-----------------------------------------------------------------------------
(* The goods and the books.                                                *)

LEMMA GivenLines ==
  /\ Given \subseteq Lines /\ IsFiniteSet(Given)
  /\ \A p : GivenOf(p) \subseteq Lines /\ IsFiniteSet(GivenOf(p))
  /\ \A d : LinesOf(d) \subseteq Lines /\ IsFiniteSet(LinesOf(d))
BY FS_Subset DEF Given, GivenOf, LinesOf

(* The numbers that are summed are numbers.                                *)
LEMMA Numbers ==
  ASSUME TypeOK, NEW l \in Lines
  PROVE  /\ Open(l) \in Int /\ item[l].settled \in Nat /\ LineCost(l) \in Nat
         /\ QuantityOf[l] \in Nat /\ PriceOf[l] \in Nat
BY DEF TypeOK, Item, Open, LineCost, OrZero, Cost, NoCost

LEMMA Transferred ==
  ASSUME TypeOK, NEW c \in Cells
  PROVE  kardex[c].transferred \in Int
BY DEF TypeOK, StockTypeOK, Kardex

(* Steps that move no goods of a consignment.                              *)
LEMMA BooksStay ==
  ASSUME GoodsAreSomewhere, BooksFollowItems, Given' = Given, UNCHANGED <<item, balance>>,
         \A c \in Cells : kardex'[c].transferred = kardex[c].transferred
  PROVE  GoodsAreSomewhere' /\ BooksFollowItems'
<1>1. \A l \in Lines : Open(l)' = Open(l) /\ LineCost(l)' = LineCost(l)
  BY DEF Open, LineCost, OrZero
<1>2. ASSUME NEW p \in Products
      PROVE  (SumFunctionOnSet([w \in Warehouses |-> kardex[<<w, p>>].transferred], Warehouses)
              + SumFunctionOnSet([l \in Lines |-> Open(l) + item[l].settled], GivenOf(p)) = 0)'
  <2>1. [w \in Warehouses |-> kardex'[<<w, p>>].transferred]
          = [w \in Warehouses |-> kardex[<<w, p>>].transferred]
    BY DEF Cells
  <2>2. [l \in Lines |-> Open(l)' + item'[l].settled] = [l \in Lines |-> Open(l) + item[l].settled]
    BY <1>1
  <2>3. GivenOf(p)' = GivenOf(p)
    BY DEF GivenOf
  <2>4. SumFunctionOnSet([w \in Warehouses |-> kardex[<<w, p>>].transferred], Warehouses)
         + SumFunctionOnSet([l \in Lines |-> Open(l) + item[l].settled], GivenOf(p)) = 0
    BY DEF GoodsAreSomewhere
  <2> QED BY <2>1, <2>2, <2>3, <2>4
<1>3. Revenue' = Revenue /\ Rounding' = Rounding
  BY DEF Revenue, Rounding
<1>4. OutValue' = OutValue
  <2>1. [l \in Lines |-> Open(l)' * LineCost(l)'] = [l \in Lines |-> Open(l) * LineCost(l)]
    BY <1>1
  <2> QED BY <2>1 DEF OutValue
<1> QED BY <1>2, <1>3, <1>4 DEF GoodsAreSomewhere, BooksFollowItems

(* What the commit of an issue does to what the books are about.           *)
LEMMA CreateCommitBooks ==
  ASSUME IInv, IssueAddsUp, NEW r \in Requests, CreateCommit(r),
         NEW d, d = request[r].doc, NEW q, q = request[r]
  PROVE  /\ d \in Documents /\ q.taken \in [Cells -> Nat] /\ q.total \in Nat
         /\ q.cost \in [Lines -> Cost] /\ AddsUp(q) /\ Debited(q) = LinesOf(d)
         /\ Given' = Given \cup LinesOf(d) /\ Given \cap LinesOf(d) = {}
         /\ \A l \in Lines : item'[l].settled = item[l].settled /\ Open(l)' = Open(l)
         /\ \A l \in Given : LineCost(l)' = LineCost(l)
         /\ \A l \in LinesOf(d) : /\ Open(l) = QuantityOf[l] /\ item[l].settled = 0
                                  /\ LineCost(l)' = OrZero(UnitCost(q.cost[l]))
         /\ balance' = Plus(balance, IssueEntry(q.total))
         /\ \A c \in Cells : kardex'[c].transferred = kardex[c].transferred - q.taken[c]
<1>0. TypeOK /\ InCreate(r) /\ q.pc = "written" /\ d = q.doc
  BY DEF IInv, CreateCommit, InCreate
<1>1. d \in Documents /\ q.taken \in [Cells -> Nat] /\ q.total \in Nat /\ q.cost \in [Lines -> Cost]
  BY <1>0, RequestFields
<1>2. AddsUp(q) /\ q.todo = {}
  BY <1>0 DEF IssueAddsUp, AddsUp
<1>3. Debited(q) = LinesOf(d)
  BY <1>0, <1>2 DEF Debited
<1>4. consignment[d] = "NONE" /\ Direction[d] = "OUT"
      /\ consignment' = [consignment EXCEPT ![d] = "OPEN"]
  BY <1>0 DEF IInv, NewDocuments, CreateCommit
<1>5. Given' = Given \cup LinesOf(d) /\ Given \cap LinesOf(d) = {}
  <2>1. \A e \in Documents : consignment'[e] = IF e = d THEN "OPEN" ELSE consignment[e]
    BY <1>0, <1>4 DEF TypeOK
  <2> QED BY <1>4, <2>1, CellOfLine DEF Given, IsOut, LinesOf
<1>6. \A l \in Lines : /\ item'[l].settled = item[l].settled /\ Open(l)' = Open(l)
                       /\ DocumentOf[l] # d => LineCost(l)' = LineCost(l)
  BY CreateCommitEffect
<1>7. \A l \in Given : LineCost(l)' = LineCost(l)
  BY <1>4, <1>6 DEF Given
<1>8. ASSUME NEW l \in LinesOf(d)
      PROVE  /\ Open(l) = QuantityOf[l] /\ item[l].settled = 0
             /\ LineCost(l)' = OrZero(UnitCost(q.cost[l]))
  <2>1. Open(l) = QuantityOf[l] /\ item[l].settled = 0
    <3>1. l \in Lines /\ DocumentOf[l] = d
      BY DEF LinesOf
    <3>2. item[l].settled = 0 /\ item[l].returned = 0
      BY <1>4, <3>1 DEF IInv, NewDocuments
    <3> QED BY <3>1, <3>2 DEF Open
  <2>2. l \in Lines /\ item[l] \in Item
    BY <1>0 DEF LinesOf, TypeOK
  <2>3. item'[l] = [item[l] EXCEPT !.unitCost = UnitCost(q.cost[l])]
    BY <2>2 DEF CreateCommit
  <2>4. item'[l].unitCost = UnitCost(q.cost[l])
    BY <2>2, <2>3 DEF Item
  <2> QED BY <2>1, <2>4 DEF LineCost
<1>9. balance' = Plus(balance, IssueEntry(q.total))
  BY DEF CreateCommit, Post
<1>10. ASSUME NEW c \in Cells
       PROVE  kardex'[c].transferred = kardex[c].transferred - q.taken[c]
  <2>1. kardex'[c] = Record(kardex[c], -q.taken[c], inventory[c].quantity - q.taken[c], "TRANSFER_OUT")
    BY DEF CreateCommit
  <2>2. kardex[c].transferred \in Int /\ q.taken[c] \in Nat
    BY <1>0, <1>1, Transferred
  <2>3. CASE q.taken[c] = 0
    BY <2>1, <2>2, <2>3 DEF Record
  <2>4. CASE q.taken[c] # 0
    <3>1. -q.taken[c] # 0
      BY <2>2, <2>4
    <3>2. kardex'[c].transferred = kardex[c].transferred + (-q.taken[c])
      BY <2>1, <3>1 DEF Record, IsTransfer
    <3> QED BY <2>2, <3>2
  <2> QED BY <2>3, <2>4
<1> QED BY <1>1, <1>2, <1>3, <1>5, <1>6, <1>7, <1>8, <1>9, <1>10

(* What leaves the shelf of a document is what its lines ask for.          *)
LEMMA CreateCommitGoods ==
  ASSUME IInv, IssueAddsUp, GoodsAreSomewhere, NEW r \in Requests, CreateCommit(r)
  PROVE  GoodsAreSomewhere'
<1> SUFFICES ASSUME NEW p \in Products
             PROVE  (SumFunctionOnSet([w \in Warehouses |-> kardex[<<w, p>>].transferred], Warehouses)
                     + SumFunctionOnSet([l \in Lines |-> Open(l) + item[l].settled], GivenOf(p)) = 0)'
  BY DEF GoodsAreSomewhere
<1>1. PICK d, q : d = request[r].doc /\ q = request[r]
  OBVIOUS
<1>2. /\ TypeOK /\ d \in Documents /\ q.taken \in [Cells -> Nat]
      /\ AddsUp(q) /\ Debited(q) = LinesOf(d)
      /\ Given' = Given \cup LinesOf(d) /\ Given \cap LinesOf(d) = {}
      /\ \A l \in Lines : item'[l].settled = item[l].settled /\ Open(l)' = Open(l)
      /\ \A l \in LinesOf(d) : Open(l) = QuantityOf[l] /\ item[l].settled = 0
      /\ \A c \in Cells : kardex'[c].transferred = kardex[c].transferred - q.taken[c]
  BY <1>1, CreateCommitBooks DEF IInv
<1> DEFINE f == [w \in Warehouses |-> kardex[<<w, p>>].transferred]
           g == [w \in Warehouses |-> kardex'[<<w, p>>].transferred]
           units == [l \in Lines |-> Open(l) + item[l].settled]
           G == GivenOf(p)
           D == {l \in LinesOf(d) : ProductOf[l] = p}
           home == WarehouseOf[d]
<1>3. home \in Warehouses /\ IsFiniteSet(Warehouses)
  BY <1>2
<1>4. SumFunctionOnSet(f, Warehouses) + SumFunctionOnSet(units, G) = 0
  BY DEF GoodsAreSomewhere
<1>5. \A c \in Cells : q.taken[c] = SumFunctionOnSet(QuantityOf, {l \in LinesOf(d) : CellOf(l) = c})
  BY <1>2 DEF AddsUp
<1>6. q.taken[<<home, p>>] = SumFunctionOnSet(QuantityOf, D)
  <2>1. {l \in LinesOf(d) : CellOf(l) = <<home, p>>} = D
    BY DEF CellOf, LinesOf
  <2>2. <<home, p>> \in Cells
    BY <1>3 DEF Cells
  <2>3. q.taken[<<home, p>>] = SumFunctionOnSet(QuantityOf, {l \in LinesOf(d) : CellOf(l) = <<home, p>>})
    BY <1>5, <2>2
  <2> HIDE DEF D, home
  <2> QED BY ONLY <2>1, <2>3, Zenon
<1>7. ASSUME NEW w \in Warehouses, w # home PROVE q.taken[<<w, p>>] = 0
  <2>1. {l \in LinesOf(d) : CellOf(l) = <<w, p>>} = {}
    BY <1>7 DEF CellOf, LinesOf
  <2>2. <<w, p>> \in Cells
    BY DEF Cells
  <2>3. q.taken[<<w, p>>] = SumFunctionOnSet(QuantityOf, {l \in LinesOf(d) : CellOf(l) = <<w, p>>})
    BY <1>5, <2>2
  <2>4. q.taken[<<w, p>>] = SumFunctionOnSet(QuantityOf, {})
    BY ONLY <2>1, <2>3, Zenon
  <2> QED BY <2>4, SumEmpty
<1>8. SumFunctionOnSet(g, Warehouses) = SumFunctionOnSet(f, Warehouses) - SumFunctionOnSet(QuantityOf, D)
  <2>1. \A w \in Warehouses : /\ f[w] \in Int /\ g[w] = f[w] - q.taken[<<w, p>>]
                              /\ q.taken[<<w, p>>] \in Nat
    BY <1>2, Transferred DEF Cells
  <2>2. \A w \in Warehouses : f[w] \in Int /\ g[w] \in Int
    BY <2>1
  <2>3. \A w \in Warehouses \ {home} : f[w] = g[w]
    BY <1>7, <2>1
  <2> HIDE DEF f, g, home
  <2>4. SumFunctionOnSet(f, Warehouses) \in Int
    BY <1>3, <2>2, SumInt
  <2>5. SumFunctionOnSet(g, Warehouses) = SumFunctionOnSet(f, Warehouses) + g[home] - f[home]
    BY ONLY <1>3, <2>2, <2>3, SumChange
  <2>6. g[home] = f[home] - q.taken[<<home, p>>] /\ f[home] \in Int /\ q.taken[<<home, p>>] \in Nat
    BY <1>3, <2>1
  <2> QED BY <1>6, <2>4, <2>5, <2>6
<1>9. /\ IsFiniteSet(G) /\ IsFiniteSet(D) /\ G \cap D = {} /\ GivenOf(p)' = G \cup D
      /\ \A l \in G \cup D : l \in Lines /\ units[l] \in Int
      /\ \A l \in D : units[l] = QuantityOf[l]
  <2>1. IsFiniteSet(D) /\ D \subseteq Lines /\ IsFiniteSet(G) /\ G \subseteq Lines
    BY GivenLines, FS_Subset
  <2>2. G \cap D = {} /\ GivenOf(p)' = G \cup D
    BY <1>2 DEF GivenOf
  <2>3. \A l \in Lines : units[l] \in Int
    BY <1>2, Numbers
  <2>4. \A l \in D : units[l] = QuantityOf[l]
    BY <1>2, <2>1, Numbers
  <2> QED BY <2>1, <2>2, <2>3, <2>4
<1>10. [l \in Lines |-> Open(l) + item[l].settled]' = units
  BY <1>2
<1>11. SumFunctionOnSet(units, G \cup D) = SumFunctionOnSet(units, G) + SumFunctionOnSet(units, D)
  <2> HIDE DEF units, G, D
  <2> QED BY <1>9, SumDisjoint
<1>12. SumFunctionOnSet(units, D) = SumFunctionOnSet(QuantityOf, D)
  <2> HIDE DEF units, D
  <2> QED BY <1>9, SumSame
<1>13. SumFunctionOnSet(units, G) \in Int /\ SumFunctionOnSet(QuantityOf, D) \in Int
       /\ SumFunctionOnSet(f, Warehouses) \in Int
  <2>1. \A w \in Warehouses : f[w] \in Int
    BY <1>2, Transferred DEF Cells
  <2>2. \A l \in D : QuantityOf[l] \in Int
    BY <1>9
  <2> HIDE DEF units, G, D, f
  <2> QED BY <1>3, <1>9, <2>1, <2>2, SumInt
<1>14. SumFunctionOnSet(g, Warehouses) + SumFunctionOnSet(units, G \cup D) = 0
  <2> HIDE DEF f, g, units, G, D
  <2> QED BY <1>4, <1>8, <1>11, <1>12, <1>13
<1>15. SumFunctionOnSet([l \in Lines |-> Open(l) + item[l].settled]', GivenOf(p)')
         = SumFunctionOnSet(units, G \cup D)
  <2> HIDE DEF units, G, D
  <2> QED BY <1>9, <1>10
<1> HIDE DEF units, G, D
<1> QED BY <1>14, <1>15

(* What the commit of a move does to what the books are about.             *)
LEMMA MoveCommitBooks ==
  ASSUME IInv, NEW r \in Requests, MoveCommit(r),
         NEW l, l = request[r].line, NEW kind, kind = request[r].kind, NEW n, n = request[r].qty
  PROVE  /\ l \in Lines /\ kind \in Kind /\ n \in Nat \ {0} /\ Given' = Given
         /\ IsOut(l) => l \in Given
         /\ \A m \in Lines :
              /\ LineCost(m)' = LineCost(m)
              /\ m # l => Open(m)' = Open(m) /\ item'[m].settled = item[m].settled
         /\ Open(l)' = Open(l) - n
         /\ item'[l].settled = item[l].settled + (IF kind = "SETTLE" THEN n ELSE 0)
         /\ balance' = Plus(balance, MoveEntry(l, kind, n))
         /\ \A c \in Cells : kardex'[c].transferred = kardex[c].transferred
              + (IF ToShelf(l, kind) /\ c = CellOf(l) THEN n ELSE 0)
<1>0. TypeOK
  BY DEF IInv
<1>1. /\ l \in Lines /\ n \in Nat \ {0} /\ kind \in Kind
      /\ consignment[DocumentOf[l]] # "NONE"
      /\ \A m \in Lines :
           /\ m # l => item'[m] = item[m]
           /\ Open(m)' = IF m = l THEN Open(m) - n ELSE Open(m)
           /\ LineCost(m)' = LineCost(m)
      /\ consignment' = IF request[r].closing
           THEN [consignment EXCEPT ![DocumentOf[l]] = "CLOSED"] ELSE consignment
  BY MoveCommitEffect
<1>2. Given' = Given
  <2>1. \A d \in Documents : consignment'[d] # "NONE" <=> consignment[d] # "NONE"
    BY <1>0, <1>1 DEF TypeOK
  <2> QED BY <2>1, CellOfLine DEF Given, IsOut
<1>3. IsOut(l) => l \in Given
  BY <1>1 DEF Given
<1>4. Open(l)' = Open(l) - n
  <2>1. ASSUME NEW m \in Lines, m = l PROVE Open(m)' = Open(m) - n
    BY <1>1, <2>1
  <2> QED BY <1>1, <2>1
<1>5. item'[l].settled = item[l].settled + (IF kind = "SETTLE" THEN n ELSE 0)
  <2>1. item'[l] = Moved(item[l], kind, n) /\ item[l] \in Item
    BY <1>0, <1>1 DEF TypeOK, MoveCommit
  <2>2. kind = "SETTLE" => item'[l].settled = item[l].settled + n
    BY <2>1 DEF Moved, Item
  <2>3. kind # "SETTLE" => item'[l].settled = item[l].settled /\ item[l].settled \in Nat
    BY <2>1 DEF Moved, Item
  <2> QED BY <2>2, <2>3
<1>6. balance' = Plus(balance, MoveEntry(l, kind, n))
  BY DEF MoveCommit, Post
<1>7. ASSUME NEW c \in Cells
      PROVE  kardex'[c].transferred = kardex[c].transferred
               + (IF ToShelf(l, kind) /\ c = CellOf(l) THEN n ELSE 0)
  <2>1. kardex[c].transferred \in Int /\ kardex \in [Cells -> Kardex]
    BY <1>0, Transferred DEF TypeOK, StockTypeOK
  <2>2. CASE ToShelf(l, kind) /\ c = CellOf(l)
    <3>1. \E b : kardex' = [kardex EXCEPT ![c] = Record(@, n, b, "TRANSFER_IN")]
      BY <2>2 DEF MoveCommit, ApplyStockDelta
    <3>2. PICK b : kardex'[c] = Record(kardex[c], n, b, "TRANSFER_IN")
      BY <2>1, <3>1
    <3>3. n # 0
      BY <1>1
    <3> QED BY <2>2, <3>2, <3>3 DEF Record, IsTransfer
  <2>3. CASE ~(ToShelf(l, kind) /\ c = CellOf(l))
    <3>1. kardex' = kardex \/ \E b : kardex' = [kardex EXCEPT ![CellOf(l)] = b] /\ c # CellOf(l)
      BY <2>3 DEF MoveCommit, ApplyStockDelta, stockVars
    <3>2. kardex'[c] = kardex[c]
      BY <2>1, <3>1
    <3> QED BY <2>1, <2>3, <3>2
  <2> QED BY <2>2, <2>3
<1> QED BY <1>1, <1>2, <1>3, <1>4, <1>5, <1>6, <1>7

(* What comes back to the shelf is what the line returns; what is settled  *)
(* stays away from it.                                                     *)
LEMMA MoveCommitGoods ==
  ASSUME IInv, GoodsAreSomewhere, NEW r \in Requests, MoveCommit(r)
  PROVE  GoodsAreSomewhere'
<1> SUFFICES ASSUME NEW p \in Products
             PROVE  (SumFunctionOnSet([w \in Warehouses |-> kardex[<<w, p>>].transferred], Warehouses)
                     + SumFunctionOnSet([l \in Lines |-> Open(l) + item[l].settled], GivenOf(p)) = 0)'
  BY DEF GoodsAreSomewhere
<1>1. PICK l, kind, n : l = request[r].line /\ kind = request[r].kind /\ n = request[r].qty
  OBVIOUS
<1>2. /\ TypeOK /\ l \in Lines /\ kind \in Kind /\ n \in Nat \ {0} /\ Given' = Given
      /\ IsOut(l) => l \in Given
      /\ \A m \in Lines : m # l => Open(m)' = Open(m) /\ item'[m].settled = item[m].settled
      /\ Open(l)' = Open(l) - n
      /\ item'[l].settled = item[l].settled + (IF kind = "SETTLE" THEN n ELSE 0)
      /\ \A c \in Cells : kardex'[c].transferred = kardex[c].transferred
           + (IF ToShelf(l, kind) /\ c = CellOf(l) THEN n ELSE 0)
  BY <1>1, MoveCommitBooks DEF IInv
<1> DEFINE f == [w \in Warehouses |-> kardex[<<w, p>>].transferred]
           g == [w \in Warehouses |-> kardex'[<<w, p>>].transferred]
           units == [m \in Lines |-> Open(m) + item[m].settled]
           after == [m \in Lines |-> Open(m)' + item'[m].settled]
           G == GivenOf(p)
           home == WarehouseOf[DocumentOf[l]]
           back == IF ToShelf(l, kind) /\ p = ProductOf[l] THEN n ELSE 0
<1>3. home \in Warehouses /\ IsFiniteSet(Warehouses) /\ IsFiniteSet(G) /\ back \in Nat
  BY <1>2, GivenLines
<1>4. SumFunctionOnSet(f, Warehouses) + SumFunctionOnSet(units, G) = 0
  BY DEF GoodsAreSomewhere
<1>5. /\ \A w \in Warehouses : f[w] \in Int /\ g[w] \in Int
      /\ \A w \in Warehouses \ {home} : f[w] = g[w]
      /\ g[home] = f[home] + back
  <2>1. \A w \in Warehouses : /\ <<w, p>> \in Cells /\ f[w] \in Int
                              /\ g[w] = f[w] + (IF ToShelf(l, kind) /\ <<w, p>> = CellOf(l) THEN n ELSE 0)
    BY <1>2, Transferred DEF Cells
  <2>2. \A w \in Warehouses : <<w, p>> = CellOf(l) <=> w = home /\ p = ProductOf[l]
    BY DEF CellOf
  <2>3. \A w \in Warehouses : g[w] = f[w] + (IF w = home THEN back ELSE 0)
    BY <2>1, <2>2
  <2>4. \A w \in Warehouses : f[w] \in Int
    BY <2>1
  <2> HIDE DEF f, g, home, back
  <2>5. \A w \in Warehouses : g[w] \in Int
    BY ONLY <1>3, <2>3, <2>4
  <2>6. \A w \in Warehouses \ {home} : g[w] = f[w]
    BY ONLY <2>3, <2>4
  <2> QED BY <1>3, <2>3, <2>4, <2>5, <2>6
<1>6. \A m \in Lines : units[m] \in Int /\ (m # l => after[m] = units[m])
  BY <1>2, Numbers
<1>7. after[l] = units[l] - (IF kind = "SETTLE" THEN 0 ELSE n)
  <2>1. Open(l) \in Int /\ item[l].settled \in Int
    BY <1>2, Numbers
  <2>2. after[l] = Open(l)' + item'[l].settled /\ units[l] = Open(l) + item[l].settled
    BY <1>2
  <2>3. kind = "SETTLE" => (Open(l) - n) + (item[l].settled + n) = Open(l) + item[l].settled
    BY <1>2, <2>1
  <2>4. kind # "SETTLE" => (Open(l) - n) + (item[l].settled + 0) = (Open(l) + item[l].settled) - n
    BY <1>2, <2>1
  <2>5. units[l] \in Int
    BY <2>1, <2>2
  <2> HIDE DEF units, after
  <2>6. CASE kind = "SETTLE"
    <3>1. after[l] = units[l]
      BY <1>2, <2>2, <2>3, <2>6
    <3> QED BY <2>5, <2>6, <3>1
  <2>7. CASE kind # "SETTLE"
    <3>1. item'[l].settled = item[l].settled + 0
      BY <1>2, <2>7
    <3>2. Open(l)' = Open(l) - n
      BY <1>2
    <3>3. after[l] = units[l] - n
      BY ONLY <2>2, <2>4, <2>7, <3>1, <3>2, Zenon
    <3> QED BY <2>7, <3>3
  <2> QED BY <2>6, <2>7
<1>8. l \in G => after[l] = units[l] - back
  <2>1. l \in G => IsOut(l) /\ p = ProductOf[l]
    BY DEF GivenOf, Given
  <2>2. l \in G => (ToShelf(l, kind) <=> kind # "SETTLE")
    BY <1>2, <2>1 DEF ToShelf, Kind
  <2> HIDE DEF units, after, G
  <2> QED BY <1>7, <2>1, <2>2
<1>9. l \notin G => back = 0
  BY <1>2 DEF GivenOf, ToShelf
<1>10. G \subseteq Lines /\ GivenOf(p)' = G /\ [m \in Lines |-> Open(m) + item[m].settled]' = after
  BY <1>2 DEF GivenOf, Given
<1> HIDE DEF f, g, units, after, G, home, back
<1>11. SumFunctionOnSet(g, Warehouses) = SumFunctionOnSet(f, Warehouses) + back
       /\ SumFunctionOnSet(f, Warehouses) \in Int
  <2>1. SumFunctionOnSet(g, Warehouses) = SumFunctionOnSet(f, Warehouses) + g[home] - f[home]
    BY ONLY <1>3, <1>5, SumChange
  <2>2. SumFunctionOnSet(f, Warehouses) \in Int
    BY <1>3, <1>5, SumInt
  <2> QED BY <1>3, <1>5, <2>1, <2>2
<1>12. SumFunctionOnSet(after, G) = SumFunctionOnSet(units, G) - back
       /\ SumFunctionOnSet(units, G) \in Int
  <2>1. SumFunctionOnSet(units, G) \in Int
    BY <1>3, <1>6, <1>10, SumInt
  <2>2. CASE l \in G
    <3>1. \A m \in G : units[m] \in Int /\ after[m] \in Int
      BY <1>3, <1>6, <1>8, <1>10, <2>2
    <3>2. \A m \in G \ {l} : units[m] = after[m]
      BY <1>6, <1>10
    <3>3. SumFunctionOnSet(after, G) = SumFunctionOnSet(units, G) + after[l] - units[l]
      BY ONLY <1>3, <2>2, <3>1, <3>2, SumChange
    <3> QED BY <1>3, <1>8, <2>1, <2>2, <3>1, <3>3
  <2>3. CASE l \notin G
    <3>1. SumFunctionOnSet(after, G) = SumFunctionOnSet(units, G)
      BY <1>3, <1>6, <1>10, <2>3, SumSame
    <3> QED BY <1>9, <2>1, <2>3, <3>1
  <2> QED BY <2>2, <2>3
<1>13. SumFunctionOnSet(g, Warehouses) + SumFunctionOnSet(after, G) = 0
  BY <1>3, <1>4, <1>11, <1>12
<1> QED BY <1>10, <1>13 DEF g

-----------------------------------------------------------------------------
(* What a step of an issue makes of its sums, as of values.                *)
LEMMA CreateOutAddsUp ==
  ASSUME NEW q, NEW d, q.pc = "creating", q.doc = d, q.todo = LinesOf(d), q.total = 0,
         q.taken = [c \in Cells |-> 0]
  PROVE  AddsUp(q)
<1>1. Debited(q) = {} /\ \A c \in Cells : {l \in Debited(q) : CellOf(l) = c} = {}
  BY DEF Debited
<1>2. SumFunctionOnSet(QuantityOf, {}) = 0 /\ SumFunctionOnSet(Costs(q), {}) = 0
  BY SumEmpty
<1>3. q.total = SumFunctionOnSet(Costs(q), Debited(q))
  BY <1>1, <1>2
<1>4. ASSUME NEW c \in Cells
      PROVE  q.taken[c] = SumFunctionOnSet(QuantityOf, {l \in Debited(q) : CellOf(l) = c})
  <2>1. {l \in Debited(q) : CellOf(l) = c} = {}
    BY <1>1
  <2>2. SumFunctionOnSet(QuantityOf, {l \in Debited(q) : CellOf(l) = c}) = 0
    BY ONLY <1>2, <2>1, Zenon
  <2> QED BY <2>2
<1> QED BY <1>3, <1>4 DEF AddsUp

(* ReadCost and CreatePost: the same lines, at the same cost.              *)
LEMMA SameDebited ==
  ASSUME NEW p, AddsUp(p), NEW q, q.doc = p.doc, q.taken = p.taken, q.total = p.total,
         Debited(q) = Debited(p), \A l \in Debited(p) : q.cost[l] = p.cost[l],
         q.todo \subseteq p.todo,
         q.pc = "costed" => q.line \in LinesOf(q.doc) \ q.todo,
         q.pc = "written" => q.todo = {}
  PROVE  AddsUp(q)
<1>1. Debited(p) \subseteq Lines /\ IsFiniteSet(Debited(p))
  BY GivenLines, FS_Subset DEF Debited
<1>2. \A l \in Debited(p) : Costs(p)[l] = Costs(q)[l]
  BY <1>1 DEF Costs
<1>3. SumFunctionOnSet(Costs(p), Debited(p)) = SumFunctionOnSet(Costs(q), Debited(p))
  BY <1>1, <1>2, SumSame
<1> QED BY <1>3 DEF AddsUp

(* Debit: one more line, with what it asks for and what it costs.          *)
LEMMA OneMoreDebited ==
  ASSUME NEW p, AddsUp(p), p.pc = "costed", p.taken \in [Cells -> Nat], p.total \in Nat,
         p.cost \in [Lines -> Cost],
         NEW q, q.pc = "creating", q.doc = p.doc, q.todo = p.todo, q.cost = p.cost,
         q.taken = [p.taken EXCEPT ![CellOf(p.line)] = @ + QuantityOf[p.line]],
         q.total = p.total + OrZero(p.cost[p.line]) * QuantityOf[p.line]
  PROVE  AddsUp(q)
<1>1. PICK a : a = p.line
  OBVIOUS
<1> DEFINE D == Debited(p)
<1>2. a \in LinesOf(p.doc) \ p.todo /\ a \in Lines /\ CellOf(a) \in Cells
  BY <1>1, CellOfLine DEF AddsUp, LinesOf
<1>3. D \subseteq Lines /\ IsFiniteSet(D) /\ a \notin D /\ Debited(q) = D \cup {a}
  <2>1. D \subseteq Lines /\ IsFiniteSet(D)
    BY GivenLines, FS_Subset DEF Debited
  <2>2. a \notin D /\ Debited(q) = D \cup {a}
    BY <1>1, <1>2 DEF Debited
  <2> QED BY <2>1, <2>2
<1>4. \A l \in Lines : QuantityOf[l] \in Int /\ Costs(p)[l] \in Int
  BY DEF Costs, OrZero, Cost, NoCost
<1>5. Costs(q) = Costs(p) /\ Costs(p)[a] = OrZero(p.cost[p.line]) * QuantityOf[p.line]
  BY <1>1, <1>2 DEF Costs
<1> HIDE DEF D
<1>6. q.total = SumFunctionOnSet(Costs(q), Debited(q))
  <2>1. p.total = SumFunctionOnSet(Costs(p), D)
    BY DEF AddsUp, D
  <2>2. SumFunctionOnSet(Costs(p), D \cup {a}) = Costs(p)[a] + SumFunctionOnSet(Costs(p), D)
    BY <1>2, <1>3, <1>4, SumAdd
  <2>3. Costs(p)[a] \in Int
    BY <1>2, <1>4
  <2> QED BY <1>3, <1>5, <2>1, <2>2, <2>3
<1>7. ASSUME NEW c \in Cells
      PROVE  q.taken[c] = SumFunctionOnSet(QuantityOf, {l \in Debited(q) : CellOf(l) = c})
  <2> DEFINE E == {l \in D : CellOf(l) = c}
             F == {l \in Debited(q) : CellOf(l) = c}
  <2>1. p.taken[c] = SumFunctionOnSet(QuantityOf, E)
    BY DEF AddsUp, D
  <2>2. IsFiniteSet(E) /\ a \notin E /\ \A l \in E \cup {a} : QuantityOf[l] \in Int
    BY <1>2, <1>3, <1>4, FS_Subset
  <2>3. q.taken[c] = IF c = CellOf(a) THEN p.taken[c] + QuantityOf[a] ELSE p.taken[c]
    BY <1>1, <1>2
  <2>4. CASE c = CellOf(a)
    <3>1. F = E \cup {a}
      BY <1>3, <2>4
    <3> HIDE DEF E, F
    <3>2. SumFunctionOnSet(QuantityOf, E \cup {a}) = QuantityOf[a] + SumFunctionOnSet(QuantityOf, E)
      BY <2>2, SumAdd
    <3>3. p.taken[c] \in Nat /\ QuantityOf[a] \in Nat
      BY <1>2
    <3>4. q.taken[c] = SumFunctionOnSet(QuantityOf, F)
      BY <2>1, <2>3, <2>4, <3>1, <3>2, <3>3
    <3> QED BY <3>4 DEF F
  <2>5. CASE c # CellOf(a)
    <3>1. F = E
      BY <1>3, <2>5
    <3> HIDE DEF E, F
    <3>2. q.taken[c] = SumFunctionOnSet(QuantityOf, F)
      BY <2>1, <2>3, <2>5, <3>1
    <3> QED BY <3>2 DEF F
  <2> QED BY <2>4, <2>5
<1>8. q.todo \subseteq LinesOf(q.doc) /\ q.pc # "costed" /\ q.pc # "written"
  BY DEF AddsUp
<1> QED BY <1>6, <1>7, <1>8 DEF AddsUp

(* An issue that has not committed adds up.                                *)
LEMMA NextIssueAddsUp == IInv /\ IssueAddsUp /\ [Next]_vars => IssueAddsUp'
<1> SUFFICES ASSUME IInv, IssueAddsUp, [Next]_vars PROVE IssueAddsUp'
  OBVIOUS
<1>0. TypeOK
  BY DEF IInv
<1>1. ASSUME NEW x \in Requests, request'[x] = request[x], InCreate(x)'
      PROVE  AddsUp(request'[x])
  BY <1>1 DEF IssueAddsUp, InCreate
<1>2. ASSUME NEW r \in Requests, LocalStep(r), InCreate(r)' PROVE AddsUp(request'[r])
  <2>1. PICK p, q : p = request[r] /\ q = request'[r]
    OBVIOUS
  <2>2. q.pc \in {"creating", "costed", "written"}
    BY <1>2, <2>1 DEF InCreate
  <2>3. CASE \E d \in Documents : CreateOut(r, d)
    <3>1. PICK d \in Documents : CreateOut(r, d)
      BY <2>3
    <3>2. /\ q.pc = "creating" /\ q.doc = d /\ q.todo = LinesOf(d) /\ q.total = 0
          /\ q.taken = [c \in Cells |-> 0]
      BY <1>0, <2>1, <3>1 DEF CreateOut, TypeOK
    <3> QED BY <2>1, <3>2, CreateOutAddsUp
  <2>4. CASE \E l \in Lines : ReadCost(r, l)
    <3>1. PICK l \in Lines : ReadCost(r, l)
      BY <2>4
    <3>2. /\ p.pc = "creating" /\ l \in p.todo /\ q.pc = "costed" /\ q.doc = p.doc
          /\ q.todo = p.todo \ {l} /\ q.taken = p.taken /\ q.total = p.total /\ q.line = l
          /\ q.cost = [p.cost EXCEPT ![l] = inventory[CellOf(l)].avgCost]
      BY <1>0, <2>1, <3>1 DEF ReadCost, TypeOK
    <3>3. AddsUp(p) /\ p.cost \in [Lines -> Cost]
      BY <1>0, <2>1, <3>2, RequestFields DEF IssueAddsUp, InCreate
    <3>4. p.todo \subseteq LinesOf(p.doc)
      BY <3>3 DEF AddsUp
    <3>5. Debited(q) = Debited(p) /\ l \notin Debited(p) /\ Debited(p) \subseteq Lines
      BY <3>2, <3>4 DEF Debited, LinesOf
    <3>6. \A m \in Debited(p) : q.cost[m] = p.cost[m]
      BY <3>2, <3>3, <3>5
    <3>7. AddsUp(q)
      BY <3>2, <3>3, <3>4, <3>5, <3>6, SameDebited
    <3> QED BY <2>1, <3>7
  <2>5. CASE Debit(r)
    <3>1. p.pc = "costed" /\ q # Idle
      BY <2>1, <2>2, <2>5 DEF Debit, Idle
    <3>2. /\ q.pc = "creating" /\ q.doc = p.doc /\ q.todo = p.todo /\ q.cost = p.cost
          /\ q.taken = [p.taken EXCEPT ![CellOf(p.line)] = @ + QuantityOf[p.line]]
          /\ q.total = p.total + OrZero(p.cost[p.line]) * QuantityOf[p.line]
      BY <1>0, <2>1, <2>5, <3>1 DEF Debit, Done, TypeOK
    <3>3. AddsUp(p) /\ p.cost \in [Lines -> Cost] /\ p.taken \in [Cells -> Nat] /\ p.total \in Nat
      BY <1>0, <2>1, <3>1, RequestFields DEF IssueAddsUp, InCreate
    <3>4. AddsUp(q)
      BY <3>1, <3>2, <3>3, OneMoreDebited
    <3> QED BY <2>1, <3>4
  <2>6. CASE CreatePost(r)
    <3>1. p.pc = "creating" /\ p.todo = {} /\ p \in Creating
      BY <1>0, <2>1, <2>6, RequestFields DEF CreatePost
    <3>2. q = [p EXCEPT !.pc = "written"]
      BY <1>0, <2>1, <2>6 DEF CreatePost, TypeOK
    <3>3. /\ q.pc = "written" /\ q.doc = p.doc /\ q.todo = p.todo /\ q.taken = p.taken
          /\ q.total = p.total /\ q.cost = p.cost
      BY <3>1, <3>2 DEF Creating
    <3>4. Debited(q) = Debited(p)
      BY <3>1, <3>3 DEF Debited
    <3>5. AddsUp(p)
      BY <2>1, <3>1 DEF IssueAddsUp, InCreate
    <3>6. AddsUp(q)
      BY <3>1, <3>3, <3>4, <3>5, SameDebited
    <3> QED BY <2>1, <3>6
  <2>7. ~MoveRefused(r) /\ ~Abort(r)
    BY <1>0, <2>1, <2>2 DEF MoveRefused, Abort, Done, Idle, TypeOK
  <2>8. ~MoveWork(r)
        /\ ~\E l \in Lines, kind \in Kind : \E qty \in 1..QuantityOf[l] : MoveLock(r, l, kind, qty)
    BY <1>0, <2>1, <2>2 DEF MoveWork, MoveLock, TypeOK
  <2> QED BY <1>2, <2>3, <2>4, <2>5, <2>6, <2>7, <2>8 DEF LocalStep
<1>3. ASSUME NEW r \in Requests, LocalStep(r), NEW x \in Requests, InCreate(x)'
      PROVE  AddsUp(request'[x])
  <2>1. x # r => request'[x] = request[x]
    BY <1>0, <1>3, LocalStepIsLocal
  <2> QED BY <1>1, <1>2, <1>3, <2>1
<1>4. ASSUME NEW r \in Requests, CreateCommit(r) \/ MoveCommit(r), NEW x \in Requests, InCreate(x)'
      PROVE  AddsUp(request'[x])
  <2>1. request'[r] = Idle /\ (x # r => request'[x] = request[x])
    BY <1>4, CreateCommitEffect, MoveCommitEffect
  <2>2. x # r
    BY <1>4, <2>1 DEF InCreate, Idle
  <2> QED BY <1>1, <1>4, <2>1, <2>2
<1>5. ASSUME NEW x \in Requests, InCreate(x)' PROVE AddsUp(request'[x])
  <2>1. \/ UNCHANGED request
        \/ \E r \in Requests : LocalStep(r) \/ CreateCommit(r) \/ MoveCommit(r)
    BY Steps DEF vars, ReceiveGoods, IssueSale, CreateIn
  <2>2. UNCHANGED request => AddsUp(request'[x])
    BY <1>1, <1>5
  <2> QED BY <1>3, <1>4, <1>5, <2>1, <2>2
<1> QED BY <1>5 DEF IssueAddsUp

-----------------------------------------------------------------------------
(* What an entry posts to the two accounts the books are about.            *)
LEMMA IssueAmounts ==
  ASSUME NEW n \in Nat
  PROVE  /\ IssueEntry(n)["salesRevenue"] = 0
         /\ IssueEntry(n)["consigned"] \in Nat
         /\ 2 * (Scale * IssueEntry(n)["consigned"] - n) <= Scale
         /\ 2 * (n - Scale * IssueEntry(n)["consigned"]) <= Scale
<1>1. CASE 2 * n > Scale
  <2> DEFINE m == RoundDiv(n, Scale)
  <2>1. m \in Nat /\ 2 * (Scale * m - n) <= Scale /\ 2 * (n - Scale * m) <= Scale
    BY RoundDivClose
  <2> HIDE DEF m
  <2>2. /\ Transfer("consigned", "inventory", m)["consigned"] = m
        /\ Transfer("consigned", "inventory", m)["salesRevenue"] = 0
    BY DEF Transfer, NoEntry, Accounts
  <2>3. IssueEntry(n) = Transfer("consigned", "inventory", m)
    BY <1>1 DEF IssueEntry, m
  <2> QED BY <2>1, <2>2, <2>3
<1>2. CASE ~(2 * n > Scale)
  <2>1. IssueEntry(n)["consigned"] = 0 /\ IssueEntry(n)["salesRevenue"] = 0
    BY <1>2 DEF IssueEntry, NoEntry, Accounts
  <2>2. Scale * 0 = 0
    OBVIOUS
  <2> QED BY <1>2, <2>1, <2>2
<1> QED BY <1>1, <1>2

LEMMA MoveAmounts ==
  ASSUME TypeOK, NEW l \in Lines, NEW kind \in Kind, NEW n \in Nat
  PROVE  LET e == MoveEntry(l, kind, n) IN
         /\ e["consigned"] = IF IsOut(l) THEN -(LineCost(l) * n) ELSE 0
         /\ e["salesRevenue"] = IF IsOut(l) /\ kind = "SETTLE" THEN -(PriceOf[l] * n) ELSE 0
<1> DEFINE cost == LineCost(l) * n
           revenue == PriceOf[l] * n
<1>1. cost \in Int /\ revenue \in Int
  BY Numbers
<1> HIDE DEF cost, revenue
<1>2. /\ Transfer("inventory", "consigned", cost)["consigned"] = -cost
      /\ Transfer("inventory", "consigned", cost)["salesRevenue"] = 0
      /\ Transfer("receivable", "salesRevenue", revenue)["consigned"] = 0
      /\ Transfer("receivable", "salesRevenue", revenue)["salesRevenue"] = -revenue
      /\ Transfer("cogs", "consigned", cost)["consigned"] = -cost
      /\ Transfer("cogs", "consigned", cost)["salesRevenue"] = 0
      /\ Transfer("cogs", "payable", revenue)["consigned"] = 0
      /\ Transfer("cogs", "payable", revenue)["salesRevenue"] = 0
      /\ NoEntry["consigned"] = 0 /\ NoEntry["salesRevenue"] = 0
  BY DEF Transfer, NoEntry, Accounts
<1> DEFINE both == Plus(Transfer("receivable", "salesRevenue", revenue),
                        Transfer("cogs", "consigned", cost))
<1>3. both["consigned"] = -cost /\ both["salesRevenue"] = -revenue
  BY <1>1, <1>2 DEF Plus, Accounts
<1> HIDE DEF both
<1>4. MoveEntry(l, kind, n) =
        IF IsOut(l)
        THEN IF kind = "RETURN" THEN Transfer("inventory", "consigned", cost) ELSE both
        ELSE IF kind = "RETURN" THEN NoEntry ELSE Transfer("cogs", "payable", revenue)
  BY DEF MoveEntry, cost, revenue, both
<1>5. kind = "RETURN" <=> kind # "SETTLE"
  BY DEF Kind
<1> QED BY <1>2, <1>3, <1>4, <1>5 DEF cost, revenue

(* The journal adds an entry to the balances.                              *)
LEMMA Posted ==
  ASSUME TypeOK, NEW e \in [Accounts -> Int], balance' = Plus(balance, e)
  PROVE  /\ balance["consigned"] \in Int /\ balance["salesRevenue"] \in Int
         /\ balance'["consigned"] = balance["consigned"] + e["consigned"]
         /\ balance'["salesRevenue"] = balance["salesRevenue"] + e["salesRevenue"]
BY DEF TypeOK, Plus, Accounts

(* A line's rounding: the column unitCost loses half a unit a piece.       *)
LEMMA LineRounds ==
  ASSUME NEW cost \in Cost, NEW n \in Nat
  PROVE  LET u == OrZero(UnitCost(cost))
             c == OrZero(cost)
         IN /\ u \in Nat /\ c \in Nat
            /\ 2 * (Scale * (n * u) - c * n) <= Scale * n
            /\ 2 * (c * n - Scale * (n * u)) <= Scale * n
<1> DEFINE u == OrZero(UnitCost(cost))
           c == OrZero(cost)
<1>1. u \in Nat /\ c \in Nat /\ 2 * (Scale * u - c) <= Scale /\ 2 * (c - Scale * u) <= Scale
  <2>1. CASE cost = NoCost
    <3>1. u = 0 /\ c = 0 /\ Scale * 0 = 0
      BY <2>1 DEF UnitCost, OrZero
    <3> QED BY <3>1
  <2>2. CASE cost # NoCost
    <3>1. cost \in Nat
      BY <2>2 DEF Cost
    <3>2. RoundDiv(cost, Scale) \in Nat
          /\ 2 * (Scale * RoundDiv(cost, Scale) - cost) <= Scale
          /\ 2 * (cost - Scale * RoundDiv(cost, Scale)) <= Scale
      BY <3>1, RoundDivClose
    <3>3. u = RoundDiv(cost, Scale) /\ c = cost
      BY <2>2, <3>2 DEF UnitCost, OrZero, NoCost
    <3> QED BY <3>1, <3>2, <3>3
  <2> QED BY <2>1, <2>2
<1> HIDE DEF u, c
<1>2. \A x, y \in Int : x <= y => x * n <= y * n
  OBVIOUS
<1>3. Scale * u \in Int /\ Scale * u - c \in Int
  BY <1>1
<1>4. /\ (2 * (Scale * u - c)) * n <= Scale * n
      /\ (2 * (c - Scale * u)) * n <= Scale * n
  BY <1>1, <1>2, <1>3
<1>5. /\ (2 * (Scale * u - c)) * n = 2 * (Scale * (n * u) - c * n)
      /\ (2 * (c - Scale * u)) * n = 2 * (c * n - Scale * (n * u))
  BY <1>1
<1> QED BY <1>1, <1>4, <1>5 DEF u, c

-----------------------------------------------------------------------------
(* The lines of a document that is issued round by no more than a half a   *)
(* piece and a half for its entry.                                         *)
LEMMA IssueRounds ==
  ASSUME NEW d \in Documents, NEW q, q.total \in Nat, q.cost \in [Lines -> Cost],
         q.total = SumFunctionOnSet(Costs(q), LinesOf(d)),
         NEW value, \A l \in LinesOf(d) : value[l] = QuantityOf[l] * OrZero(UnitCost(q.cost[l]))
  PROVE  LET posted == IssueEntry(q.total)["consigned"]
             sum == SumFunctionOnSet(value, LinesOf(d))
             most == SumFunctionOnSet([l \in Lines |-> QuantityOf[l] + 1], LinesOf(d))
         IN /\ posted \in Int /\ sum \in Int /\ most \in Int
            /\ 2 * (posted - sum) <= most /\ 2 * (sum - posted) <= most
<1> DEFINE D == LinesOf(d)
           ask == [l \in Lines |-> QuantityOf[l] + 1]
           f == Costs(q)
           V == SumFunctionOnSet(value, D)
           T == SumFunctionOnSet(f, D)
           Q == SumFunctionOnSet(QuantityOf, D)
           M == SumFunctionOnSet(ask, D)
           R == IssueEntry(q.total)["consigned"]
<1>1. D \subseteq Lines /\ IsFiniteSet(D) /\ \E a \in Lines : a \in D
  BY GivenLines DEF LinesOf
<1>2. ASSUME NEW l \in D
      PROVE  /\ f[l] \in Int /\ value[l] \in Int /\ QuantityOf[l] \in Int /\ ask[l] \in Int
             /\ ask[l] = QuantityOf[l] + 1
             /\ 2 * (Scale * value[l] - f[l]) <= Scale * QuantityOf[l]
             /\ 2 * (f[l] - Scale * value[l]) <= Scale * QuantityOf[l]
  <2>1. l \in Lines /\ QuantityOf[l] \in Nat /\ q.cost[l] \in Cost
    BY <1>1
  <2>2. f[l] = OrZero(q.cost[l]) * QuantityOf[l]
    BY <2>1 DEF Costs
  <2>3. value[l] = QuantityOf[l] * OrZero(UnitCost(q.cost[l]))
    OBVIOUS
  <2>4. PICK n, u, c : n = QuantityOf[l] /\ u = OrZero(UnitCost(q.cost[l])) /\ c = OrZero(q.cost[l])
    OBVIOUS
  <2>5. /\ u \in Nat /\ c \in Nat /\ n \in Nat
        /\ 2 * (Scale * (n * u) - c * n) <= Scale * n
        /\ 2 * (c * n - Scale * (n * u)) <= Scale * n
    BY <2>1, <2>4, LineRounds
  <2>6. n * u \in Int /\ c * n \in Int
    BY <2>5
  <2> HIDE DEF f
  <2> QED BY <2>1, <2>2, <2>3, <2>4, <2>5, <2>6
<1>3. R \in Int /\ 2 * (Scale * R - T) <= Scale /\ 2 * (T - Scale * R) <= Scale /\ T \in Int
  <2>1. q.total = T
    OBVIOUS
  <2> QED BY <2>1, IssueAmounts
<1> HIDE DEF D, ask, f, R
<1>4. V \in Int /\ Q \in Int /\ M \in Int
  BY <1>1, <1>2, SumInt
<1>5. 2 * (Scale * V - T) <= Scale * Q /\ 2 * (T - Scale * V) <= Scale * Q
  BY <1>1, <1>2, SumsClose
<1>6. Q + 1 <= M
  <2>1. PICK a \in D : TRUE
    BY <1>1
  <2> DEFINE g == [l \in D |-> IF l = a THEN QuantityOf[l] + 1 ELSE QuantityOf[l]]
             h == [l \in D |-> QuantityOf[l]]
  <2>2. /\ \A l \in D : h[l] = QuantityOf[l] /\ h[l] \in Int /\ g[l] \in Int /\ ask[l] \in Int
                        /\ g[l] <= ask[l]
        /\ \A l \in D \ {a} : h[l] = g[l]
        /\ g[a] = h[a] + 1
    BY <1>2
  <2> HIDE DEF g, h
  <2>3. SumFunctionOnSet(h, D) = Q
    BY <1>1, <2>2, SumSame
  <2>4. \A l \in D : h[l] \in Int /\ g[l] \in Int
    BY <2>2
  <2>5. \A l \in D \ {a} : h[l] = g[l]
    BY <2>2
  <2>6. SumFunctionOnSet(g, D) = SumFunctionOnSet(h, D) + g[a] - h[a]
    BY ONLY <1>1, <2>1, <2>4, <2>5, SumChange
  <2>7. SumFunctionOnSet(g, D) = Q + 1
    BY <1>4, <2>1, <2>2, <2>3, <2>6
  <2>8. SumFunctionOnSet(g, D) <= M
    BY <1>1, <2>2, SumMonotone
  <2> QED BY <2>7, <2>8
<1> HIDE DEF V, T, Q, M
<1>7. 2 * (R - V) <= Q + 1 /\ 2 * (V - R) <= Q + 1
  <2>1. Scale * R \in Int /\ Scale * V \in Int /\ Scale * Q \in Int
    BY <1>3, <1>4
  <2>2. 2 * (Scale * R - Scale * V) <= Scale * Q + Scale
        /\ 2 * (Scale * V - Scale * R) <= Scale * Q + Scale
    BY <1>3, <1>5, <2>1
  <2>3. /\ 2 * (Scale * R - Scale * V) = Scale * (2 * (R - V))
        /\ 2 * (Scale * V - Scale * R) = Scale * (2 * (V - R))
        /\ Scale * Q + Scale = Scale * (Q + 1)
    BY <1>3, <1>4
  <2>4. \A x, y \in Int : Scale * x <= Scale * y => x <= y
    OBVIOUS
  <2>5. 2 * (R - V) \in Int /\ 2 * (V - R) \in Int /\ Q + 1 \in Int
    BY <1>3, <1>4
  <2> QED BY <2>2, <2>3, <2>4, <2>5
<1>8. 2 * (R - V) <= M /\ 2 * (V - R) <= M
  BY <1>3, <1>4, <1>6, <1>7
<1> QED BY <1>3, <1>4, <1>8 DEF D, R, V, M, ask

(* The commit of an issue posts what its lines are worth.                  *)
LEMMA CreateCommitFollow ==
  ASSUME IInv, IssueAddsUp, BooksFollowItems, NEW r \in Requests, CreateCommit(r)
  PROVE  BooksFollowItems'
<1>1. PICK d, q : d = request[r].doc /\ q = request[r]
  OBVIOUS
<1>2. /\ TypeOK /\ d \in Documents /\ q.total \in Nat /\ q.cost \in [Lines -> Cost]
      /\ AddsUp(q) /\ Debited(q) = LinesOf(d)
      /\ Given' = Given \cup LinesOf(d) /\ Given \cap LinesOf(d) = {}
      /\ \A l \in Lines : item'[l].settled = item[l].settled /\ Open(l)' = Open(l)
      /\ \A l \in Given : LineCost(l)' = LineCost(l)
      /\ \A l \in LinesOf(d) : /\ Open(l) = QuantityOf[l] /\ item[l].settled = 0
                               /\ LineCost(l)' = OrZero(UnitCost(q.cost[l]))
      /\ balance' = Plus(balance, IssueEntry(q.total))
  BY <1>1, CreateCommitBooks DEF IInv
<1> DEFINE G == Given
           D == LinesOf(d)
           rev == [l \in Lines |-> item[l].settled * PriceOf[l]]
           out == [l \in Lines |-> Open(l) * LineCost(l)]
           after == [l \in Lines |-> Open(l)' * LineCost(l)']
           ask == [l \in Lines |-> QuantityOf[l] + 1]
<1>3. G \subseteq Lines /\ IsFiniteSet(G) /\ D \subseteq Lines /\ IsFiniteSet(D) /\ G \cap D = {}
  BY <1>2, GivenLines
<1>4. /\ Revenue' = SumFunctionOnSet(rev, G \cup D)
      /\ OutValue' = SumFunctionOnSet(after, G \cup D)
      /\ Rounding' = SumFunctionOnSet(ask, G \cup D)
  <2>1. [l \in Lines |-> item'[l].settled * PriceOf[l]] = rev
    BY <1>2
  <2>2. Revenue' = SumFunctionOnSet(rev, Given')
    BY <2>1 DEF Revenue
  <2>3. OutValue' = SumFunctionOnSet(after, Given') /\ Rounding' = SumFunctionOnSet(ask, Given')
    BY DEF OutValue, Rounding
  <2> HIDE DEF rev, out, after, ask
  <2> QED BY <1>2, <2>2, <2>3
<1>5. ASSUME NEW l \in Lines
      PROVE  rev[l] \in Int /\ out[l] \in Int /\ ask[l] \in Int
  <2>1. Open(l) \in Int /\ item[l].settled \in Int /\ LineCost(l) \in Int /\ QuantityOf[l] \in Int
        /\ PriceOf[l] \in Int
    BY <1>2, Numbers
  <2>2. Open(l) * LineCost(l) \in Int /\ item[l].settled * PriceOf[l] \in Int
    BY <2>1
  <2> QED BY <2>1, <2>2
<1>6. \A l \in G : after[l] = out[l]
  BY <1>2, <1>3
<1>7. \A l \in D : /\ after[l] = QuantityOf[l] * OrZero(UnitCost(q.cost[l])) /\ rev[l] = 0
                   /\ after[l] \in Int
  <2>1. ASSUME NEW l \in D
        PROVE  /\ after[l] = QuantityOf[l] * OrZero(UnitCost(q.cost[l])) /\ rev[l] = 0
               /\ after[l] \in Int
    <3>1. l \in Lines /\ PriceOf[l] \in Int /\ QuantityOf[l] \in Nat /\ q.cost[l] \in Cost
      BY <1>2, <1>3
    <3>2. after[l] = QuantityOf[l] * OrZero(UnitCost(q.cost[l]))
      BY <1>2, <3>1
    <3>3. item[l].settled = 0 /\ 0 * PriceOf[l] = 0
      BY <1>2, <3>1
    <3>4. OrZero(UnitCost(q.cost[l])) \in Nat
      BY <3>1, LineRounds
    <3>5. QuantityOf[l] * OrZero(UnitCost(q.cost[l])) \in Int
      BY <3>1, <3>4
    <3> QED BY <3>1, <3>2, <3>3, <3>5
  <2> QED BY <2>1
<1>8. q.total = SumFunctionOnSet(Costs(q), D)
  BY <1>2 DEF AddsUp
<1>9. PICK R : R = IssueEntry(q.total)["consigned"]
  OBVIOUS
<1>10. LET V == SumFunctionOnSet(after, D)
           M == SumFunctionOnSet(ask, D)
       IN /\ R \in Int /\ V \in Int /\ M \in Int
          /\ 2 * (R - V) <= M /\ 2 * (V - R) <= M
  <2> HIDE DEF after
  <2>1. d \in Documents /\ q.total \in Nat /\ q.cost \in [Lines -> Cost]
    BY <1>2
  <2>2. q.total = SumFunctionOnSet(Costs(q), LinesOf(d))
    BY <1>8
  <2>3. \A l \in LinesOf(d) : after[l] = QuantityOf[l] * OrZero(UnitCost(q.cost[l]))
    BY <1>7
  <2>4. LET posted == IssueEntry(q.total)["consigned"]
            sum == SumFunctionOnSet(after, LinesOf(d))
            most == SumFunctionOnSet([l \in Lines |-> QuantityOf[l] + 1], LinesOf(d))
        IN /\ posted \in Int /\ sum \in Int /\ most \in Int
           /\ 2 * (posted - sum) <= most /\ 2 * (sum - posted) <= most
    BY ONLY <2>1, <2>2, <2>3, IssueRounds, ConsignmentConstants
  <2> QED BY <1>9, <2>4
<1>11. /\ balance["consigned"] \in Int /\ balance["salesRevenue"] \in Int
       /\ balance'["consigned"] = balance["consigned"] + R
       /\ balance'["salesRevenue"] = balance["salesRevenue"] + 0
  <2>1. IssueEntry(q.total) \in [Accounts -> Int] /\ IssueEntry(q.total)["salesRevenue"] = 0
    BY <1>2, EntryType, IssueAmounts
  <2> QED BY <1>2, <1>9, <2>1, Posted
<1>12. /\ Revenue = SumFunctionOnSet(rev, G)
       /\ OutValue = SumFunctionOnSet(out, G)
       /\ Rounding = SumFunctionOnSet(ask, G)
  BY DEF Revenue, OutValue, Rounding
<1> HIDE DEF G, D, rev, out, after, ask
<1>13. SumFunctionOnSet(after, G) = OutValue /\ OutValue \in Int
       /\ Revenue \in Int /\ Rounding \in Int
  <2>1. SumFunctionOnSet(after, G) = SumFunctionOnSet(out, G)
    BY <1>3, <1>6, SumSame
  <2>2. \A l \in G : rev[l] \in Int /\ out[l] \in Int /\ ask[l] \in Int
    BY <1>3, <1>5
  <2> QED BY <1>3, <1>12, <2>1, <2>2, SumInt
<1>14. Revenue' = Revenue + 0
  <2>1. \A l \in G \cup D : rev[l] \in Int
    BY <1>3, <1>5
  <2>2. SumFunctionOnSet(rev, G \cup D) = SumFunctionOnSet(rev, G) + SumFunctionOnSet(rev, D)
    BY <1>3, <2>1, SumDisjoint
  <2>3. SumFunctionOnSet(rev, D) = 0
    BY <1>3, <1>7, SumZero
  <2> QED BY <1>4, <1>12, <2>2, <2>3
<1>15. OutValue' = OutValue + SumFunctionOnSet(after, D)
  <2>1. \A l \in G \cup D : after[l] \in Int
    BY <1>3, <1>5, <1>6, <1>7
  <2>2. SumFunctionOnSet(after, G \cup D) = SumFunctionOnSet(after, G) + SumFunctionOnSet(after, D)
    BY <1>3, <2>1, SumDisjoint
  <2> QED BY <1>4, <1>13, <2>2
<1>16. Rounding' = Rounding + SumFunctionOnSet(ask, D)
  <2>1. \A l \in G \cup D : ask[l] \in Int
    BY <1>3, <1>5
  <2>2. SumFunctionOnSet(ask, G \cup D) = SumFunctionOnSet(ask, G) + SumFunctionOnSet(ask, D)
    BY <1>3, <2>1, SumDisjoint
  <2> QED BY <1>4, <1>12, <2>2
<1>17. -balance["salesRevenue"] = Revenue
       /\ -Rounding <= 2 * (balance["consigned"] - OutValue)
       /\ 2 * (balance["consigned"] - OutValue) <= Rounding
  BY DEF BooksFollowItems, Between
<1>18. -balance'["salesRevenue"] = Revenue'
  BY <1>11, <1>13, <1>14, <1>17
<1>19. -Rounding' <= 2 * (balance'["consigned"] - OutValue')
       /\ 2 * (balance'["consigned"] - OutValue') <= Rounding'
  BY <1>10, <1>11, <1>13, <1>15, <1>16, <1>17
<1> QED BY <1>18, <1>19 DEF BooksFollowItems, Between

(* The commit of a move posts what the line loses or earns.                *)
LEMMA MoveCommitFollow ==
  ASSUME IInv, BooksFollowItems, NEW r \in Requests, MoveCommit(r)
  PROVE  BooksFollowItems'
<1>1. PICK l, kind, n : l = request[r].line /\ kind = request[r].kind /\ n = request[r].qty
  OBVIOUS
<1>2. /\ TypeOK /\ l \in Lines /\ kind \in Kind /\ n \in Nat \ {0} /\ Given' = Given
      /\ IsOut(l) => l \in Given
      /\ \A m \in Lines :
           /\ LineCost(m)' = LineCost(m)
           /\ m # l => Open(m)' = Open(m) /\ item'[m].settled = item[m].settled
      /\ Open(l)' = Open(l) - n
      /\ item'[l].settled = item[l].settled + (IF kind = "SETTLE" THEN n ELSE 0)
      /\ balance' = Plus(balance, MoveEntry(l, kind, n))
  BY <1>1, MoveCommitBooks DEF IInv
<1> DEFINE G == Given
           rev == [m \in Lines |-> item[m].settled * PriceOf[m]]
           earned == [m \in Lines |-> item'[m].settled * PriceOf[m]]
           out == [m \in Lines |-> Open(m) * LineCost(m)]
           after == [m \in Lines |-> Open(m)' * LineCost(m)']
           price == IF kind = "SETTLE" THEN PriceOf[l] * n ELSE 0
           cost == LineCost(l) * n
<1>3. /\ G \subseteq Lines /\ IsFiniteSet(G) /\ (IsOut(l) <=> l \in G)
      /\ Revenue = SumFunctionOnSet(rev, G) /\ Revenue' = SumFunctionOnSet(earned, G)
      /\ OutValue = SumFunctionOnSet(out, G) /\ OutValue' = SumFunctionOnSet(after, G)
      /\ Rounding' = Rounding
  <2>1. G \subseteq Lines /\ IsFiniteSet(G) /\ (IsOut(l) <=> l \in G)
    BY <1>2, GivenLines DEF Given
  <2>2. Revenue = SumFunctionOnSet(rev, G) /\ OutValue = SumFunctionOnSet(out, G)
    BY DEF Revenue, OutValue
  <2>3. Revenue' = SumFunctionOnSet(earned, Given') /\ OutValue' = SumFunctionOnSet(after, Given')
    BY DEF Revenue, OutValue
  <2>4. Rounding' = Rounding
    BY <1>2 DEF Rounding
  <2> HIDE DEF rev, out, after, earned
  <2> QED BY <1>2, <2>1, <2>2, <2>3, <2>4
<1>4. ASSUME NEW m \in Lines
      PROVE  rev[m] \in Int /\ out[m] \in Int
  <2>1. Open(m) \in Int /\ item[m].settled \in Int /\ LineCost(m) \in Int /\ PriceOf[m] \in Int
    BY <1>2, Numbers
  <2>2. Open(m) * LineCost(m) \in Int /\ item[m].settled * PriceOf[m] \in Int
    BY <2>1
  <2> QED BY <2>1, <2>2
<1>5. \A m \in Lines \ {l} : earned[m] = rev[m] /\ after[m] = out[m]
  BY <1>2
<1>6. /\ earned[l] = rev[l] + price /\ after[l] = out[l] - cost
      /\ price \in Int /\ cost \in Int /\ rev[l] \in Int /\ out[l] \in Int
  <2>1. PICK o, s, c, u : o = Open(l) /\ s = item[l].settled /\ c = LineCost(l) /\ u = PriceOf[l]
    OBVIOUS
  <2>2. o \in Int /\ s \in Int /\ c \in Int /\ u \in Int /\ n \in Int
    BY <1>2, <2>1, Numbers
  <2>3. /\ (s + n) * u = s * u + u * n /\ (s + 0) * u = s * u + 0
        /\ (o - n) * c = o * c - c * n
        /\ s * u \in Int /\ u * n \in Int /\ o * c \in Int /\ c * n \in Int
    BY <2>2
  <2>4. /\ rev[l] = s * u /\ out[l] = o * c /\ cost = c * n
        /\ price = (IF kind = "SETTLE" THEN u * n ELSE 0)
    BY <1>2, <2>1
  <2>5. earned[l] = (s + (IF kind = "SETTLE" THEN n ELSE 0)) * u
    BY <1>2, <2>1
  <2>6. Open(l)' = o - n /\ LineCost(l)' = c
    BY <1>2, <2>1
  <2>7. after[l] = (o - n) * c
    BY <1>2, <2>6
  <2> HIDE DEF rev, earned, out, after, price, cost
  <2>8. earned[l] = rev[l] + price /\ price \in Int
    <3>1. CASE kind = "SETTLE"
      BY <2>3, <2>4, <2>5, <3>1
    <3>2. CASE kind # "SETTLE"
      BY <2>3, <2>4, <2>5, <3>2
    <3> QED BY <3>1, <3>2
  <2> QED BY <2>3, <2>4, <2>7, <2>8
<1>7. PICK e : e = MoveEntry(l, kind, n)
  OBVIOUS
<1>8. /\ e \in [Accounts -> Int]
      /\ e["consigned"] = (IF IsOut(l) THEN -cost ELSE 0)
      /\ e["salesRevenue"] = (IF IsOut(l) THEN -price ELSE 0)
  BY <1>2, <1>7, EntryType, MoveAmounts
<1>9. /\ balance["consigned"] \in Int /\ balance["salesRevenue"] \in Int
      /\ balance'["consigned"] = balance["consigned"] + e["consigned"]
      /\ balance'["salesRevenue"] = balance["salesRevenue"] + e["salesRevenue"]
  BY <1>2, <1>7, <1>8, Posted
<1> HIDE DEF G, rev, earned, out, after, price, cost
<1>10. Rounding \in Int /\ Revenue \in Int /\ OutValue \in Int
  <2>1. \A m \in G : rev[m] \in Int /\ out[m] \in Int
    BY <1>3, <1>4
  <2>2. \A m \in Given : [k \in Lines |-> QuantityOf[k] + 1][m] \in Int
    BY <1>3 DEF G
  <2>3. Rounding \in Int
    BY <1>3, <2>2, SumInt DEF Rounding, G
  <2> QED BY <1>3, <2>1, <2>3, SumInt
<1>11. CASE IsOut(l)
  <2>1. l \in G /\ IsFiniteSet(G)
    BY <1>3, <1>11
  <2>2. \A m \in G : rev[m] \in Int /\ earned[m] \in Int
    BY <1>3, <1>4, <1>5, <1>6
  <2>3. \A m \in G : out[m] \in Int /\ after[m] \in Int
    BY <1>3, <1>4, <1>5, <1>6
  <2>4. (\A m \in G \ {l} : rev[m] = earned[m]) /\ (\A m \in G \ {l} : out[m] = after[m])
    BY <1>3, <1>5
  <2>5. SumFunctionOnSet(earned, G) = SumFunctionOnSet(rev, G) + earned[l] - rev[l]
    BY ONLY <2>1, <2>2, <2>4, SumChange
  <2>6. SumFunctionOnSet(after, G) = SumFunctionOnSet(out, G) + after[l] - out[l]
    BY ONLY <2>1, <2>3, <2>4, SumChange
  <2>7. Revenue' = Revenue + price
    BY <1>3, <1>6, <1>10, <2>5
  <2>8. OutValue' = OutValue - cost
    BY <1>3, <1>6, <1>10, <2>6
  <2>9. balance'["consigned"] = balance["consigned"] - cost
        /\ balance'["salesRevenue"] = balance["salesRevenue"] - price
    BY <1>6, <1>8, <1>9, <1>11
  <2>10. -balance["salesRevenue"] = Revenue
         /\ -Rounding <= 2 * (balance["consigned"] - OutValue)
         /\ 2 * (balance["consigned"] - OutValue) <= Rounding
    BY DEF BooksFollowItems, Between
  <2>11. balance'["consigned"] - OutValue' = balance["consigned"] - OutValue
    BY <1>6, <1>9, <1>10, <2>8, <2>9
  <2>12. -balance'["salesRevenue"] = Revenue'
    BY <1>6, <1>9, <1>10, <2>7, <2>9, <2>10
  <2> QED BY <1>3, <2>10, <2>11, <2>12 DEF BooksFollowItems, Between
<1>12. CASE ~IsOut(l)
  <2>1. \A m \in G : rev[m] = earned[m] /\ out[m] = after[m]
    BY <1>3, <1>5, <1>12
  <2>2. Revenue' = Revenue
    BY <1>3, <2>1, SumSame
  <2>3. OutValue' = OutValue
    BY <1>3, <2>1, SumSame
  <2>4. balance'["consigned"] = balance["consigned"]
        /\ balance'["salesRevenue"] = balance["salesRevenue"]
    BY <1>8, <1>9, <1>12
  <2> QED BY <1>3, <2>2, <2>3, <2>4 DEF BooksFollowItems, Between
<1> QED BY <1>11, <1>12

-----------------------------------------------------------------------------
LEMMA InitBooks == Init => BooksIInv
<1> SUFFICES ASSUME Init PROVE BooksIInv
  OBVIOUS
<1>1. IssueAddsUp
  BY DEF Init, IssueAddsUp, InCreate, Idle
<1>2. Given = {} /\ \A p : GivenOf(p) = {}
  BY CellOfLine DEF Init, Given, GivenOf
<1>3. ASSUME NEW p \in Products
      PROVE  SumFunctionOnSet([w \in Warehouses |-> kardex[<<w, p>>].transferred], Warehouses)
               + SumFunctionOnSet([l \in Lines |-> Open(l) + item[l].settled], GivenOf(p)) = 0
  <2> DEFINE f == [w \in Warehouses |-> kardex[<<w, p>>].transferred]
             units == [l \in Lines |-> Open(l) + item[l].settled]
  <2>1. \A w \in Warehouses : f[w] = 0
    BY DEF Init, StockInit, EmptyKardex, Cells
  <2>2. GivenOf(p) = {}
    BY <1>2
  <2> HIDE DEF f, units
  <2>3. SumFunctionOnSet(f, Warehouses) = 0
    BY <2>1, SumZero
  <2>4. SumFunctionOnSet(units, {}) = 0
    BY SumEmpty
  <2>5. SumFunctionOnSet(units, GivenOf(p)) = 0
    BY ONLY <2>2, <2>4, Zenon
  <2>6. SumFunctionOnSet(f, Warehouses) + SumFunctionOnSet(units, GivenOf(p)) = 0
    BY <2>3, <2>5
  <2> QED BY <2>6 DEF f, units
<1>4. Revenue = 0 /\ OutValue = 0 /\ Rounding = 0
  BY <1>2, SumEmpty DEF Revenue, OutValue, Rounding
<1>5. balance["salesRevenue"] = 0 /\ balance["consigned"] = 0
  BY DEF Init, Accounts
<1>6. GoodsAreSomewhere
  BY <1>3 DEF GoodsAreSomewhere
<1>7. BooksFollowItems
  <2>1. -balance["salesRevenue"] = Revenue
    <3>1. \A x, y \in Int : x + y = 0 => -x = y
      OBVIOUS
    <3>2. balance["salesRevenue"] \in Int /\ Revenue \in Int
      BY <1>4, <1>5
    <3>3. balance["salesRevenue"] + Revenue = 0
      BY <1>4, <1>5
    <3> QED BY ONLY <3>1, <3>2, <3>3
  <2>2. -Rounding <= 2 * (balance["consigned"] - OutValue)
        /\ 2 * (balance["consigned"] - OutValue) <= Rounding
    BY <1>4, <1>5
  <2> QED BY <2>1, <2>2 DEF BooksFollowItems, Between
<1> QED BY <1>1, <1>6, <1>7 DEF BooksIInv

(* The steps of the shelves move no goods of a consignment.                *)
LEMMA ShelfStepStays ==
  ASSUME IInv, NEW c \in Cells, NEW qty, NEW reason, NEW cost,
         reason \notin {"TRANSFER_IN", "TRANSFER_OUT"}, ApplyStockDelta(c, qty, reason, cost)
  PROVE  \A e \in Cells : kardex'[e].transferred = kardex[e].transferred
<1>1. kardex \in [Cells -> Kardex]
  BY DEF IInv, TypeOK, StockTypeOK
<1>2. PICK b : kardex' = [kardex EXCEPT ![c] = Record(@, qty, b, reason)]
  BY DEF ApplyStockDelta
<1>3. Record(kardex[c], qty, b, reason).transferred = kardex[c].transferred
  BY DEF Record, IsTransfer
<1> QED BY <1>1, <1>2, <1>3

LEMMA NextBooks == IInv /\ BooksIInv /\ [Next]_vars => BooksIInv'
<1> SUFFICES ASSUME IInv, BooksIInv, [Next]_vars PROVE BooksIInv'
  OBVIOUS
<1>1. IssueAddsUp /\ GoodsAreSomewhere /\ BooksFollowItems
  BY DEF BooksIInv
<1>2. IssueAddsUp'
  BY <1>1, NextIssueAddsUp
<1>3. CASE UNCHANGED vars
  <2>1. Given' = Given /\ UNCHANGED <<item, balance, kardex>>
    BY <1>3 DEF vars, Given
  <2> QED BY <1>1, <1>2, <2>1, BooksStay DEF BooksIInv
<1>4. ASSUME NEW c \in Cells, NEW qty \in 1..MaxQty,
             IssueSale(c, qty) \/ \E cost \in UnitCosts \cup {NoCost} : ReceiveGoods(c, qty, cost)
      PROVE  BooksIInv'
  <2>1. \E delta, reason, cost : /\ reason \notin {"TRANSFER_IN", "TRANSFER_OUT"}
                                 /\ ApplyStockDelta(c, delta, reason, cost)
    <3>1. CASE IssueSale(c, qty)
      BY <3>1 DEF IssueSale
    <3>2. CASE \E cost \in UnitCosts \cup {NoCost} : ReceiveGoods(c, qty, cost)
      BY <3>2 DEF ReceiveGoods
    <3> QED BY <1>4, <3>1, <3>2
  <2>2. \A e \in Cells : kardex'[e].transferred = kardex[e].transferred
    BY <2>1, ShelfStepStays
  <2>3. UNCHANGED <<consignment, item, balance>>
    BY <1>4 DEF IssueSale, ReceiveGoods
  <2>4. Given' = Given
    BY <2>3 DEF Given
  <2> QED BY <1>1, <1>2, <2>2, <2>3, <2>4, BooksStay DEF BooksIInv
<1>5. ASSUME NEW d \in Documents, CreateIn(d) PROVE BooksIInv'
  <2>1. Direction[d] # "OUT" /\ consignment' = [consignment EXCEPT ![d] = "OPEN"]
        /\ UNCHANGED <<item, balance, kardex>> /\ TypeOK
    BY <1>5 DEF CreateIn, IInv
  <2>2. Given' = Given
    BY <2>1, CellOfLine DEF Given, IsOut, TypeOK
  <2> QED BY <1>1, <1>2, <2>1, <2>2, BooksStay DEF BooksIInv
<1>6. ASSUME NEW r \in Requests, LocalStep(r) PROVE BooksIInv'
  <2>1. UNCHANGED <<kardex, consignment, item, balance>>
    BY <1>6, LocalStepIsLocal DEF IInv
  <2>2. Given' = Given
    BY <2>1 DEF Given
  <2> QED BY <1>1, <1>2, <2>1, <2>2, BooksStay DEF BooksIInv
<1>7. ASSUME NEW r \in Requests, CreateCommit(r) PROVE BooksIInv'
  BY <1>1, <1>2, <1>7, CreateCommitGoods, CreateCommitFollow DEF BooksIInv
<1>8. ASSUME NEW r \in Requests, MoveCommit(r) PROVE BooksIInv'
  BY <1>1, <1>2, <1>8, MoveCommitGoods, MoveCommitFollow DEF BooksIInv
<1> QED BY <1>3, <1>4, <1>5, <1>6, <1>7, <1>8, Steps

LEMMA BooksInvariant == Spec => []BooksIInv
BY InitBooks, NextBooks, Invariant, PTL DEF Spec

(* No unit is lost or made by giving goods on consignment: what the        *)
(* shelves have sent out and not got back is open or settled at a customer.*)
THEOREM GoodsAreAlwaysSomewhere == Spec => []GoodsAreSomewhere
<1>1. BooksIInv => GoodsAreSomewhere
  BY DEF BooksIInv
<1> QED
  BY BooksInvariant, <1>1, PTL

(* Account 1108 stays within rounding of the open goods at the cost they   *)
(* left with, and revenue is what customers settled, for any prices and    *)
(* costs and however the requests interleave.                              *)
THEOREM BooksAlwaysFollowItems == Spec => []BooksFollowItems
<1>1. BooksIInv => BooksFollowItems
  BY DEF BooksIInv
<1> QED
  BY BooksInvariant, <1>1, PTL
=============================================================================
