---------------------------- MODULE Consignment ----------------------------
(***************************************************************************)
(* ConsignmentService: goods given to a customer who has not bought them   *)
(* (OUT) and goods of a supplier kept here (IN), line by line settled or   *)
(* brought back.                                                           *)
(*                                                                         *)
(* A request is one transaction; what it has not committed is held in      *)
(* request.  Three things make others wait for it: the shelf it has taken  *)
(* goods from (Stock), the row of the line it moves, and the number of its *)
(* journal entry, which is the next one for everybody until it commits.    *)
(* The reads of avgCost and of the other lines of a document wait for      *)
(* nothing.                                                                *)
(*                                                                         *)
(* Data abstraction: a document and its lines are constants (what the form *)
(* says); a quantity is an integer; an amount is an integer number of the  *)
(* two decimals that unitCost and the journal keep, and Scale of the units *)
(* of avgCost make one of it.  A request that loses the race for a docNo   *)
(* or an entryNo is an Abort.                                              *)
(***************************************************************************)
EXTENDS Stock, FiniteSetsExt

CONSTANTS Documents, Lines, Requests,
          DocumentOf,  \* [Lines -> Documents]
          ProductOf,   \* [Lines -> Products]
          QuantityOf,  \* [Lines -> quantity of the line]
          PriceOf,     \* [Lines -> unitPrice]
          Direction,   \* [Documents -> {"OUT", "IN"}]
          WarehouseOf, \* [Documents -> Warehouses]
          Scale,       \* units of avgCost in one unit of an amount
          UnitCosts,   \* costs that purchases are received at
          MaxQty       \* bound: no purchase fills a shelf beyond it

ASSUME ConsignmentConstants ==
  /\ DocumentOf \in [Lines -> Documents]
  /\ \A d \in Documents : \E l \in Lines : DocumentOf[l] = d
  /\ ProductOf \in [Lines -> Products]
  /\ QuantityOf \in [Lines -> Nat \ {0}]
  /\ PriceOf \in [Lines -> Nat]
  /\ Direction \in [Documents -> {"OUT", "IN"}]
  /\ WarehouseOf \in [Documents -> Warehouses]
  /\ Scale \in Nat \ {0}
  /\ UnitCosts \subseteq Nat
  /\ MaxQty \in Nat
  /\ IsFiniteSet(Lines) /\ IsFiniteSet(Warehouses)

VARIABLES consignment, \* [Documents -> status]
          item,        \* [Lines -> the ConsignmentItem row]
          balance,     \* [Accounts -> debit minus credit of the accounts posted to]
          request      \* [Requests -> a request and its locals]

vars == <<inventory, kardex, consignment, item, balance, request>>

Accounts == {"consigned", "inventory", "receivable", "salesRevenue", "cogs", "payable"}

Item == [unitCost : Cost, settled : Nat, returned : Nat]

Kind == {"SETTLE", "RETURN"}

Idle == [pc |-> "idle"]

Creating == [pc : {"creating", "written"}, doc : Documents, todo : SUBSET Lines,
             taken : [Cells -> Nat], total : Nat, cost : [Lines -> Cost]]

Costed == [pc : {"costed"}, doc : Documents, todo : SUBSET Lines,
           taken : [Cells -> Nat], total : Nat, cost : [Lines -> Cost], line : Lines]

Moving == [pc : {"locked"}, line : Lines, kind : Kind, qty : Nat \ {0}]
          \cup [pc : {"moved"}, line : Lines, kind : Kind, qty : Nat \ {0}, closing : BOOLEAN]

LinesOf(d) == {l \in Lines : DocumentOf[l] = d}

CellOf(l) == <<WarehouseOf[DocumentOf[l]], ProductOf[l]>>

IsOut(l) == Direction[DocumentOf[l]] = "OUT"

\* What is neither settled nor back.
Open(l) == QuantityOf[l] - item[l].settled - item[l].returned

TypeOK ==
  /\ StockTypeOK
  /\ consignment \in [Documents -> {"NONE", "OPEN", "CLOSED"}]
  /\ item \in [Lines -> Item]
  /\ balance \in [Accounts -> Int]
  /\ request \in [Requests -> Creating \cup Costed \cup Moving \cup {Idle}]

Init ==
  /\ StockInit
  /\ consignment = [d \in Documents |-> "NONE"]
  /\ item = [l \in Lines |-> [unitCost |-> NoCost, settled |-> 0, returned |-> 0]]
  /\ balance = [a \in Accounts |-> 0]
  /\ request = [r \in Requests |-> Idle]
-----------------------------------------------------------------------------
NoEntry == [a \in Accounts |-> 0]

\* The two lines of an entry that moves an amount between two accounts.
Transfer(debit, credit, amount) ==
  [NoEntry EXCEPT ![debit] = amount, ![credit] = -amount]

Plus(e, f) == [a \in Accounts |-> e[a] + f[a]]

OrZero(cost) == IF cost = NoCost THEN 0 ELSE cost

\* The entry of an issue, none up to half a unit of an amount; the journal
\* rounds totalCost.
IssueEntry(totalCost) ==
  IF 2 * totalCost > Scale
    THEN Transfer("consigned", "inventory", RoundDiv(totalCost, Scale))
    ELSE NoEntry

\* Mutant: a line is moved at what its product costs now.
LineCostNow(l) == RoundDiv(OrZero(inventory[CellOf(l)].avgCost), Scale)

\* The cost that was locked when the goods left.
LineCost(l) == OrZero(item[l].unitCost)

\* The entry of a settlement or a return; goods of others leave no trace but a debt.
MoveEntry(l, kind, qty) ==
  LET cost == LineCost(l) * qty
      revenue == PriceOf[l] * qty
  IN IF IsOut(l)
     THEN IF kind = "RETURN" THEN Transfer("inventory", "consigned", cost)
          ELSE Plus(Transfer("receivable", "salesRevenue", revenue),
                    Transfer("cogs", "consigned", cost))
     ELSE IF kind = "RETURN" THEN NoEntry
          ELSE Transfer("cogs", "payable", revenue)

\* postIn refuses a line both of whose sides are zero: goods without a price.
Unpriced(l, kind, qty) ==
  IsOut(l) /\ kind = "SETTLE" /\ PriceOf[l] = 0 /\ LineCost(l) * qty > 0

\* Mutant: goods of a supplier go to the shelf as well.
ToShelfAnyDirection(l, kind) == kind = "RETURN"

ToShelf(l, kind) == IsOut(l) /\ kind = "RETURN"
-----------------------------------------------------------------------------
\* The request has updated the shelf, which stays locked until it ends.
Holds(x, c) ==
  \/ /\ request[x].pc \in {"creating", "costed", "written"}
     /\ request[x].taken[c] > 0
  \/ /\ request[x].pc = "moved"
     /\ ToShelf(request[x].line, request[x].kind) /\ CellOf(request[x].line) = c

ShelfFree(r, c) == \A x \in Requests \ {r} : ~Holds(x, c)

\* The request has inserted a journal entry and not committed.
Posting(x) ==
  \/ /\ request[x].pc = "written"
     /\ IssueEntry(request[x].total) # NoEntry
  \/ /\ request[x].pc = "moved"
     /\ MoveEntry(request[x].line, request[x].kind, request[x].qty) # NoEntry

\* Mutant: the numbers of entries come from a sequence.
JournalFreeAlways(r) == TRUE

\* Everybody reads the same next entryNo, and its unique key lets one insert it.
JournalFree(r) == \A x \in Requests \ {r} : ~Posting(x)

\* FOR UPDATE OF i
LineFree(r, l) ==
  \A x \in Requests \ {r} : request[x].pc \in {"locked", "moved"} => request[x].line # l

Post(entry) == balance' = Plus(balance, entry)

Done(r) == request' = [request EXCEPT ![r] = Idle]

-----------------------------------------------------------------------------
(* A purchase received at its landed cost, or a manual adjustment, which   *)
(* has none; and a sale: on a shelf nobody has locked.                     *)
ReceiveGoods(c, qty, cost) ==
  /\ inventory[c].quantity + qty <= MaxQty
  /\ \A x \in Requests : ~Holds(x, c)
  /\ ApplyStockDelta(c, qty, IF cost = NoCost THEN "ADJUST" ELSE "PURCHASE", cost)
  /\ UNCHANGED <<consignment, item, balance, request>>

IssueSale(c, qty) ==
  /\ \A x \in Requests : ~Holds(x, c)
  /\ ApplyStockDelta(c, -qty, "SALE", NoCost)
  /\ UNCHANGED <<consignment, item, balance, request>>

(* create of goods taken in: the document and its lines, nothing else.     *)
CreateIn(d) ==
  /\ consignment[d] = "NONE" /\ Direction[d] = "IN"
  /\ consignment' = [consignment EXCEPT ![d] = "OPEN"]
  /\ UNCHANGED <<inventory, kardex, item, balance, request>>

InCreate(x) == request[x].pc \in {"creating", "costed", "written"}

(* create of goods given out, item by item: the cost is read without a     *)
(* lock, then the shelf is debited.                                        *)
CreateOut(r, d) ==
  /\ request[r] = Idle /\ consignment[d] = "NONE" /\ Direction[d] = "OUT"
  /\ \A x \in Requests : InCreate(x) => request[x].doc # d
  /\ request' = [request EXCEPT ![r] =
       [pc |-> "creating", doc |-> d, todo |-> LinesOf(d), taken |-> [c \in Cells |-> 0],
        total |-> 0, cost |-> [l \in Lines |-> NoCost]]]
  /\ UNCHANGED <<inventory, kardex, consignment, item, balance>>

ReadCost(r, l) ==
  LET q == request[r] IN
  /\ q.pc = "creating" /\ l \in q.todo
  /\ request' = [request EXCEPT ![r] =
       [pc |-> "costed", doc |-> q.doc, todo |-> q.todo \ {l}, taken |-> q.taken,
        total |-> q.total, cost |-> [q.cost EXCEPT ![l] = inventory[CellOf(l)].avgCost],
        line |-> l]]
  /\ UNCHANGED <<inventory, kardex, consignment, item, balance>>

Debit(r) ==
  LET q == request[r]
      c == CellOf(q.line)
      qty == QuantityOf[q.line]
  IN /\ q.pc = "costed" /\ ShelfFree(r, c)
     /\ IF CanApply(inventory[c], -(q.taken[c] + qty))
        THEN request' = [request EXCEPT ![r] =
               [pc |-> "creating", doc |-> q.doc, todo |-> q.todo,
                taken |-> [q.taken EXCEPT ![c] = @ + qty],
                total |-> q.total + OrZero(q.cost[q.line]) * qty, cost |-> q.cost]]
        ELSE Done(r)
     /\ UNCHANGED <<inventory, kardex, consignment, item, balance>>

CreatePost(r) ==
  LET q == request[r] IN
  /\ q.pc = "creating" /\ q.todo = {}
  /\ IssueEntry(q.total) # NoEntry => JournalFree(r)
  /\ request' = [request EXCEPT ![r] = [q EXCEPT !.pc = "written"]]
  /\ UNCHANGED <<inventory, kardex, consignment, item, balance>>

\* The column unitCost keeps two decimals.
UnitCost(cost) == IF cost = NoCost THEN NoCost ELSE RoundDiv(cost, Scale)

(* The commit.                                                             *)
CreateCommit(r) ==
  LET q == request[r] IN
  /\ q.pc = "written"
  /\ inventory' = [c \in Cells |->
       IF q.taken[c] > 0 THEN ApplyDelta(inventory[c], -q.taken[c], NoCost) ELSE inventory[c]]
  /\ kardex' = [c \in Cells |->
       Record(kardex[c], -q.taken[c], inventory[c].quantity - q.taken[c], "TRANSFER_OUT")]
  /\ consignment' = [consignment EXCEPT ![q.doc] = "OPEN"]
  /\ item' = [l \in Lines |->
       IF l \in LinesOf(q.doc) THEN [item[l] EXCEPT !.unitCost = UnitCost(q.cost[l])]
       ELSE item[l]]
  /\ Post(IssueEntry(q.total))
  /\ Done(r)
-----------------------------------------------------------------------------
(* settle and returnItem (move), up to the check of the open quantity.     *)
MoveLock(r, l, kind, qty) ==
  /\ request[r] = Idle /\ consignment[DocumentOf[l]] # "NONE"
  /\ LineFree(r, l) /\ qty <= Open(l)
  /\ request' = [request EXCEPT ![r] = [pc |-> "locked", line |-> l, kind |-> kind, qty |-> qty]]
  /\ UNCHANGED <<inventory, kardex, consignment, item, balance>>

\* Mutant: only the line itself is looked at.
NothingOpenOfLine(l, qty) == Open(l) = qty

\* NOT EXISTS an open line: the committed ones, and its own after the move.
NothingOpen(l, qty) ==
  /\ Open(l) = qty
  /\ \A m \in LinesOf(DocumentOf[l]) \ {l} : Open(m) = 0

(* ... the stock, the entry and the look at the other lines.               *)
MoveWork(r) ==
  LET q == request[r] IN
  /\ q.pc = "locked" /\ ~Unpriced(q.line, q.kind, q.qty)
  /\ ToShelf(q.line, q.kind) => ShelfFree(r, CellOf(q.line))
  /\ MoveEntry(q.line, q.kind, q.qty) # NoEntry => JournalFree(r)
  /\ request' = [request EXCEPT ![r] =
       [pc |-> "moved", line |-> q.line, kind |-> q.kind, qty |-> q.qty,
        closing |-> NothingOpen(q.line, q.qty)]]
  /\ UNCHANGED <<inventory, kardex, consignment, item, balance>>

MoveRefused(r) ==
  /\ request[r].pc = "locked" /\ Unpriced(request[r].line, request[r].kind, request[r].qty)
  /\ Done(r)
  /\ UNCHANGED <<inventory, kardex, consignment, item, balance>>

\* The UPDATE of the line: what is moved is settled or returned.
Moved(row, kind, qty) ==
  IF kind = "SETTLE" THEN [row EXCEPT !.settled = @ + qty]
  ELSE [row EXCEPT !.returned = @ + qty]

(* ... and the commit; goods come back with the cost they left with.       *)
MoveCommit(r) ==
  LET q == request[r]
      l == q.line
      back == IF item[l].unitCost = NoCost THEN NoCost ELSE item[l].unitCost * Scale
  IN /\ q.pc = "moved"
     /\ IF ToShelf(l, q.kind)
        THEN ApplyStockDelta(CellOf(l), q.qty, "TRANSFER_IN", back)
        ELSE UNCHANGED stockVars
     /\ item' = [item EXCEPT ![l] = Moved(@, q.kind, q.qty)]
     /\ Post(MoveEntry(l, q.kind, q.qty))
     /\ consignment' = IF q.closing THEN [consignment EXCEPT ![DocumentOf[l]] = "CLOSED"]
                       ELSE consignment
     /\ Done(r)

(* A lost number, a deadlock the database ends, a lost connection.         *)
Abort(r) ==
  /\ request[r] # Idle
  /\ Done(r)
  /\ UNCHANGED <<inventory, kardex, consignment, item, balance>>

Step(r) ==
  \/ \E d \in Documents : CreateOut(r, d)
  \/ \E l \in Lines : ReadCost(r, l)
  \/ Debit(r) \/ CreatePost(r) \/ CreateCommit(r)
  \/ \E l \in Lines, kind \in Kind : \E qty \in 1..QuantityOf[l] : MoveLock(r, l, kind, qty)
  \/ MoveWork(r) \/ MoveRefused(r) \/ MoveCommit(r) \/ Abort(r)

Next ==
  \/ \E c \in Cells, qty \in 1..MaxQty :
       \/ \E cost \in UnitCosts \cup {NoCost} : ReceiveGoods(c, qty, cost)
       \/ IssueSale(c, qty)
  \/ \E d \in Documents : CreateIn(d)
  \/ \E r \in Requests : Step(r)

Spec == Init /\ [][Next]_vars
-----------------------------------------------------------------------------
\* The lines given out: of documents that exist.
Given == {l \in Lines : IsOut(l) /\ consignment[DocumentOf[l]] # "NONE"}

GivenOf(p) == {l \in Given : ProductOf[l] = p}

(* Giving goods on consignment neither loses nor makes any: what the       *)
(* shelves gave by TRANSFER_OUT and have not got back by TRANSFER_IN is at *)
(* the customers or sold by them, and goods of others reach no shelf.      *)
GoodsAreSomewhere ==
  \A p \in Products :
    SumFunctionOnSet([w \in Warehouses |-> kardex[<<w, p>>].transferred], Warehouses)
      + SumFunctionOnSet([l \in Lines |-> Open(l) + item[l].settled], GivenOf(p)) = 0

\* openReport's outValue.
OutValue == SumFunctionOnSet([l \in Lines |-> Open(l) * LineCost(l)], Given)

Revenue == SumFunctionOnSet([l \in Lines |-> item[l].settled * PriceOf[l]], Given)

\* What rounding may cost, in halves: one for every piece given and every document's entry.
Rounding == SumFunctionOnSet([l \in Lines |-> QuantityOf[l] + 1], Given)

Between(x, lo, hi) == lo <= x /\ x <= hi

(* Consignment is no sale: revenue is what customers have settled and      *)
(* nothing else, however lines are moved and documents issued meanwhile;   *)
(* and account 1108 is the value of the open goods up to half a unit per   *)
(* piece and document, what unitCost and the journal may round away when   *)
(* the goods leave (openReport says it is that value: see ReportIs1108).   *)
BooksFollowItems ==
  /\ -balance["salesRevenue"] = Revenue
  /\ Between(2 * (balance["consigned"] - OutValue), -Rounding, Rounding)

(* A closed document has nothing left at the other party, although each    *)
(* move looks at lines that other requests are moving.                     *)
ClosedHasNothingOpen ==
  \A d \in Documents : consignment[d] = "CLOSED" => \A l \in LinesOf(d) : Open(l) = 0

\* Every move of the document posts: its goods had a cost.
EveryMovePosts(d) == Direction[d] = "OUT" /\ \A l \in LinesOf(d) : LineCost(l) > 0

(* A document of goods with a cost is closed by the move that leaves       *)
(* nothing open, even when its last lines are moved at once: two moves do  *)
(* not see each other's lines, but both post, and the number of their      *)
(* entries lets only one at a time look.                                   *)
LastMoveCloses ==
  \A d \in Documents :
    consignment[d] = "OPEN" /\ EveryMovePosts(d) => \E l \in LinesOf(d) : Open(l) > 0

(* move closes a document when nothing is left, of any document; returns   *)
(* to a supplier and of goods without a cost post nothing and two of them  *)
(* miss each other.                                                        *)
NothingLeftIsClosed ==
  \A d \in Documents : consignment[d] = "OPEN" => \E l \in LinesOf(d) : Open(l) > 0

(* openReport: outValue is the balance of account 1108.                    *)
ReportIs1108 == balance["consigned"] = OutValue
-----------------------------------------------------------------------------
(* The inductive invariant behind ClosedHasNothingOpen and LastMoveCloses: *)
(* what a request has read is still true of what others may change.        *)

\* Nothing has happened to the lines of a document that is being written.
NewDocuments ==
  /\ \A l \in Lines : consignment[DocumentOf[l]] = "NONE" =>
       item[l].settled = 0 /\ item[l].returned = 0
  /\ \A x \in Requests : InCreate(x) =>
       consignment[request[x].doc] = "NONE" /\ Direction[request[x].doc] = "OUT"
  /\ \A x, y \in Requests :
       InCreate(x) /\ InCreate(y) /\ request[x].doc = request[y].doc => x = y

\* A shelf is locked by one request and holds what that one takes.
TakenIsThere ==
  /\ \A x, y \in Requests, c \in Cells : Holds(x, c) /\ Holds(y, c) => x = y
  /\ \A x \in Requests, c \in Cells :
       InCreate(x) => request[x].taken[c] <= inventory[c].quantity

InMove(x) == request[x].pc \in {"locked", "moved"}

\* A line is moved by one request, by no more than is open.
MovedIsOpen ==
  /\ \A l \in Lines : Open(l) >= 0
  /\ \A x, y \in Requests :
       InMove(x) /\ InMove(y) /\ request[x].line = request[y].line => x = y
  /\ \A x \in Requests : InMove(x) =>
       /\ consignment[DocumentOf[request[x].line]] # "NONE"
       /\ request[x].qty <= Open(request[x].line)

OnePosting == \A x, y \in Requests : Posting(x) /\ Posting(y) => x = y

\* What a move that is about to commit thinks of its document.
ClosingIsRight ==
  \A x \in Requests : request[x].pc = "moved" =>
    LET q == request[x] IN
    /\ q.closing => NothingOpen(q.line, q.qty)
    /\ ~q.closing /\ EveryMovePosts(DocumentOf[q.line]) => ~NothingOpen(q.line, q.qty)

IInv ==
  /\ TypeOK /\ AbsentRowIsEmpty /\ KardexExplainsStock
  /\ NewDocuments /\ TakenIsThere /\ MovedIsOpen /\ OnePosting /\ ClosingIsRight
  /\ ClosedHasNothingOpen /\ LastMoveCloses

(* ... and behind GoodsAreSomewhere and BooksFollowItems: an issue that has *)
(* not committed has taken what the lines it is through with ask for, and   *)
(* counted what they cost.                                                  *)
Debited(q) == LinesOf(q.doc) \ (q.todo \cup IF q.pc = "costed" THEN {q.line} ELSE {})

Costs(q) == [l \in Lines |-> OrZero(q.cost[l]) * QuantityOf[l]]

AddsUp(q) ==
  /\ q.todo \subseteq LinesOf(q.doc)
  /\ q.pc = "costed" => q.line \in LinesOf(q.doc) \ q.todo
  /\ q.pc = "written" => q.todo = {}
  /\ \A c \in Cells :
       q.taken[c] = SumFunctionOnSet(QuantityOf, {l \in Debited(q) : CellOf(l) = c})
  /\ q.total = SumFunctionOnSet(Costs(q), Debited(q))

IssueAddsUp == \A x \in Requests : InCreate(x) => AddsUp(request[x])

BooksIInv == IssueAddsUp /\ GoodsAreSomewhere /\ BooksFollowItems
=============================================================================
