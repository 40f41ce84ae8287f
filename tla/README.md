# Molido: specifications, model checks and proofs

TLA+ specifications of the parts of Molido (a multi-tenant shop, restaurant and accounting system: NestJS and
PostgreSQL in `backend/`, Next.js in `web/`) in which several people or machines work on the same money and the same
goods. Every definition is translated from the source at the lines `PROJECT.json` names for it; paths without a
directory below are under `src/backend/src/`.

Contents: [the system](#the-system), [the plan](#the-plan), [modules](#modules), [runs](#runs),
[bounds](#bounds), [fairness](#fairness), [assumptions](#assumptions), [proofs](#proofs),
[disagreements](#disagreements), [not modelled](#not-modelled).

    tlc -workers 2 -config MC_Sales.cfg MC_Sales.tla     # a run
    tlapm Purchases_proofs.tla                           # the proofs of a module

## The system

One NestJS process serves all tenants; all shared state is in PostgreSQL. A service method is an HTTP handler that runs
statements one at a time, some of them inside `DatabaseService.transaction` (READ COMMITTED, no retries:
`database/database.service.ts:99-115`). Two requests interleave at every statement, and what keeps them apart is only
what the code asks for: `FOR UPDATE`, a condition in the `WHERE` of an `UPDATE`, a unique index, a foreign key's share
lock. Reads before the transaction are not protected by anything. This is the hard part of the system, and the grain
of the models: **a model splits an operation exactly where it reads something it uses later without holding a lock on
it**, and keeps it whole otherwise.

| Component | State it keeps | Operations | What is hard | What makes it correct |
|---|---|---|---|---|
| Inventory (`inventory/inventory.service.ts`) | a row per warehouse and product: quantity, average cost; the movements (kardex) | adjust, transfer, and `applyStockDelta` for sales, purchases, returns, counts | races for the last unit; a cost read before the debit; rounding of averages | the kardex explains every quantity; transfers conserve goods; an average stays within what was paid |
| General ledger (`accounting/posting.service.ts`, `ledger.service.ts`, migration 007) | journal entries, running account balances, fiscal years | post, reverse, reverse by source, close and open years | max+1 numbering, reversals without locks, closing a year while entries are uncommitted | one live entry per source; reversals mirror; balances follow the journal; nothing after the closing |
| Sales, payments, sale returns (`sales/`, `payments/`, `returns/`) | invoice, tenders, payments, installments, drawers, accounts 1101 and 1103 | create, collect, split, pay an installment, cancel, return | three services undo and extend each other's work under different locks | never overpaid at the counter; receivables are the debt; drawers hold their payments |
| Online payment (`payment/`, `shop/shop.service.ts`) | an order's payment status and reference; payments at the gateway | start, verify, confirm, set status | a slow, lossy gateway between a read and an unconditional write | what is shown as paid has been captured |
| Stock counting (`inventory/stock-count.service.ts`, `web/lib/offline-queue.ts`, `web/app/count/[id]/page.tsx`) | a count with its lines; the browser's queue | open, count, apply, cancel; save, enqueue, flush | sales go on; answers get lost; flushes overlap; a page is closed | an applied count corrects what is missing, in the order the worker counted; the queue empties |
| Purchase invoices (`purchases/purchases.service.ts`, migration 045) | invoices, idempotency keys | create, receive, cancel | create is five commits; clients repeat it; the server may stop | one answer per form; goods come in once; keys settle |
| Restaurant, guest orders, cashier shifts (`restaurant/restaurant.service.ts`, `self-order/`, `retail/cashier-shift.service.ts`) | orders with their dishes and totals, tables, ingredients, shifts | create, add, remove, send, cook, settle, cancel; open, count and close a shift | every handler reads the order before its transaction; totals are recomputed in two statements | the drawer holds what was posted; an occupied table is explained; no shift expects more than its drawer got |
| Budget (`budget/`, migration 051) | budget lines with running totals, commitments | commit, settle, release, allocate, create and delete lines | limits under concurrent requests, of which one does not lock | the book of commitments explains the totals; no line over its approval |
| Treasury and reconciliation (`treasury/`, `revenue/`, migration 076) | accounts with a balance, their transactions, receipts; statements of the bank with their lines | move, transfer, collect; create, add lines, match, match by machine, record, unmatch, complete | balances beside rows; matches by hand and by machine at once; a difference made of three reads | balances are explained; a transaction closes one line; the difference is that of the statement |
| Sales chain (`sales-orders/`, migration 009) | quotations, orders with shipped quantities, shipments | convert, ship, invoice, cancel | a status computed from items others may be changing; three transactions to invoice | the status follows the shipments; never shipped more than ordered; an invoiced order keeps its sale |
| Consignment (`inventory/consignment.service.ts`, migration 081) | documents of goods given out or taken in, their lines with cost, settled and returned quantity | create, settle, return | moves of one document look at lines others are moving; costs read without a lock and rounded twice | goods and revenue follow the lines; a document closes when, and only when, nothing is left |
| Parked sales, purchasing, cheques, petty cash | baskets, requests and quotes, cheque status, a fund | park, approve, clear, spend | status changes of one row | see [not modelled](#not-modelled) |
| Auth (`auth/`) | sessions, lock-outs, codes | login, refresh, revoke | clocks; counters outside transactions | a revoked session stays revoked |
| Everything else | see [not modelled](#not-modelled) | | | |

How they interact: a sale takes stock through `applyStockDelta`, posts its entries with `postIn` and fills drawers, all
in its own transaction; cancel calls `reverseBySourceIn`. A purchase posts and brings goods in when it is received. A
count applies its differences to the same stock rows. The shop's confirmed order becomes a sales order, which the sales
chain ships and turns into a sale. A settled restaurant order posts, takes ingredients and belongs to a cashier's shift. So the inventory row, the journal and the drawers are the shared state of the system, and
they were modelled first.

## The plan

Order: the shared tables first, then the services that write them, then what surrounds those.

1. *done* `Stock` and `Inventory` (the row, its kardex, its cost); 2. *done* `GeneralLedger`; 3. *done* `Sales`
   (payments, installments, returns, over stock, drawers and two accounts); 4. *done* `OnlineOrder`; 5. *done*
   `StockCount` (server, page and queue); 6. *done* `Purchases`.
7. *done* `Restaurant` (with the guest's orders and the cashier's shifts); 8. *done* `Commitments` over the abstract
   `CreditBook`, with its refinement; 9. *done* `Treasury` with the reconciliation; 10. *done* `SalesChain`;
   11. *done* `Consignment` over `Stock`.
12. `Purchasing`: requests, quotes and orders, with the numbering of `SalesChain`; parked sales; cheques.
13. `LandedCost` (the shares of the freight, `accounting/posting-rules.ts:833-858`, as a function checked against exact
   proportions); the online payment of guest orders and site bookings as instances of `OnlineOrder`; sessions of `auth`.

Abstract specifications: `CreditBook` and `SerialLedger` are stated, and `Commitments` and `GeneralLedger` are checked and
proved to implement them. Worth stating next: an *exactly-once register* (a form is absent, in progress or answered,
once) that `Purchases` implements up to restarts; a *last-writer register* per product that the offline queue
implements while no number is saved directly.

Theorems worth proving next: the refinements above; `EveryRecordLeaves` and `KeyIsSettled` stay with TLC.

## Modules

| Module | Models | State and actions against the code |
|---|---|---|
| `StockRow` | what `applyStockDelta` computes | the conditional `UPDATE`, the weighted average and the movement row, as operators on values |
| `Stock` | `applyStockDelta` on the tables | `inventory` is the `Inventory` table, `kardex` the `StockMovement` rows of a cell as two sums and a last balance; `ApplyStockDelta` is the statement, which applies `StockRow` to a cell of both |
| `Inventory` | `InventoryService` over `Stock` | `TransferRead` is the plain `SELECT` of the cost, the rest of the transfer is the transaction; `ReceivePurchase` and `IssueSale` are what the other services do to the row; `paid` is history |
| `GeneralLedger` | `PostingService`, `LedgerService`, migration 007 | `tx` is a database transaction: *ready* has read, *inserted* has inserted and blocks the indexes and the year's row, then commit or rollback; `journal` holds committed entries only |
| `Sales` | `SalesService`, `PaymentsService`, `ReturnsService` | every operation split at its unlocked reads; the row locks are `SaleFree`, `SaleShareable`, `InstallmentFree`, `BoxFree` |
| `OnlineOrder` | `PaymentService`, `ZarinpalGateway`, the back office of `ShopService` | a request is read, gateway call, write; the gateway is external |
| `StockCount` | `StockCountService`, the counting page, the offline queue | `apply` is read and post in one locked transaction; the page and a flush stop at every `await` |
| `Restaurant` | `RestaurantService`, `SelfOrderService`, `CashierShiftService` | a request is a handler with the order it has read; `RecalcRead`/`RecalcWrite` and `SyncRead`/`SyncWrite` are the two statements of `recalc` and `syncOrderStatus`; `CountShift` and `CloseShift` those of closing a shift |
| `SerialLedger` | what the ledger promises | the journal and the years without transactions: a posting, a reversal, a close, an opening is one step, computed from the journal as it is; `GeneralLedger` maps `entries` to its committed journal and `status` to `yearStatus` |
| `CreditBook` | what a budget promises | a line has an approved amount, and documents hold or have spent parts of it; each operation is one step |
| `Commitments` | `CommitmentService`, migration 051 | `CommitLock` and `CloseLock` are the locked reads, `CommitWrite`, `Settle`, `Release` the writes; `allocate` reads without a lock; the line's two running totals are columns |
| `Treasury` | `TreasuryService`, `ReconciliationService`, receipts of `RevenueService` | a movement is its guarded `UPDATE` and its row; `autoMatch` is one transaction over many lines, whose matches stay in `request` until `AutoCommit`; `recordLine` is two commits; `complete` is three reads and an unconditional write |
| `SalesChain` | `SalesChainService`, migration 009 | `createShipment` is number, insert, one update per item, count and commit; what it has not committed stays in `request`; `invoiceOrder` is read, sale, mark |
| `Consignment` | `ConsignmentService` over `Stock` | a request is a transaction whose work stays in `request` until `CreateCommit` or `MoveCommit`: `ReadCost` is the unlocked `SELECT`, `Debit` one `applyStockDelta`, `MoveLock` the `FOR UPDATE`, `MoveWork` the shelf, the entry and the `NOT EXISTS`; `ShelfFree`, `LineFree` and `JournalFree` say what waits for what; `balance` holds the accounts it posts to |
| `Purchases` | `PurchasesService` | the five commits of `create`, `receive`, the three steps of `cancel`; `answers` is what clients were told |

`MC_*` modules give the constants their values; `*_proofs` modules hold the theorems, and `Lemmas` what they share: facts
about sums and about `StockRow`. `Inventory` and `Consignment` extend `Stock`;
the others are separate because their interaction with stock and ledger goes through operations modelled there: `Sales`,
`StockCount` and `Purchases` carry the part of the stock they touch as a number, justified by `KardexExplainsStock`
and by the conditional update being one step.

Operators named *Mutant* in a comment next to a definition are deliberately wrong variants of it; replacing the
definition by its variant must make a property fail, which shows that the property depends on that line of the code.

## Runs

| Run | Question and answer |
|---|---|
| `inventory` | Two transfers, receipts, sales and adjustments race for one product in two warehouses. The kardex always adds up to the row and its last balance is the row's (`KardexExplainsStock`); goods leave one warehouse and enter another in equal numbers (`TransfersConserveGoods`); an average cost never leaves the range of costs paid, whatever is rounded (`AvgCostWithinPaid`). |
| `ledger` | Two transactions post, reverse, close and open two years. A document never has two live entries, a reversal is the exact mirror, account balances are the sums of the journal, a closing entry zeroes the year and nothing follows it, although closing does not lock the journal. Every commit is a step of `SerialLedger`, everything else a stutter. |
| `sales` | Two requests create, collect, split, pay, cancel and return one invoice. Counter payments never exceed the total; account 1103 is the debt of the invoices; an invoice marked PAID is covered; a drawer holds the payments that went into it, unless credit has moved money of it (a sale on credit was cancelled, or credit was collected into a box: `CreditMoved`). |
| `online_order` | Two orders, two overlapping requests, two payments, lost answers. An order shown as PAID has a captured payment of its own over its whole total. |
| `stock_count` | Two products are counted while units are sold and lost, over a network that loses answers, with pages closed. An applied count moves the system to the shelf up to the losses after counting; the queue never delivers an old number after a newer one of the queue. |
| `count_queue` | With two flushes and a closed page, every queued record leaves the queue. |
| `purchases` | Two forms, one received at once, two requests, failing steps, a restart. One answer per form, goods once, no entry reversed twice, and every key claimed is settled while the server stays up. |
| `restaurant` | Two requests work on an order they read before, while a shift is counted and closed. The drawer's revenue is what was posted, an order marked paid has its posting, and is posted once; a shift never expects more than was put into its drawer; an occupied table has an open order, or one that a guest has made. |
| `budget` | Two requests commit, settle, release and allocate over two lines. The commitments explain both running totals of a line, no line exceeds its approval although `allocate` does not lock, a document has one open commitment, and every step of the locked transactions is a step of `CreditBook` or none. |
| `treasury` | Two requests move money, transfer, collect, match by hand and by machine, record and undo, over two statements. A balance is its opening, its receipts and its transactions; no transaction closes two lines, even of two statements; what the machine matched is of the account and the amount of its line; and the difference of a statement whose matches fit is that of the statement alone. |
| `sales_chain` | Three requests ship parts of an order and invoice it while the office cancels. What is shipped is what shipments sent and within the order; the status says what is shipped; an invoiced order keeps its sale. The status is computed from items other shipments may be changing; the run and the proof show that it is right nevertheless, because two shipments under way cannot both have a free number. |
| `consignment` | Two requests give out a document of two lines from one shelf and settle or return its lines at once, beside a supplier's line, purchases, adjustments and sales. What left the shelves and has not come back is at the customers or sold by them; revenue is what was settled; account 1108 is the cost of the open goods, up to half a unit per piece and document; a closed document has nothing open; and the move that leaves nothing open closes the document if its goods had a cost. |

## Bounds

Two of everything that competes (requests, transactions, warehouses, orders), because every guard in the code
is between two actors: a lock, a unique key or a condition separates one request from *another*. A third would only
repeat the second; in the modules with proofs the number is arbitrary, which confirms it.

* `inventory`: quantities to 2, costs 2 and 5 (their averages have to be rounded), one product: products do not
  interact in `Stock`.
* `ledger`: 3 entries suffice for posting, reversing and closing, in either of 2 years (closing and opening carry sums
  from one to the next); cash, retained earnings, one revenue and one expense account.
* `sales`: an invoice of 2 units, so that it can be paid, split and returned in part; tenders in cash, card and on
  credit; 2 drawers; one cancellation.
* `online_order`: totals that divide evenly into tomans and ones that do not; 2 payments, each of which may be
  requested, redirected to, paid, captured.
* `stock_count`: 2 units, 2 products, 3 numbers entered (an old one, a newer one and one of the other product),
  1 sale, 1 loss, 1 closed page, 2 attempts per record; one flush at a time, because two of them break the order (see
  disagreements). `count_queue` has two flushes and 3 attempts; the code's `MAX_ATTEMPTS` is 5, and what the model
  tells apart is the first attempt, one in between and the last.
* `restaurant`: one order, or two for one table in the configuration kept for the guests' cap; a dish and a second one
  that can be added and removed; two shifts, so that an order can be settled in another shift than it was opened in.
* `budget`: two lines, so that a document can try to be committed on both; amounts to 2.
* `treasury`: two accounts (transfers, and matches to the wrong account), two transactions, two statements of two lines,
  amount 1 with both signs, one day with `MatchWindow` 0. The code's window is 3 days; what the model tells apart is
  inside and outside, and `MC_SecondStatement.cfg` has two days. Larger amounts only split sums differently.
* `sales_chain`: one order of two items (so that there is a partly shipped status) and three requests: one that has
  inserted its shipment, one that waits for the number, one that invoices.
* `consignment`: a document of two lines out of one shelf (2 pieces at a price, 1 piece for nothing), a line taken in, two
  requests, a shelf of up to 3. `Scale` 2 stands for the 10^4 units of `avgCost` in one of the two decimals of an
  amount, and the costs 3 and 8 are one that has to be rounded and one that has not.
* `purchases`: 2 invoices, 2 failing steps, 1 restart or failed freeing. `Room` keeps the bound out of the way of a
  create that has started, so that the liveness property is not disturbed by it.

`CHECK_DEADLOCK FALSE` is set everywhere but in `consignment`, where a shelf always buys or sells: the bounds on entries, saves, payments and invoices end every behaviour, and
a shop at rest is not an error.

## Fairness

Safety runs use no fairness. Two liveness properties do:

* `EveryRecordLeaves` (`CountFairSpec` of `StockCount`): weak fairness on the steps of a flush and on starting one. A flush
  awaits `fetch`, which settles, with an error if nothing else, and IndexedDB, which does too; flushes are started by
  opening the page and by every `online` event, both of which keep happening in a shop that is open. Without the second
  part a record queued offline waits for ever, and rightly so.
* `KeyIsSettled` (`FairSpec` of `Purchases`): weak fairness on the steps of a create. Each is one awaited statement;
  the pool and the database answer or fail. There is none on repeating, receiving, cancelling or restarting. The
  property speaks of the time before the first restart, because after one the key stays (see disagreements).

## Assumptions

* PostgreSQL at READ COMMITTED does what it documents: statements are atomic, row locks last to the end of the
  transaction, a conditional `UPDATE` re-evaluates its condition on the row it waited for, unique indexes hold back a
  second inserter until the first ends.
* A statement that fails has had no effect. A connection to the database lost after a commit and before its answer is
  not modelled: in `Purchases` it would free a key whose response had been stored.
* The ledger is enabled for the company; without it nothing is posted and the ledger properties are empty (and
  consignment, which calls `postIn` directly, is refused).
* A request of the offline queue that was given up by the browser is not executed after a newer one of the same queue.
* The gateway: a reference is unique, a payment is paid once by its customer, captured by its first verification, and
  later verifications say so again.

## Proofs

A proof module states the theorems of one component; `Lemmas` holds what several need. Constants are arbitrary,
restricted only by the named assumptions of each module (disjoint account kinds, values that are not confused with null,
bounds that are natural numbers, and finitely many of what is summed over: warehouses, accounts, transactions, commitments,
lines, invoices, restaurant orders with their dishes, shifts). Four proof modules are about two components and extend both:
`GeneralLedger_proofs` about the two books of
accounts, that of the journal and that of the bank, `Inventory_proofs` about the goods and the invoices that move them,
`OnlineOrder_proofs` about the orders of the web shop and those of the restaurant, `Purchases_proofs` about the goods that
come in with an invoice and those that are counted, both with clients that repeat what they sent.
That is why the specification of `Treasury` is `TreasurySpec`, with `TreasuryInit`, `TreasuryNext` and
`TreasuryTypeOK`, that of `Sales` is `SalesSpec`, that of `Restaurant` is `RestaurantSpec`
and its requests are `call`, and that of `StockCount` is `CountSpec`.

Most books are sums (`SumFunctionOnSet`, a fold over a finite set). The library's induction theorems take a predicate,
which the provers cannot instantiate; `Lemmas!SubsetInduction` states induction over the subsets of a finite set with a
*set* in the place of the predicate and is proved from the well-foundedness of the naturals. On it rest `SumInt`,
`SumChange` (one term changes), `SumAdd`, `SumSame`, `SumDisjoint`, `SumMonotone`, `SumPart` (a part of natural terms),
`SumImage` (along a one-to-one map), `SumByKey` (terms grouped by a key), and `SumsClose` (terms that are close
have sums that are), which the invariants about sums cite.

| Theorem | For every value of the constants | Argument |
|---|---|---|
| `Inventory_proofs!TypeCorrect`, `KardexAlwaysExplainsStock` | types, so no negative quantity; every kardex adds up | `IInv` adds that a missing row has an empty kardex and that the ends of a transfer differ; the induction is over `ApplyStockDelta` once, then each service cites it |
| `Inventory_proofs!TransfersAlwaysConserveGoods` | what transfers took out of some warehouses is in others, for any finite number of them | a transfer changes two terms of the sum over the warehouses, in opposite directions; every other step changes none |
| `Inventory_proofs!AvgCostAlwaysWithinPaid` | an average lies between two costs paid | rounding a quotient that lies between two integers stays between them (`Lemmas!RoundDivBetween`); the costs transfers carry must be within the range as well |
| `Inventory_proofs!CounterIsNeverOverpaid`, `PaidIsAlwaysCovered` | any invoices of any size, cash boxes, requests | `LocksHold`: the row lock keeps what a collecting request has summed equal to what is paid, and what a request paying an installment has summed is at most that, because payments are only added while it holds its key-share lock and a cancellation waits for it |
| `Inventory_proofs!ReceivableIsAlwaysDebt` | until it is cancelled an invoice leaves its unpaid rest on account 1103 | each payment adds the same amount to a sum over the rows and takes it off the account (`PaymentAdded`), and the tenders of a new invoice become its first rows (`TendersPaid`) |
| `Inventory_proofs!DrawerAlwaysHoldsItsPayments`, `SalesTypeCorrect` | a drawer is the sum, over the invoices, of what each brought in, as long as credit has moved no money of a drawer | a sum of sums: an action changes the rows of one invoice (`DrawersFollow`). That credit moved money, once true, stays true, so the hypothesis also held before the step; under it a cancelled invoice has no credit row, and `RefundedBy` is what the invoice had in the drawer |
| `GeneralLedger_proofs!OneLiveEntryAlways`, `ReversalsAlwaysMirror`, `NothingEverAfterClosing` | any number of transactions, documents, years | an inserted entry carries the number right after the journal, so only one is in flight; the locals of a transaction are still true of the journal when it commits |
| `GeneralLedger_proofs!BalancesAlwaysFollow`, `ClosingAlwaysSettles`, `LedgerTypeCorrect` | a balance is the sum of the account's lines; from its closing entry on a year's revenue and expense accounts are zero | a commit changes one term of a sum over the journal. A closing entry is made from sums read earlier: its transaction must believe what is still the sum when it commits, which the number it holds ensures, and after it the year takes no entry (`NothingEverAfterClosing`) |
| `GeneralLedger_proofs!LedgerIsSerializable` | every commit maps to a step of `SerialLedger` on the journal of that moment, everything else to a stutter | `EntriesAreFresh`: an entry whose number is still the next one is what the present journal gives (a live original to void, the sums to close or to carry), because every commit takes that number; `YearLocks`: a year being closed is open, held by one transaction, without a key lock of another, and stays empty if its close is to be an empty one. The previous year of an opening is a maximum that exists (`PreviousIsBefore`) |
| `GeneralLedger_proofs!BalancesAreExplained` | the balance column of a treasury account is what rows say of it, for any accounts, movements and requests | one sum per account: an action adds one term to it and the same amount to the column under the guard of the `UPDATE`, or touches neither; `NothingBefore` says that an account to come has no rows |
| `GeneralLedger_proofs!MatchesAreAlwaysSound` | a transaction closes one line; what the machine matched fits | not inductive: a run of `autoMatch` holds matches it has not committed. `HeldIsSound` says that these fit, name no line and no transaction twice, and none that another request or a committed line has, which the row locks and the unique index keep so; `RowsExist` that what they name is there |
| `GeneralLedger_proofs!DifferenceAlwaysIgnoresBook` | the difference is the stated balance minus the statement's lines | of every state in which matches are sound: matched lines map one to one onto the movements not in transit (`Lemmas!SumImage`), and each sum falls into two parts |
| `OnlineOrder_proofs!PaidIsAlwaysCaptured`, `OnlineOrderTypeCorrect` | any number of orders, requests, payments | references are never mixed up between orders, a kept answer stays true, and a payment whose redirect is not stored is owned by one request |
| `OnlineOrder_proofs!RestaurantTypeCorrect` | the rows of the restaurant and what a request has read of them; a service charge stays whole | `ServiceIsAtRate`: a charge is the subtotal times one of the rates, so the quotient of `KeepRatio` is that rate, also for the stale row a `recalc` has read |
| `OnlineOrder_proofs!DrawerAlwaysMatchesRevenue`, `PaidIsAlwaysPosted` | the drawer is the sum of the posted revenues; what an order was paid is what was posted for it | a settlement under a ledger changes one term and the drawer by the same amount, and only where the term was zero: the unique source of the entry refuses any other, with its money. So an order's `paid` is never written over a different revenue |
| `OnlineOrder_proofs!ExpectedIsAlwaysInDrawer` | all closed shifts together expect no more than the drawer got | a shift is counted while orders are settled, cancelled, revived and settled again without money under another shift. `MoneyHasOneShift`: there is an assignment of each order's money to one shift such that no count exceeds what is assigned to its shift; a settlement that brings money extends it, and the sums by shift add up to at most the sum of all (`SumByKey`) |
| `OnlineOrder_proofs!OccupiedIsAlwaysExplained` | an occupied table has an open order or one that a guest made | the actions that close a waiter's order are `Settle` and `CancelOrder`, and both free its table; `CallsHold` says that a stale status write is never a closed one and that only a guest's order is voided |
| `Purchases_proofs!PurchasesTypeCorrect`, `AnswersAlwaysAgree`, `GoodsAlwaysComeInOnce` | any number of forms, requests, failures, restarts | a key under way has one owner and a null response, so nobody else answers or frees it; a pending invoice has no goods |
| `Purchases_proofs!AppliedAlwaysMatchesShelf`, `CountTypeCorrect` | any products, stock, sales, losses; an action property | `GoodsInv` follows every unit: while a count is open the system has the opening stock less what was sold, the shelf that less what was lost, and the last number is what the shelf held when it was taken. So the difference posted cancels the opening quantity, and what was sold is deducted once |
| `Purchases_proofs!QueueAlwaysKeepsOrder` | any products, numbers, attempts, lost answers and closed pages, in every behaviour in which no two flushes overlap (`[]FlushesAlone`; without it the property is false, see [disagreements](#disagreements)) | `QueueInv`: a flush sends what is in the queue, and what came after it is newer, so it sends the oldest record of the queue. The last number of a product is therefore on its way, or waits behind every older one, or is on the server with nothing left that could replace it |
| `Commitments_proofs!TypeCorrect`, `NeverOverApprovedAlways`, `OneOpenPerSourceAlways` | no negative total, no line over its approval, one open commitment per document | a request that holds a line's lock has read its present totals; a late `allocate` changes a part of the line the checks of others do not rest on |
| `Commitments_proofs!BookIsImplemented` | every step maps to a step of `CreditBook` or a stutter | the totals of a line stand for the book's sums over its commitments, by `BookExplainsLineAlways`; a guard on a total is then a guard of the book |
| `Commitments_proofs!BookExplainsLineAlways` | both running totals of a line are sums over its commitments | a write changes one commitment and, under the lock of the line, one total by the same amount |
| `SalesChain_proofs!StatusFollowsAlways`, `NeverOverShipped`, `TypeCorrect` | the status of an open order follows its shipped quantities, which never exceed the ordered ones | not inductive: a shipment's computed status must still be right at its commit. `Sound` says that a shipment that has inserted its row holds the number right after the last committed one, `OneShips` that therefore only one has, and so nobody changes what an order has shipped meanwhile |
| `SalesChain_proofs!ShippedIsSentAlways` | what an item says is shipped is the sum over the order's shipments | `ShipmentsHaveOrders` and `SentIInv`: a number not yet used has sent nothing, so a commit adds one term |
| `SalesChain_proofs!InvoicedIsKeptAlways` | an action property: an invoiced order keeps its sale | from the types and one case per action that writes an order |
| `Consignment_proofs!ClosedAlwaysHasNothingOpen`, `LastMoveAlwaysCloses`, `ConsignmentTypeCorrect` | any documents, lines, quantities, costs and requests | `ClosingIsRight`: what a move that has looked at its document believes is still true. It rests on `MovedIsOpen` (the row lock) for its own line, on `OnePosting` (one request holds the next number of an entry) for the others, on `NewDocuments` for documents being written, and on the lemma that every move of goods with a cost posts; `TakenIsThere` keeps the shelves above zero |
| `Consignment_proofs!GoodsAreAlwaysSomewhere`, `BooksAlwaysFollowItems` | no unit is lost or made; revenue is what was settled; account 1108 is the cost of the open goods up to half a unit per piece and per document | `IssueAddsUp`: an issue under way has taken from the shelves, and counted in its total, exactly what the lines it is through with ask for and cost. The rounding bound is the sum of the lines' bounds (`SumsClose`) and the entry's (`RoundDivClose`); a move takes what it posts off both sides, at the cost the line was given |

Only model-checked: liveness (`EveryRecordLeaves`, `KeyIsSettled`: fairness is outside the prover). Every other property of
the passing runs is stated by a theorem.

Every module has one type invariant, `TypeOK` or a name ending so. The runs `inventory` and `purchases` check it;
it is proved for every module.

## Disagreements

Where the code does not do what a comment, a message or a test of the repository says. Each
is found by TLC in seconds: with the configuration named, or with
the one of the component's run and the property named as the only one.

* `TransferCarriesItsCost` of `Inventory` (`src/backend/src/inventory/inventory.service.ts:248`): transfer reads the source row's avgCost with a plain SELECT (lines 248-256) and debits the row afterwards (line 258); a receipt committing in between changes the average, so the goods arrive at the destination with a cost the source no longer had. The comment says that if the cost does not travel with the goods the total value of the company's stock silently rises or falls, «ارزشِ کلِ موجودیِ شرکت بی‌سروصدا کم یا زیاد می‌شود» (src/backend/src/inventory/inventory.service.ts:241-243); the run shows exactly that.
* `ClosedYearIsSettled` of `GeneralLedger` (`src/backend/src/accounting/ledger.service.ts:173`): An empty year is closed without a closing entry, so a posting whose trigger already saw the year open only waits for the foreign key's share lock and commits into the closed year afterwards. The migration says a closed year must not take a new entry and that the check sits in the database so that no path can tamper with a closed period, «سال بسته نباید سند تازه بپذیرد» (src/backend/sql/migrations/007_general_ledger.sql:246-247).
* `BalanceSheetCountsOnce` of `GeneralLedger` (`src/backend/src/accounting/ledger.service.ts:329`): openFiscalYear posts the carried balances as an ordinary POSTED entry, next to the entries they summarise, and the balance sheet sums every entry up to its date; the opening therefore counts the earlier years a second time. The comment says the balance sheet as-of is right and only the new year's trial balance needs the opening, «ترازنامهٔ asOf درست است» (src/backend/src/accounting/ledger.service.ts:229-231), and that nothing may be counted twice (lines 243-245).
* `NoPostingLostToNumbering` of `GeneralLedger` (`src/backend/src/accounting/posting.service.ts:355`): Two transactions read the same maximum; the second one fails on the unique index, and DatabaseService.transaction (src/backend/src/database/database.service.ts:99-115) rolls back and throws, nothing runs it again. The comment says «تراکنش دوم شکست می‌خورد و دوباره تلاش می‌شود», the second transaction fails and is tried again (src/backend/src/accounting/posting.service.ts:353).
* `OpenYearIsClosable` of `GeneralLedger` (`src/backend/src/accounting/ledger.service.ts:183`): A year with activity and a net income of exactly zero gets a retained-earnings line with two zero sides, which postIn refuses (src/backend/src/accounting/posting.service.ts:158-163), so the year can never be closed. The doc comment lists two guards only, no drafts and atomicity, «دو محافظ» (src/backend/src/accounting/ledger.service.ts:84-87).
* `CreditIsNotPayment` of `Sales`, `MC_SaleOnCredit.cfg` (`src/backend/src/payments/payments.service.ts:88`): payments.create sums every COMPLETED payment of the invoice, the CREDIT tenders written by create included, so after a small later payment the invoice becomes PAID although most of it was never received. create itself says credit is not a payment but a commitment, «نسیه پرداخت نیست، **تعهد** است», and that counting it records a credit invoice as settled (src/backend/src/sales/sales.service.ts:487-492).
* `CreditMovesNoCash` of `Sales` (`src/backend/src/sales/sales.service.ts:742`): create adds a tender to the drawer unless its method is CREDIT, but cancel takes every COMPLETED payment with a cashBoxId out of it, so cancelling a credit sale leaves the drawer short. The comment says «صندوق فقط با پول واقعی بالا می‌رود.  نسیه هیچ وجهی وارد صندوق نمی‌کند» (src/backend/src/sales/sales.service.ts:615-618).
* `CancelledStaysCancelled` of `Sales` (`src/backend/src/sales/sales.service.ts:985`): payInstallment never looks at the status of the sale and writes PAID or PARTIAL over CANCELLED. PaymentsService.create refuses the same thing with «فاکتور لغوشده قابل پرداخت نیست» (src/backend/src/payments/payments.service.ts:84), createInstallments too (src/backend/src/sales/sales.service.ts:878).
* `GoodsComeBackOnce` of `Sales` (`src/backend/src/sales/sales.service.ts:719`): cancel puts the whole quantity of every item back into stock and ignores returnedQty, so units that came back by a return come back a second time. ReturnsService says the cap exists so that no units that never existed enter the warehouse, «۷ کالای ناموجود به انبار اضافه و پولش پرداخت» (src/backend/src/returns/returns.service.ts:27-29).
* `CashAccountMatchesBoxes` of `Sales`, `MC_CashAccount.cfg` (`src/backend/src/sales/sales.service.ts:761`): cancel empties the drawers of all payments but reverses only the 'Sale' and 'SaleCogs' entries; the entries of later payments and installments stay, so boxes and account 1101 differ. ledger-health.sh checks that they agree, «موجودیِ صندوق با دفتر می‌خواند؟» (src/backend/test/ledger-health.sh:149-159), and cancel's comment says the entries of the invoice are neutralised (src/backend/src/sales/sales.service.ts:758-760).
* `InstallmentsWithinTotal` of `Sales` (`src/backend/src/sales/sales.service.ts:880`): createInstallments counts the existing rows and sums the payments outside any transaction and no unique key covers (saleId, seq), so two requests at once both insert a full set. The guard's message is «برای این فاکتور قبلاً اقساط تعریف شده است» (src/backend/src/sales/sales.service.ts:886).
* `PaidOnlyOnce` of `OnlineOrder` (`src/backend/src/payment/payment.service.ts:111`): start checks only paymentStatus before it asks the gateway; two starts before the first verification give two payable payments, and both are captured by their verifications. The comment says a paid order does not go to the gateway again, for the customer could otherwise pay twice with the back button, «مشتری می‌توانست با دکمهٔ back دو بار پرداخت کند» (src/backend/src/payment/payment.service.ts:70-73).
* `PaymentsCanBeMatched` of `OnlineOrder` (`src/backend/src/payment/payment.service.ts:111`): start overwrites paymentRef unconditionally, so a payment started earlier and made later is referred to by nothing. The comment says the reference is stored before the user is sent away because otherwise «کاربر پرداخت می‌کرد و ما هیچ راهی برای تطبیقش نداشتیم» (src/backend/src/payment/payment.service.ts:107-110).
* `PaidIsNotMarkedFailed` of `OnlineOrder`, `MC_PaidThenFailed.cfg` (`src/backend/src/payment/payment.service.ts:152`): A verification that read the order before it was paid and gets no answer writes FAILED over PAID, without a condition on the status. Comments say that reloading the return page must not do anything twice (src/backend/src/payment/payment.service.ts:129-130) and that counting it as an error would mark a paid order as failed, «سفارشِ پرداخت‌شده ناموفق علامت بخورد و پول بماند بی‌آنکه کالا برود» (src/backend/src/payment/zarinpal.gateway.ts:155-157).
* `SuccessIsNotFailure` of `OnlineOrder`, `MC_OddTotal.cfg` (`src/backend/src/payment/zarinpal.gateway.ts:75`): start rounds the total to tomans; a total ending in 1 to 4 rials is charged rounded down, the gateway confirms what it charged, and paidAmount < expected (src/backend/src/payment/payment.service.ts:173) marks the paid order FAILED. The test says the odd digit is rounded so that no transaction falls short, «رقمِ فرد گرد می‌شود، نه بریده» (src/backend/src/payment/payment.spec.ts:88-91).
* `ConfirmedOnce` of `OnlineOrder`, `MC_ConfirmTwice.cfg` (`src/backend/src/shop/shop.service.ts:1084`): setStatus may put a confirmed order back to PLACED, after which confirm makes a second sales order of it and overwrites salesOrderId. The end-to-end test says "confirming twice rejected" / "double confirm rejected" (src/backend/test/shop.sh:226-227).
* `SalesAreNotShortage` of `StockCount` (`src/backend/src/inventory/stock-count.service.ts:224`): systemQty is the quantity at the opening; a unit sold before the worker reaches the shelf is missing from countedQty and is deducted once by the sale and once more by apply. The comment says locking the system quantity prevents just that, «وگرنه فروشِ میانی به‌حساب «کسری انبار» نوشته می‌شود و انباردار بی‌گناه پاسخگو می‌شود» (src/backend/src/inventory/stock-count.service.ts:14-17); it does so only for sales after the counting.
* `LinesAreWhatWasApplied` of `StockCount` (`src/backend/src/inventory/stock-count.service.ts:172`): setCounted checks the committed status without locking the count; while apply, which has already read its lines, is not committed, the number is accepted and stands in an applied count that never posted it. The operation refuses numbers of a count that is not open, «قلم یافت نشد یا انبارگردانی باز نیست» (src/backend/src/inventory/stock-count.service.ts:183).
* `LastNumberWins` of `StockCount` (`src/web/app/count/[id]/page.tsx:171`): save sends a new number directly even if an older one of the same line still waits in the queue or is being sent; when the older one arrives afterwards, it replaces the newer. The queue's comment says «آخرین عدد برنده است», the last number wins (src/web/lib/offline-queue.ts:18-19).
* `QueueKeepsOrder` of `StockCount`, `MC_OverlappingFlush.cfg` (`src/web/app/count/[id]/page.tsx:77`): sync runs when the page opens and on every online event, and neither it nor flush looks whether a flush is under way; the second one sends records the first has already sent, so an old number can be sent again after the newer one. The comment on flush says «ترتیب حفظ می‌شود» and that otherwise the older number would be the last (src/web/lib/offline-queue.ts:154-157).
* `OneInvoicePerForm` of `Purchases`, `MC_RepeatedForm.cfg` (`src/backend/src/purchases/purchases.service.ts:193`): createInner commits the invoice and only then receives it; when that or storing the answer fails, the key is freed although the invoice stays, and the client's repetition makes a second invoice. The key exists because a repeated request would give «دو فاکتور، دو برابر موجودی، دو سند» (src/backend/sql/migrations/045_idempotency.sql:10-11), and the comment on the separate receiving says an unreceived invoice is harmless, «برخلافِ فاکتورِ تکراری», unlike a duplicated one (src/backend/src/purchases/purchases.service.ts:305-307).
* `NullMeansRunning` of `Purchases`, `MC_StuckKey.cfg` (`src/backend/src/purchases/purchases.service.ts:149`): The key's row is committed before the work; when the process ends in between nobody completes or deletes it, and every repetition is answered 409. The migration says an empty response «تهی یعنی «هنوز در حال اجراست»» (src/backend/sql/migrations/045_idempotency.sql:31), and create's comment says a key must not answer 409 to the queue for ever, «صف تا ابد ۴۰۹ می‌گرفت» (src/backend/src/purchases/purchases.service.ts:191-192).
* `CancelledHasNoGoods` of `Purchases` (`src/backend/src/purchases/purchases.service.ts:478`): cancel reads the status before its transaction, does not lock the invoice, and writes CANCELLED whatever the status is by then; an invoice received in between is cancelled with its goods in stock and its freight entry in the journal. Its guard says «فاکتور دریافت‌شده قابل لغو نیست» (src/backend/src/purchases/purchases.service.ts:470).
* `OpenOrderCanBePosted` of `Restaurant` (`src/backend/src/restaurant/restaurant.service.ts:920`): settle posts saleEntry with the subtotal, the discount, the tax and the total of the order, but not its service charge or delivery fee, although the total contains both (src/backend/src/restaurant/restaurant.service.ts:619). The entry debits more than it credits, postIn refuses it (src/backend/src/accounting/posting.service.ts:124) and the whole settlement rolls back, every time. The comment of the class says of saleEntry's sides «بدهکار: صندوق / بانک / حساب دریافتنی ← به اندازهٔ مبلغ فاکتور» (src/backend/src/accounting/posting-rules.ts:77): the debit is the whole invoice, so the credits have to be too; the run shows an open order whose entry does not balance.
* `VoidedOrderFreesTable` of `Restaurant`, `MC_SelfOrderCap.cfg` (`src/backend/src/self-order/self-order.service.ts:240`): createOrder has already marked the table OCCUPIED; the order over the cap is then voided by an UPDATE of the order alone. The comment says it is voided so that the table does not stay occupied, «سفارش ساخته شده؛ باطلش می‌کنیم تا میز اشغال نماند» (src/backend/src/self-order/self-order.service.ts:239); in the run it does.
* `SettledStaysSettled` of `Restaurant` (`src/backend/src/restaurant/restaurant.service.ts:972`): cancelOrder checks the status of a row it read earlier and cancels whatever is there; a settlement in between keeps its money and its entry while the order says CANCELLED. The handler's own message says a settled order cannot be cancelled (src/backend/src/restaurant/restaurant.service.ts:966).
* `ClosedShiftIsComplete` of `Restaurant` (`src/backend/src/retail/cashier-shift.service.ts:195`): close sums the takings and writes the end of the shift in two statements; an order settled in between, or one that read the shift before, is tied to the closed shift and missing from expectedCash, which the comment of the class exists to prevent (src/backend/src/retail/cashier-shift.service.ts:27-29).
* `ServiceRatioIsKept` of `Restaurant`, `MC_LostService.cfg` (`src/backend/src/restaurant/restaurant.service.ts:1485`): recalc keeps the ratio of the service charge to the previous amount; after the last dish is removed that amount is zero and so is the ratio from then on, against the comment that the previous ratio is kept (src/backend/src/restaurant/restaurant.service.ts:1483).
* `AvailableIsNotNegative` of `Commitments` (`src/backend/src/budget/commitment.service.ts:368`): allocate reads what is committed and spent without a lock (line 351) and writes the allocation afterwards; a commitment in between is not seen and the available credit becomes negative. The comment says the check is there so that it does not, «وگرنه اعتبارِ آزاد منفی می‌شد» (src/backend/src/budget/commitment.service.ts:347).
* `ExplainedIsBalanced` of `Treasury`, `MC_SecondStatement.cfg` (`src/backend/src/treasury/reconciliation.service.ts:370`): The book balance is of all transactions up to the day of the statement, but what is in transit leaves out only the transactions matched to lines of this very reconciliation; a movement that an earlier statement of the account has closed counts as in transit for ever. So a second statement that agrees with the book, all of whose lines are matched, has a difference and cannot be completed. The comment of summary says that whatever does not satisfy book plus deposits in transit minus withdrawals in transit equals the bank means there is something not explained yet, «هر چه غیرِ این باشد یعنی چیزی هست که هنوز توضیح داده نشده» (src/backend/src/treasury/reconciliation.service.ts:340); in the run everything is explained.
* `OneSalePerOrder` of `SalesChain`, `MC_TwoSales.cfg` (`src/backend/src/sales-orders/sales-chain.service.ts:445`): invoiceOrder reads the status, creates the sale in a transaction of its own and marks the order afterwards; the condition in the last UPDATE comes after the second sale has been committed, and its row count is not looked at. The comment says the condition is there so that two concurrent requests cannot make two invoices for one order, «تا دو درخواست هم‌زمان نتوانند دو فاکتور برای یک سفارش بسازند» (src/backend/src/sales-orders/sales-chain.service.ts:476-477); in the run they do, and goods leave the stock twice.
* `CancelledStaysCancelled` of `SalesChain` (`src/backend/src/sales-orders/sales-chain.service.ts:480`): `invoiceOrder`
  refuses a cancelled order when it reads it, but its last `UPDATE` excludes only `INVOICED`; an order cancelled while its
  sale is created becomes invoiced.
* `CompletedIsFrozen` of `Treasury` (`src/backend/src/treasury/reconciliation.service.ts:321`): `unmatch` does not look at
  the status of the reconciliation, and `match`, `autoMatch` and `addLines` look at it before they write, so lines of a
  completed reconciliation change; the comment at line 472 says every change is allowed on an open one only.
* `NothingLeftIsClosed` of `Consignment` (`src/backend/src/inventory/consignment.service.ts:394`): the comment says the
  document is closed when nothing is left. Two moves of its last lines do not see each other; it stays open for ever
  when they post nothing (returns to a supplier, goods without a cost), and closes only because of the number of their
  entries otherwise (`LastMoveCloses`).
* `ReportIs1108` of `Consignment` (`src/backend/src/inventory/consignment.service.ts:438`): the comment, and
  `backend/test/consignment.sh:204-209`, say that `outValue` is the balance of account 1108. The entry of an issue is
  made from the six decimals of `avgCost`, the line keeps two (`081_consignment.sql:81`), so for an average with more
  than two decimals they differ, at last on an account without goods; `BooksFollowItems` says by how much at most.
* `recordLine` (`src/backend/src/treasury/reconciliation.service.ts:258-259`) says that the movement, its entry and the
  match happen all or not at all; the match is a second commit (`RecordMove`, then `MatchWrite` or `Abort`).
* `SIGNED_AMOUNT` (`src/backend/src/treasury/reconciliation.service.ts:54`) counts an incoming transfer as money that left,
  so a transfer's deposit line can be matched by the machine only on the wrong side; `SignedAmount` models it as it is.

None of them changes what the passing runs show: those say how far the promise does hold.

## Not modelled

| Part | Why |
|---|---|
| Database layer, tenants and migrations | transactions, row locks and unique keys of PostgreSQL are in every module as the atomic steps and the guards they impose; the layer itself keeps no state of its own |
| Site bookings | repeat start and verify of OnlineOrder on another table |
| Web shop: catalogue, cart, phone codes, checkout | only the back office of an order is in OnlineOrder; checkout reserves nothing, so it shares no state with the stock |
| Parked sales, scanning | a parked basket is one row that is read and deleted; scanning only reads |
| Purchasing: requests, quotes, orders | a chain of status changes before Purchases with the numbering of SalesChain; it is next in the plan |
| Petty cash | a fund with a ceiling whose row every expense and refill locks first: one operation at a time, nothing left to interleave |
| Cheques | a status machine per cheque; later |
| Cash boxes and expenses | their balances are in Sales where sales touch them; transfers and expenses are guarded updates |
| Tax office queue | the answers come from the tax office, and a failed one is repeated by hand |
| Customers, loyalty, CRM, surveys | records and points; the points of a sale are a single guarded update |
| Prices, discounts, price levels, ration credit | what a sale costs is data to every property here; the totals enter as constants |
| Products, categories, imports, warehouses | master data; it has no life cycle beyond create, update and delete |
| Suppliers, shipments, serial numbers | records around Purchases without rules of their own |
| Authentication, sessions, roles, API keys | sessions and lock-outs depend on clocks; planned last |
| Subscription and billing of tenants | switches features on and off; nothing here depends on it |
| Payroll, attendance, assets, contracts, tenders, loans | periodic documents that end in a journal entry, which GeneralLedger covers as DOCUMENT |
| Journal templates and entry screens | they call postIn, which GeneralLedger models as manual postings |
| Notifications, SMS, webhooks, n8n, e-mail | sent after the fact and ignored when they fail; no state depends on them |
| AI, voice, telephony | reading assistants over the same services; answers of external models |
| Reports, audit log, health, operations | read only, or append-only records nobody decides on |
| Web pages | rendering; the one page with state that matters, counting, is in StockCount |
| Print agent, deployment, backups | scripts and pure input and output |
| Legacy schema and language data | not used by the program |

Within the modelled parts: prices, discounts, taxes, batches and serial numbers are data no property depends on;
clearing the offline queue at logout and two workers sharing a device; the simulated gateway used without a merchant
key (it answers at once and keeps nothing); posting with the ledger switched off; in the restaurant reservations, the
staff's own shifts, the menu and its costing; the status of a shipment itself and edits of an order's row other than
cancelling; receipts into cash boxes.
