------------------------------- MODULE Sales -------------------------------
(***************************************************************************)
(* The life of a sale invoice: SalesService (create, cancel, the           *)
(* installments), PaymentsService.create and ReturnsService                *)
(* .createSaleReturn, over the stock, the cash boxes and the two ledger    *)
(* accounts they share (cash 1101 and receivables 1103).                   *)
(*                                                                         *)
(* Every operation is a database transaction.  The ones that read before   *)
(* they write are split there, with the row locks that separate them:      *)
(* FOR UPDATE on the Sale (payments, cancel, returns); FOR UPDATE on the   *)
(* Installment plus the key-share lock that the foreign key of the new     *)
(* Payment takes on the Sale, and the row of the cash box (paying an       *)
(* installment); no lock at all (splitting into installments).             *)
(*                                                                         *)
(* Data abstraction: an invoice is one product in one warehouse, a unit of *)
(* goods is worth a unit of money, there is no tax, discount or ration     *)
(* credit, and the ledger of the company is enabled.  The bank account is  *)
(* not followed: a card refund looks like none at all ("NONE").            *)
(***************************************************************************)
EXTENDS Sequences, FiniteSetsExt, Integers

CONSTANTS SaleIds,       \* invoices
          Boxes,         \* cash boxes
          NoBox,         \* no cash box was given
          Requests,      \* concurrent requests
          Quantity,      \* units sold by an invoice, and its total
          InitialStock,  \* units in the warehouse at the start
          TenderLists,   \* what may be tendered when an invoice is created
          CollectMethods,\* methods of later payments ...
          CollectBoxes,  \* ... and where they are put
          RefundTargets, \* where refunds go: the cash of a box, the debt of the
                         \* customer ("CREDIT"), nowhere ("NONE")
          MaxCancels     \* bound: cancellations of one invoice

Methods == {"CASH", "CARD", "CREDIT"}

Tender == [method : Methods, amount : 1..Quantity, box : Boxes \cup {NoBox}]

ASSUME SalesConstants ==
  /\ Quantity \in Nat \ {0} /\ InitialStock \in Nat /\ MaxCancels \in Nat
  /\ IsFiniteSet(SaleIds) /\ IsFiniteSet(RefundTargets) /\ NoBox \notin Boxes
  /\ TenderLists \subseteq Seq(Tender)
  /\ CollectMethods \subseteq Methods /\ CollectBoxes \subseteq Boxes \cup {NoBox}
  /\ RefundTargets \subseteq Boxes \cup {"CREDIT", "NONE"} /\ "CREDIT" \in RefundTargets

VARIABLES status,       \* Sale.status, "NONE" before the invoice exists
          cancels,      \* how often the invoice was cancelled
          payments,     \* the Payment rows of a sale, in order
          installments, \* the Installment rows of a sale
          returned,     \* units returned per refund target
          stock,        \* Inventory.quantity
          box,          \* CashBox.balance
          cashAccount,  \* balance of account 1101
          receivable,   \* what the entries of a sale left on account 1103
          request       \* the requests and their locals

salesVars == <<status, cancels, payments, installments, returned, stock, box,
          cashAccount, receivable, request>>

Total == Quantity
Statuses == {"PENDING", "PARTIAL", "PAID", "CANCELLED"}

Payment == [origin : {"tender", "payment", "installment"}, method : Methods,
            amount : 1..Quantity, box : Boxes \cup {NoBox},
            status : {"COMPLETED", "REFUNDED"}]

Installment == [amount : 1..Quantity, status : {"PENDING", "PAID"}]

Idle == [pc |-> "idle"]

RequestStates ==
  [pc : {"collecting"}, sale : SaleIds, method : Methods, amount : 1..Quantity,
   box : Boxes \cup {NoBox}, paidSoFar : Nat]
  \cup [pc : {"paying"}, sale : SaleIds, index : Nat, box : Boxes, paid : Nat]
  \cup [pc : {"splitting"}, sale : SaleIds, remaining : 1..Quantity]
  \cup {Idle}

SalesTypeOK ==
  /\ status \in [SaleIds -> Statuses \cup {"NONE"}]
  /\ cancels \in [SaleIds -> 0..MaxCancels]
  /\ payments \in [SaleIds -> Seq(Payment)]
  /\ installments \in [SaleIds -> Seq(Installment)]
  /\ returned \in [SaleIds -> [RefundTargets -> 0..Quantity]]
  /\ stock \in Nat /\ cashAccount \in Int
  /\ box \in [Boxes -> Int] /\ receivable \in [SaleIds -> Int]
  /\ request \in [Requests -> RequestStates]

SalesInit ==
  /\ status = [s \in SaleIds |-> "NONE"]
  /\ cancels = [s \in SaleIds |-> 0]
  /\ payments = [s \in SaleIds |-> <<>>]
  /\ installments = [s \in SaleIds |-> <<>>]
  /\ returned = [s \in SaleIds |-> [x \in RefundTargets |-> 0]]
  /\ stock = InitialStock
  /\ box = [b \in Boxes |-> 0]
  /\ cashAccount = 0
  /\ receivable = [s \in SaleIds |-> 0]
  /\ request = [r \in Requests |-> Idle]
-----------------------------------------------------------------------------
\* The amounts of the chosen rows together.
SumOf(rows, chosen) == SumFunctionOnSet([i \in DOMAIN rows |-> rows[i].amount], chosen)

Completed(rows) == {i \in DOMAIN rows : rows[i].status = "COMPLETED"}
Settling(rows) == {i \in DOMAIN rows : rows[i].method # "CREDIT"}
InBox(rows, b) == {i \in DOMAIN rows : rows[i].box = b}
ByMethod(rows, method) == {i \in DOMAIN rows : rows[i].method = method}
AtCounter(rows) == {i \in DOMAIN rows : rows[i].origin # "installment"}

\* Mutant: cancelled payments count as paid.
PaidRefundsToo(s) == SumOf(payments[s], DOMAIN payments[s])

\* SUM(amount) of the COMPLETED payments: what the code takes as paid.
Paid(s) == SumOf(payments[s], Completed(payments[s]))

\* The money among them.
Received(s) == SumOf(payments[s], Completed(payments[s]) \cap Settling(payments[s]))

Tendered(s, method) ==
  SumOf(payments[s], {i \in ByMethod(payments[s], method) : payments[s][i].origin = "tender"})

UnitsReturned(s) == SumFunctionOnSet(returned[s], RefundTargets)

\* Mutant: the sale is read without FOR UPDATE.
SaleFreeAlways(r, s) == TRUE

\* FOR UPDATE on the Sale: nobody holds it, nor key-shares it.
SaleFree(r, s) ==
  \A x \in Requests \ {r} : request[x].pc \in {"collecting", "paying"} => request[x].sale # s

\* The key-share lock of a new child row of the Sale.
SaleShareable(r, s) ==
  \A x \in Requests \ {r} : request[x].pc = "collecting" => request[x].sale # s

BoxFree(r, b) == \A x \in Requests \ {r} : request[x].pc = "paying" => request[x].box # b

Into(b, amount) == IF b = NoBox THEN box ELSE [box EXCEPT ![b] = @ + amount]

StatusFor(settled) ==
  IF settled >= Total THEN "PAID" ELSE IF settled > 0 THEN "PARTIAL" ELSE "PENDING"
-----------------------------------------------------------------------------
\* Mutant: credit tenders fill the drawer like money.
FillBoxAnyTender(tenders, b) == InBox(tenders, b)

\* Only money fills the drawer when an invoice is created.
FillBox(tenders, b) == InBox(tenders, b) \cap Settling(tenders)

SettledBy(tenders) == SumOf(tenders, Settling(tenders))

(* SalesService.create: stock out, invoice, payments, drawers, and the     *)
(* 'Sale' entry, whose receivable is what no money was tendered for.       *)
Create(r, s, tenders) ==
  /\ status[s] = "NONE" /\ request[r] = Idle
  /\ stock >= Quantity
  /\ SettledBy(tenders) <= Total
  /\ \A i \in DOMAIN tenders : tenders[i].box # NoBox => BoxFree(r, tenders[i].box)
  /\ stock' = stock - Quantity
  /\ status' = [status EXCEPT ![s] = StatusFor(SettledBy(tenders))]
  /\ payments' = [payments EXCEPT ![s] =
       [i \in DOMAIN tenders |->
          [origin |-> "tender", method |-> tenders[i].method,
           amount |-> tenders[i].amount, box |-> tenders[i].box,
           status |-> "COMPLETED"]]]
  /\ box' = [b \in Boxes |-> box[b] + SumOf(tenders, FillBox(tenders, b))]
  /\ cashAccount' = cashAccount + SumOf(tenders, ByMethod(tenders, "CASH"))
  /\ receivable' = [receivable EXCEPT ![s] = Total - SettledBy(tenders)]
  /\ UNCHANGED <<cancels, installments, returned, request>>

(* PaymentsService.create: the sale is locked and what is paid is summed.  *)
CollectLock(r, s, method, amount, b) ==
  /\ request[r] = Idle
  /\ status[s] \notin {"NONE", "CANCELLED"} /\ SaleFree(r, s)
  /\ amount <= Total - Paid(s)
  /\ request' = [request EXCEPT ![r] =
       [pc |-> "collecting", sale |-> s, method |-> method, amount |-> amount,
        box |-> b, paidSoFar |-> Paid(s)]]
  /\ UNCHANGED <<status, cancels, payments, installments, returned, stock, box,
                 cashAccount, receivable>>

\* Mutant: the collection entry debits the account of the method, but the
\* receivable is left as it was.
CollectedNothing(s, method, amount) == receivable

\* collectionEntry: a credit to 1103, unless the method posts there as well.
Collected(s, method, amount) ==
  [receivable EXCEPT ![s] = @ - (IF method = "CREDIT" THEN 0 ELSE amount)]

(* ... and the payment, the drawer, the entry and the status commit.       *)
Collect(r) ==
  LET q == request[r] IN
  /\ q.pc = "collecting"
  /\ q.box # NoBox => BoxFree(r, q.box)
  /\ payments' = [payments EXCEPT ![q.sale] = Append(@,
       [origin |-> "payment", method |-> q.method, amount |-> q.amount,
        box |-> q.box, status |-> "COMPLETED"])]
  /\ box' = Into(q.box, q.amount)
  /\ cashAccount' = cashAccount + (IF q.method = "CASH" THEN q.amount ELSE 0)
  /\ receivable' = Collected(q.sale, q.method, q.amount)
  /\ status' = [status EXCEPT ![q.sale] =
                  IF q.paidSoFar + q.amount >= Total THEN "PAID" ELSE "PARTIAL"]
  /\ request' = [request EXCEPT ![r] = Idle]
  /\ UNCHANGED <<cancels, installments, returned, stock>>

(* createInstallments reads outside any transaction ...                    *)
SplitRead(r, s) ==
  /\ request[r] = Idle
  /\ status[s] \notin {"NONE", "CANCELLED"}
  /\ installments[s] = <<>>
  /\ Total - Paid(s) > 0
  /\ request' = [request EXCEPT ![r] =
       [pc |-> "splitting", sale |-> s, remaining |-> Total - Paid(s)]]
  /\ UNCHANGED <<status, cancels, payments, installments, returned, stock, box,
                 cashAccount, receivable>>

\* count equal shares; the last one takes what is left over.
Shares(remaining, count) ==
  [i \in 1..count |->
     [amount |-> IF i < count THEN remaining \div count
                 ELSE remaining - (count - 1) * (remaining \div count),
      status |-> "PENDING"]]

(* ... and inserts the rows afterwards.                                    *)
SplitWrite(r, count) ==
  LET q == request[r] IN
  /\ q.pc = "splitting"
  /\ count >= 2 /\ count <= q.remaining
  /\ SaleShareable(r, q.sale)
  /\ installments' = [installments EXCEPT ![q.sale] = @ \o Shares(q.remaining, count)]
  /\ request' = [request EXCEPT ![r] = Idle]
  /\ UNCHANGED <<status, cancels, payments, returned, stock, box, cashAccount, receivable>>

InstallmentFree(r, s, i) ==
  /\ i \in DOMAIN installments[s] /\ installments[s][i].status = "PENDING"
  /\ \A x \in Requests \ {r} :
       request[x].pc = "paying" => request[x].sale # s \/ request[x].index # i

(* payInstallment with a cash box: the installment is locked, its payment  *)
(* inserted, the drawer filled, and the payments visible now are summed.   *)
PayInstallmentSum(r, s, i, b) ==
  /\ request[r] = Idle
  /\ InstallmentFree(r, s, i) /\ SaleShareable(r, s) /\ BoxFree(r, b)
  /\ request' = [request EXCEPT ![r] =
       [pc |-> "paying", sale |-> s, index |-> i, box |-> b,
        paid |-> Paid(s) + installments[s][i].amount]]
  /\ UNCHANGED <<status, cancels, payments, installments, returned, stock, box,
                 cashAccount, receivable>>

(* ... then the sale gets its status and all of it commits.                *)
PayInstallment(r) ==
  LET q == request[r]
      amount == installments[q.sale][q.index].amount IN
  /\ q.pc = "paying"
  /\ installments' = [installments EXCEPT ![q.sale][q.index].status = "PAID"]
  /\ payments' = [payments EXCEPT ![q.sale] = Append(@,
       [origin |-> "installment", method |-> "CASH", amount |-> amount,
        box |-> q.box, status |-> "COMPLETED"])]
  /\ box' = Into(q.box, amount)
  /\ cashAccount' = cashAccount + amount
  /\ receivable' = Collected(q.sale, "CASH", amount)
  /\ status' = [status EXCEPT ![q.sale] = IF q.paid >= Total THEN "PAID" ELSE "PARTIAL"]
  /\ request' = [request EXCEPT ![r] = Idle]
  /\ UNCHANGED <<cancels, returned, stock>>

(* payInstallment without a cash box only marks the installment.           *)
MarkInstallment(r, s, i) ==
  /\ request[r] = Idle /\ InstallmentFree(r, s, i)
  /\ installments' = [installments EXCEPT ![s][i].status = "PAID"]
  /\ UNCHANGED <<status, cancels, payments, returned, stock, box, cashAccount,
                 receivable, request>>

\* Cancelling takes every completed payment of a box out of it.
RefundedBy(s, b) == SumOf(payments[s], Completed(payments[s]) \cap InBox(payments[s], b))

(* SalesService.cancel: all the goods go back, every drawer gives back its *)
(* payments, and the 'Sale' entry, if still live, is reversed; the entries *)
(* of later payments and installments are not.                             *)
Cancel(r, s) ==
  /\ request[r] = Idle /\ SaleFree(r, s)
  /\ status[s] \notin {"NONE", "CANCELLED"} /\ cancels[s] < MaxCancels
  /\ \A b \in Boxes : RefundedBy(s, b) > 0 => BoxFree(r, b)
  /\ stock' = stock + Quantity
  /\ box' = [b \in Boxes |-> box[b] - RefundedBy(s, b)]
  /\ payments' = [payments EXCEPT ![s] =
       [i \in DOMAIN @ |-> [@[i] EXCEPT !.status = "REFUNDED"]]]
  /\ IF cancels[s] = 0
     THEN /\ cashAccount' = cashAccount - Tendered(s, "CASH")
          /\ receivable' = [receivable EXCEPT ![s] =
               @ - (Total - Tendered(s, "CASH") - Tendered(s, "CARD"))]
     ELSE UNCHANGED <<cashAccount, receivable>>
  /\ status' = [status EXCEPT ![s] = "CANCELLED"]
  /\ cancels' = [cancels EXCEPT ![s] = @ + 1]
  /\ UNCHANGED <<installments, returned, request>>

Returnable(s, units) == UnitsReturned(s) + units <= Quantity

(* createSaleReturn: goods back to the stock, the refund from a box that   *)
(* holds enough, or off the customer's debt, or none at all.               *)
Return(r, s, units, target) ==
  /\ request[r] = Idle /\ SaleFree(r, s)
  /\ status[s] \notin {"NONE", "CANCELLED"} /\ Returnable(s, units)
  /\ target \in Boxes => BoxFree(r, target) /\ box[target] >= units
  /\ returned' = [returned EXCEPT ![s][target] = @ + units]
  /\ stock' = stock + units
  /\ box' = IF target \in Boxes THEN Into(target, -units) ELSE box
  /\ cashAccount' = cashAccount - (IF target \in Boxes THEN units ELSE 0)
  /\ receivable' = [receivable EXCEPT ![s] = @ - (IF target = "CREDIT" THEN units ELSE 0)]
  /\ UNCHANGED <<status, cancels, payments, installments, request>>

(* A transaction fails (a deadlock victim, a lost connection) and rolls    *)
(* back, or the splitting request never gets to its inserts.               *)
Abandon(r) ==
  /\ request[r] # Idle
  /\ request' = [request EXCEPT ![r] = Idle]
  /\ UNCHANGED <<status, cancels, payments, installments, returned, stock, box,
                 cashAccount, receivable>>

SalesNext ==
  \E r \in Requests :
    \/ \E s \in SaleIds :
         \/ \E tenders \in TenderLists : Create(r, s, tenders)
         \/ \E m \in CollectMethods, n \in 1..Quantity, b \in CollectBoxes :
              CollectLock(r, s, m, n, b)
         \/ SplitRead(r, s)
         \/ \E i \in DOMAIN installments[s] :
              \/ \E b \in Boxes : PayInstallmentSum(r, s, i, b)
              \/ MarkInstallment(r, s, i)
         \/ Cancel(r, s)
         \/ \E n \in 1..Quantity, x \in RefundTargets : Return(r, s, n, x)
    \/ Collect(r)
    \/ \E count \in 2..Quantity : SplitWrite(r, count)
    \/ PayInstallment(r)
    \/ Abandon(r)

SalesSpec == SalesInit /\ [][SalesNext]_salesVars
-----------------------------------------------------------------------------
(* What was paid at the counter, when the invoice was made or later, never *)
(* exceeds the invoice: two payments at once cannot both see the same      *)
(* remainder.                                                              *)
CounterNeverOverpaid ==
  \A s \in SaleIds :
    LET rows == payments[s] IN
    SumOf(rows, Completed(rows) \cap Settling(rows) \cap AtCounter(rows)) <= Total

(* As long as an invoice was never cancelled, what its entries leave on    *)
(* the receivables account is what the customer still owes: the total less *)
(* the money received and the returns taken off the debt.                  *)
ReceivableIsDebt ==
  \A s \in SaleIds : status[s] # "NONE" /\ cancels[s] = 0 =>
    receivable[s] = Total - Received(s) - returned[s]["CREDIT"]

(* An invoice shown as paid has completed payments for its total, after    *)
(* any cancellation and revival.                                           *)
PaidIsCovered ==
  \A s \in SaleIds : status[s] = "PAID" => SumOf(payments[s], Completed(payments[s])) >= Total

\* What a sale has brought into a drawer and not taken out again.
InDrawer(s, b) ==
  SumOf(payments[s], Completed(payments[s]) \cap Settling(payments[s]) \cap InBox(payments[s], b))
  - (IF b \in RefundTargets THEN returned[s][b] ELSE 0)

Drawer(b) == SumFunctionOnSet([s \in SaleIds |-> InDrawer(s, b)], SaleIds)

\* A CREDIT payment has moved money of a drawer: its sale was cancelled, or it
\* was taken later into a box.
CreditMoved(s) ==
  \E i \in DOMAIN payments[s] : LET p == payments[s][i] IN
    /\ p.method = "CREDIT"
    /\ p.status = "REFUNDED" \/ (p.origin = "payment" /\ p.box # NoBox)

(* Unless a sale on credit was cancelled, or credit was collected into a   *)
(* box, a drawer holds exactly the money of the completed payments made    *)
(* into it, less the cash refunds, whatever was collected, returned and    *)
(* cancelled in between.                                                   *)
DrawerHoldsItsPayments ==
  (\A s \in SaleIds : ~CreditMoved(s)) => \A b \in Boxes : box[b] = Drawer(b)

(* create: credit brings no money into a drawer; so cancelling a sale on   *)
(* credit takes none out.                                                  *)
CreditMovesNoCash == \A b \in Boxes : box[b] = Drawer(b)

(* create: credit is a commitment, not a payment; an invoice on credit is  *)
(* never recorded as settled.                                              *)
CreditIsNotPayment ==
  \A s \in SaleIds : status[s] = "PAID" /\ cancels[s] = 0 => Received(s) >= Total

(* PaymentsService.create: a cancelled invoice cannot be paid; it stays    *)
(* cancelled.                                                              *)
CancelledStaysCancelled ==
  [][\A s \in SaleIds : status[s] = "CANCELLED" => status'[s] = "CANCELLED"]_salesVars

(* createSaleReturn: no more units come back than were sold.               *)
GoodsComeBackOnce == stock <= InitialStock

(* The ledger health check: the boxes and account 1101 agree.              *)
CashAccountMatchesBoxes ==
  cashAccount = SumFunctionOnSet(box, Boxes)

(* createInstallments: the installments of an invoice are defined once, for *)
(* what remained to be paid.                                               *)
InstallmentsWithinTotal ==
  \A s \in SaleIds : SumOf(installments[s], DOMAIN installments[s]) <= Total
-----------------------------------------------------------------------------
(* The inductive invariant behind the four invariants of the run.          *)

\* An invoice that does not exist has no rows.
NothingYet ==
  \A s \in SaleIds : status[s] = "NONE" =>
    /\ payments[s] = <<>> /\ installments[s] = <<>>
    /\ returned[s] = [x \in RefundTargets |-> 0]

\* A request that collects has its sale to itself, so what it has summed is
\* still what is paid; one that pays an installment has seen a part of it.
LockHolds(x, q) ==
  /\ q # Idle => status[q.sale] # "NONE"
  /\ q.pc = "collecting" =>
       q.paidSoFar = Paid(q.sale) /\ q.amount <= Total - q.paidSoFar /\ SaleFree(x, q.sale)
  /\ q.pc = "paying" =>
       /\ q.index \in DOMAIN installments[q.sale]
       /\ q.paid <= Paid(q.sale) + installments[q.sale][q.index].amount

LocksHold == \A x \in Requests : LockHolds(x, request[x])

SalesInv ==
  /\ SalesTypeOK /\ NothingYet /\ LocksHold
  /\ CounterNeverOverpaid /\ ReceivableIsDebt /\ PaidIsCovered /\ DrawerHoldsItsPayments
=============================================================================
