------------------------------ MODULE Treasury ------------------------------
(***************************************************************************)
(* Treasury accounts (TreasuryService), the receipts that are paid into    *)
(* them (RevenueService.collect) and the reconciliation of an account with *)
(* the statement of its bank (ReconciliationService).                      *)
(*                                                                         *)
(* A movement is one transaction with a guarded UPDATE.  autoMatch is one  *)
(* transaction over many lines; its matches are held back in request until *)
(* it commits, and row locks and the unique key on matchedTxId make others *)
(* wait for them.  match, recordLine, addLines and complete read outside   *)
(* of the transaction that writes; recordLine commits twice.               *)
(*                                                                         *)
(* Data abstraction: one company; names, references and descriptions are   *)
(* left out; the journal entry of a movement or a receipt is posted in the *)
(* same transaction (GeneralLedger) and left out here; a day is a number,  *)
(* a movement without a date gets any day.                                 *)
(***************************************************************************)
EXTENDS FiniteSetsExt, Integers

CONSTANTS Account,        \* ids of treasury accounts
          Transaction,    \* ids of TreasuryTransaction rows
          Reconciliation, \* ids of reconciliations
          StatementLine,  \* ids of the lines of bank statements
          NoTransaction,  \* matchedTxId is null
          Request,        \* concurrent requests
          Day,            \* bound: the days that occur
          MatchWindow,    \* MATCH_WINDOW_DAYS
          Balance,        \* bound: the opening and the statement balances that occur
          MaxAmount,      \* bound: the largest amount of a request
          MaxCollected    \* bound: what is collected into all accounts

ASSUME TreasuryConstants ==
  /\ Day \subseteq Int /\ Balance \subseteq Nat
  /\ MatchWindow \in Nat /\ MaxAmount \in Nat /\ MaxCollected \in Nat
  /\ NoTransaction \notin Transaction
  /\ IsFiniteSet(Account) /\ IsFiniteSet(Transaction) /\ IsFiniteSet(StatementLine)

VARIABLES account,        \* TreasuryAccount rows
          collected,      \* what the Receipt rows of an account sum up to
          transaction,    \* TreasuryTransaction rows
          reconciliation, \* BankReconciliation rows
          line,           \* BankStatementLine rows
          request         \* the requests and their locals

book == <<account, collected, transaction>>
treasuryVars == <<account, collected, transaction, reconciliation, line, request>>

Absent == [status |-> "NONE"]
AtRest == [pc |-> "idle"]

Amount == 1 .. MaxAmount
StatementAmount == (-MaxAmount .. MaxAmount) \ {0}

AccountRow == [status : {"LIVE"}, opening : Nat, balance : Nat]

TransactionRow ==
  [status : {"DONE"}, account : Account, amount : Amount, date : Day,
   type : {"DEPOSIT", "WITHDRAWAL", "TRANSFER_OUT", "TRANSFER_IN"}]

ReconciliationRow ==
  [status : {"OPEN", "COMPLETED"}, account : Account, date : Day, balance : Int]

LineRow ==
  [status : {"LINE"}, reconciliation : Reconciliation, date : Day, amount : StatementAmount,
   tx : Transaction \cup {NoTransaction}, method : {"NONE", "AUTO", "MANUAL"}]

RequestStates ==
  [pc : {"adding"}, reconciliation : Reconciliation]
  \cup [pc : {"auto"}, reconciliation : Reconciliation, todo : SUBSET StatementLine,
        matched : SUBSET (StatementLine \X Transaction)]
  \cup [pc : {"auto_found"}, reconciliation : Reconciliation, todo : SUBSET StatementLine,
        matched : SUBSET (StatementLine \X Transaction), line : StatementLine, tx : Transaction]
  \cup [pc : {"matching", "recorded"}, line : StatementLine, tx : Transaction]
  \cup [pc : {"recording"}, line : StatementLine]
  \cup [pc : {"book_read"}, reconciliation : Reconciliation, book : Int]
  \cup [pc : {"bank_read"}, reconciliation : Reconciliation, book : Int, bank : Int]
  \cup [pc : {"completing"}, reconciliation : Reconciliation]
  \cup {AtRest}

TreasuryTypeOK ==
  /\ account \in [Account -> AccountRow \cup {Absent}]
  /\ collected \in [Account -> Nat]
  /\ transaction \in [Transaction -> TransactionRow \cup {Absent}]
  /\ reconciliation \in [Reconciliation -> ReconciliationRow \cup {Absent}]
  /\ line \in [StatementLine -> LineRow \cup {Absent}]
  /\ request \in [Request -> RequestStates]

TreasuryInit ==
  /\ account = [a \in Account |-> Absent]
  /\ collected = [a \in Account |-> 0]
  /\ transaction = [t \in Transaction |-> Absent]
  /\ reconciliation = [k \in Reconciliation |-> Absent]
  /\ line = [l \in StatementLine |-> Absent]
  /\ request = [r \in Request |-> AtRest]
-----------------------------------------------------------------------------
Live(a) == account[a].status = "LIVE"
Open(k) == reconciliation[k].status = "OPEN"
IsLine(l) == line[l].status = "LINE"
IsTransaction(t) == transaction[t].status = "DONE"

Done(r) == request' = [request EXCEPT ![r] = AtRest]

\* SIGNED_AMOUNT: whatever is not a deposit counts as money that left.
SignedAmount(t) ==
  IF transaction[t].type = "DEPOSIT" THEN transaction[t].amount ELSE -transaction[t].amount

\* The transactions of the account up to the day of the statement.
InStatement(k) ==
  {t \in Transaction : /\ IsTransaction(t)
                       /\ transaction[t].account = reconciliation[k].account
                       /\ transaction[t].date <= reconciliation[k].date}

LinesOf(k) == {l \in StatementLine : IsLine(l) /\ line[l].reconciliation = k}
Unmatched(k) == {l \in LinesOf(k) : line[l].tx = NoTransaction}

\* SUM over transactions, and over lines of a statement.
SumOf(txs) == SumFunctionOnSet([t \in Transaction |-> SignedAmount(t)], txs)
SumOfLines(lines) == SumFunctionOnSet([l \in StatementLine |-> line[l].amount], lines)

BookBalance(k) == SumOf(InStatement(k))
UnmatchedBank(k) == SumOfLines(Unmatched(k))

\* Mutant: in transit is what no statement has brought yet.
NotMatchedAtAll(k) == {t \in InStatement(k) : \A l \in StatementLine : IsLine(l) => line[l].tx # t}

\* What the bank has not seen: no line of this reconciliation is matched to it.
NotMatchedHere(k) == {t \in InStatement(k) : \A l \in LinesOf(k) : line[l].tx # t}

InTransit(k) == SumOf(NotMatchedHere(k))

Difference(k) ==
  (reconciliation[k].balance + InTransit(k)) - (BookBalance(k) + UnmatchedBank(k))
-----------------------------------------------------------------------------
CreateAccount(a, opening) ==
  /\ account[a] = Absent
  /\ account' = [account EXCEPT ![a] = [status |-> "LIVE", opening |-> opening, balance |-> opening]]
  /\ UNCHANGED <<collected, transaction, reconciliation, line, request>>

\* Mutant: the UPDATE has no guard on the balance.
PaidAnyway(a, delta) ==
  /\ Live(a)
  /\ account' = [account EXCEPT ![a].balance = @ + delta]

\* UPDATE ... WHERE (balance + delta) >= 0
Paid(a, delta) ==
  /\ Live(a) /\ account[a].balance + delta >= 0
  /\ account' = [account EXCEPT ![a].balance = @ + delta]

\* createTransaction: the balance and the row, in one transaction.
Movement(a, t, type, amount, date) ==
  /\ transaction[t] = Absent
  /\ Paid(a, IF type = "DEPOSIT" THEN amount ELSE -amount)
  /\ transaction' = [transaction EXCEPT ![t] =
       [status |-> "DONE", account |-> a, amount |-> amount, date |-> date, type |-> type]]
  /\ UNCHANGED collected

Move(a, t, type, amount, date) ==
  /\ Movement(a, t, type, amount, date)
  /\ UNCHANGED <<reconciliation, line, request>>

Transfer(a, b, out, in, amount, date) ==
  /\ a # b /\ Live(a) /\ Live(b)
  /\ out # in /\ transaction[out] = Absent /\ transaction[in] = Absent
  /\ account[a].balance >= amount
  /\ account' = [account EXCEPT ![a].balance = @ - amount, ![b].balance = @ + amount]
  /\ transaction' = [transaction EXCEPT
       ![out] = [status |-> "DONE", account |-> a, amount |-> amount, date |-> date,
                 type |-> "TRANSFER_OUT"],
       ![in] = [status |-> "DONE", account |-> b, amount |-> amount, date |-> date,
                type |-> "TRANSFER_IN"]]
  /\ UNCHANGED <<collected, reconciliation, line, request>>

\* RevenueService.collect into a treasury account: a receipt, no transaction row.
Collect(a, amount) ==
  /\ Live(a) /\ SumFunctionOnSet(collected, Account) + amount <= MaxCollected
  /\ account' = [account EXCEPT ![a].balance = @ + amount]
  /\ collected' = [collected EXCEPT ![a] = @ + amount]
  /\ UNCHANGED <<transaction, reconciliation, line, request>>
-----------------------------------------------------------------------------
\* create: one reconciliation per account and day.
Create(k, a, date, balance) ==
  /\ reconciliation[k] = Absent /\ Live(a)
  /\ \A j \in Reconciliation :
       reconciliation[j] # Absent => <<reconciliation[j].account, reconciliation[j].date>> # <<a, date>>
  /\ reconciliation' = [reconciliation EXCEPT ![k] =
       [status |-> "OPEN", account |-> a, date |-> date, balance |-> balance]]
  /\ UNCHANGED <<book, line, request>>

AddRead(r, k) ==
  /\ request[r] = AtRest /\ Open(k)
  /\ request' = [request EXCEPT ![r] = [pc |-> "adding", reconciliation |-> k]]
  /\ UNCHANGED <<book, reconciliation, line>>

\* All the lines of one call, in one transaction.
AddWrite(r, new, amount, date) ==
  /\ request[r].pc = "adding"
  /\ new # {} /\ \A l \in new : line[l] = Absent
  /\ line' = [l \in StatementLine |->
       IF l \in new
       THEN [status |-> "LINE", reconciliation |-> request[r].reconciliation, date |-> date[l],
             amount |-> amount[l], tx |-> NoTransaction, method |-> "NONE"]
       ELSE line[l]]
  /\ Done(r) /\ UNCHANGED <<book, reconciliation>>
-----------------------------------------------------------------------------
\* What request r has matched and not committed.
Held(r) == IF request[r].pc \in {"auto", "auto_found"} THEN request[r].matched ELSE {}

\* No other transaction holds the line or has the entry of tx in the unique key.
NotHeld(r, l, t) ==
  \A x \in Request \ {r} : \A m \in Held(x) : m[1] # l /\ m[2] # t

\* The match of a line as request r sees it.
MatchSeen(r, l) ==
  IF \E m \in Held(r) : m[1] = l
  THEN (CHOOSE m \in Held(r) : m[1] = l)[2]
  ELSE line[l].tx

\* Mutant: BankStatementLine_tx_key does not exist, nor the NOT EXISTS before it.
TakenNever(r, l, t) == FALSE

\* BankStatementLine_tx_key
Taken(r, l, t) == \E b \in StatementLine \ {l} : IsLine(b) /\ MatchSeen(r, b) = t

Matched(row, t, method) == [row EXCEPT !.tx = t, !.method = method]

SameAmount(t, l) == SignedAmount(t) = line[l].amount

Candidates(r, k, l) ==
  {t \in Transaction :
     /\ IsTransaction(t) /\ transaction[t].account = reconciliation[k].account
     /\ SameAmount(t, l)
     /\ transaction[t].date - line[l].date \in -MatchWindow .. MatchWindow
     /\ ~Taken(r, l, t) /\ MatchSeen(r, l) # t}

AutoRead(r, k) ==
  /\ request[r] = AtRest /\ Open(k)
  /\ request' = [request EXCEPT ![r] =
       [pc |-> "auto", reconciliation |-> k, todo |-> Unmatched(k), matched |-> {}]]
  /\ UNCHANGED <<book, reconciliation, line>>

AutoFind(r, l) ==
  LET q == request[r]
      found == Candidates(r, q.reconciliation, l) IN
  /\ q.pc = "auto" /\ l \in q.todo
  /\ \/ /\ ~\E t \in Transaction : found = {t}
        /\ request' = [request EXCEPT ![r].todo = @ \ {l}]
     \/ \E t \in Transaction :
          /\ found = {t}
          /\ request' = [request EXCEPT ![r] =
               [pc |-> "auto_found", reconciliation |-> q.reconciliation, todo |-> q.todo,
                matched |-> q.matched, line |-> l, tx |-> t]]
  /\ UNCHANGED <<book, reconciliation, line>>

\* The UPDATE of one line; a second line with the transaction rolls all back.
AutoMatch(r) ==
  LET q == request[r] IN
  /\ q.pc = "auto_found" /\ NotHeld(r, q.line, q.tx)
  /\ IF Taken(r, q.line, q.tx)
     THEN Done(r)
     ELSE request' = [request EXCEPT ![r] =
            [pc |-> "auto", reconciliation |-> q.reconciliation, todo |-> q.todo \ {q.line},
             matched |-> q.matched \cup {<<q.line, q.tx>>}]]
  /\ UNCHANGED <<book, reconciliation, line>>

AutoCommit(r) ==
  LET q == request[r] IN
  /\ q.pc = "auto" /\ q.todo = {}
  /\ line' = [l \in StatementLine |->
       IF \E t \in Transaction : <<l, t>> \in q.matched
       THEN Matched(line[l], MatchSeen(r, l), "AUTO") ELSE line[l]]
  /\ Done(r) /\ UNCHANGED <<book, reconciliation>>

MatchRead(r, l, t) ==
  /\ request[r] = AtRest /\ IsTransaction(t)
  /\ IsLine(l) /\ Open(line[l].reconciliation)
  /\ request' = [request EXCEPT ![r] = [pc |-> "matching", line |-> l, tx |-> t]]
  /\ UNCHANGED <<book, reconciliation, line>>

\* The UPDATE of match and the last one of recordLine.
MatchWrite(r) ==
  LET q == request[r] IN
  /\ q.pc \in {"matching", "recorded"} /\ NotHeld(r, q.line, q.tx)
  /\ line' = IF Taken(r, q.line, q.tx) THEN line
             ELSE [line EXCEPT ![q.line] = Matched(@, q.tx, "MANUAL")]
  /\ Done(r) /\ UNCHANGED <<book, reconciliation>>

RecordRead(r, l) ==
  /\ request[r] = AtRest
  /\ IsLine(l) /\ Open(line[l].reconciliation) /\ line[l].tx = NoTransaction
  /\ request' = [request EXCEPT ![r] = [pc |-> "recording", line |-> l]]
  /\ UNCHANGED <<book, reconciliation, line>>

\* createTransaction for the line, in a transaction of its own.
RecordMove(r, t) ==
  LET l == request[r].line IN
  /\ request[r].pc = "recording"
  /\ IF line[l].amount > 0
     THEN Movement(reconciliation[line[l].reconciliation].account, t, "DEPOSIT",
                   line[l].amount, line[l].date)
     ELSE Movement(reconciliation[line[l].reconciliation].account, t, "WITHDRAWAL",
                   -line[l].amount, line[l].date)
  /\ request' = [request EXCEPT ![r] = [pc |-> "recorded", line |-> l, tx |-> t]]
  /\ UNCHANGED <<reconciliation, line>>

Unmatch(l) ==
  /\ IsLine(l)
  /\ \A x \in Request : \A m \in Held(x) : m[1] # l
  /\ line' = [line EXCEPT ![l] = Matched(@, NoTransaction, "NONE")]
  /\ UNCHANGED <<book, reconciliation, request>>
-----------------------------------------------------------------------------
(* complete: summary reads the row and the book, then the lines, then what  *)
(* is in transit; the status is set whatever has happened since.            *)
ReadBook(r, k) ==
  /\ request[r] = AtRest /\ Open(k)
  /\ request' = [request EXCEPT ![r] =
       [pc |-> "book_read", reconciliation |-> k, book |-> BookBalance(k)]]
  /\ UNCHANGED <<book, reconciliation, line>>

ReadBank(r) ==
  LET q == request[r] IN
  /\ q.pc = "book_read"
  /\ request' = [request EXCEPT ![r] =
       [pc |-> "bank_read", reconciliation |-> q.reconciliation, book |-> q.book,
        bank |-> UnmatchedBank(q.reconciliation)]]
  /\ UNCHANGED <<book, reconciliation, line>>

ReadTransit(r) ==
  LET q == request[r]
      k == q.reconciliation IN
  /\ q.pc = "bank_read"
  /\ IF reconciliation[k].balance + InTransit(k) = q.book + q.bank
     THEN request' = [request EXCEPT ![r] = [pc |-> "completing", reconciliation |-> k]]
     ELSE Done(r)
  /\ UNCHANGED <<book, reconciliation, line>>

Complete(r) ==
  /\ request[r].pc = "completing"
  /\ reconciliation' = [reconciliation EXCEPT ![request[r].reconciliation].status = "COMPLETED"]
  /\ Done(r) /\ UNCHANGED <<book, line>>

\* The process stops, the user leaves or an error ends the request: what is not committed is lost.
Abort(r) ==
  /\ request[r] # AtRest
  /\ Done(r) /\ UNCHANGED <<book, reconciliation, line>>
-----------------------------------------------------------------------------
Office ==
  \/ \E a \in Account, opening \in Balance : CreateAccount(a, opening)
  \/ \E a \in Account, t \in Transaction, type \in {"DEPOSIT", "WITHDRAWAL"},
        amount \in Amount, date \in Day : Move(a, t, type, amount, date)
  \/ \E a, b \in Account, out, in \in Transaction, amount \in Amount, date \in Day :
        Transfer(a, b, out, in, amount, date)
  \/ \E a \in Account, amount \in Amount : Collect(a, amount)
  \/ \E k \in Reconciliation, a \in Account, date \in Day, balance \in Balance :
        Create(k, a, date, balance)
  \/ \E l \in StatementLine : Unmatch(l)

Step(r) ==
  \/ \E k \in Reconciliation : AddRead(r, k) \/ AutoRead(r, k) \/ ReadBook(r, k)
  \/ \E new \in SUBSET StatementLine :
        \E amount \in [new -> StatementAmount], date \in [new -> Day] : AddWrite(r, new, amount, date)
  \/ \E l \in StatementLine : AutoFind(r, l) \/ RecordRead(r, l)
  \/ \E l \in StatementLine, t \in Transaction : MatchRead(r, l, t)
  \/ \E t \in Transaction : RecordMove(r, t)
  \/ AutoMatch(r) \/ AutoCommit(r) \/ MatchWrite(r)
  \/ ReadBank(r) \/ ReadTransit(r) \/ Complete(r) \/ Abort(r)

TreasuryNext == Office \/ \E r \in Request : Step(r)

TreasurySpec == TreasuryInit /\ [][TreasuryNext]_treasuryVars
-----------------------------------------------------------------------------
\* What a transaction did to the balance of its account.
Effect(t) ==
  IF transaction[t].type \in {"DEPOSIT", "TRANSFER_IN"}
  THEN transaction[t].amount ELSE -transaction[t].amount

OfAccount(a) == {t \in Transaction : IsTransaction(t) /\ transaction[t].account = a}

Effects(a) == SumFunctionOnSet([t \in Transaction |-> Effect(t)], OfAccount(a))

(* The balance column of an account is its opening balance, the receipts   *)
(* collected into it and its transactions, and is never negative, however  *)
(* movements, transfers and recorded statement lines interleave.           *)
BalanceExplained ==
  \A a \in Account : Live(a) =>
    /\ account[a].balance >= 0
    /\ account[a].balance = account[a].opening + collected[a] + Effects(a)

(* A transaction closes at most one line of all statements, and what the   *)
(* machine matched has the amount, the sign and the account of its line.   *)
MatchesAreSound ==
  \A l \in StatementLine : IsLine(l) /\ line[l].tx # NoTransaction =>
    /\ \A b \in StatementLine \ {l} : IsLine(b) => line[b].tx # line[l].tx
    /\ line[l].method = "AUTO" =>
         /\ SignedAmount(line[l].tx) = line[l].amount
         /\ transaction[line[l].tx].account = reconciliation[line[l].reconciliation].account

\* Every match of the reconciliation is to a movement of its own statement and amount.
MatchesFit(k) ==
  \A l \in LinesOf(k) \ Unmatched(k) :
    line[l].tx \in InStatement(k) /\ SignedAmount(line[l].tx) = line[l].amount

(* When the matches fit, the difference is what the user entered minus the *)
(* lines of the statement: movements the book lacks, or has in excess, do  *)
(* not enter it.  This is what the comment in summary says of the formula  *)
(* it replaced.                                                            *)
DifferenceIgnoresBook ==
  \A k \in Reconciliation : reconciliation[k] # Absent /\ MatchesFit(k) =>
    Difference(k) = reconciliation[k].balance - SumOfLines(LinesOf(k))

(* Every movement up to the statement is matched to a line of a statement  *)
(* of the account, and the bank holds what the book holds.                 *)
NothingUnexplained(k) ==
  /\ MatchesFit(k) /\ Unmatched(k) = {}
  /\ \A t \in InStatement(k) : \E j \in Reconciliation :
       /\ reconciliation[j] # Absent /\ reconciliation[j].account = reconciliation[k].account
       /\ \E l \in LinesOf(j) : line[l].tx = t
  /\ reconciliation[k].balance = BookBalance(k)

(* A reconciliation in which nothing is left unexplained has no difference, *)
(* as summary says: whatever is not zero has not been explained yet.        *)
ExplainedIsBalanced ==
  \A k \in Reconciliation : Open(k) /\ NothingUnexplained(k) => Difference(k) = 0

(* A line of a completed reconciliation does not change (open: every change *)
(* is allowed on an open reconciliation only).                              *)
CompletedIsFrozen ==
  [][\A l \in StatementLine :
       IsLine(l) /\ reconciliation[line[l].reconciliation].status = "COMPLETED" =>
         line'[l] = line[l]]_treasuryVars
-----------------------------------------------------------------------------
(* The inductive invariants behind BalanceExplained and MatchesAreSound.   *)

\* An account that does not exist has no receipts and no transactions.
NothingBefore ==
  \A a \in Account : ~Live(a) => collected[a] = 0 /\ OfAccount(a) = {}

\* What the machine may match: the line of a statement, a transaction of its account.
Fits(l, t, k) ==
  /\ IsLine(l) /\ line[l].reconciliation = k
  /\ IsTransaction(t) /\ SameAmount(t, l)
  /\ transaction[t].account = reconciliation[k].account

\* Rows are there that others point to.
RowsExist ==
  /\ \A l \in StatementLine : IsLine(l) =>
       /\ reconciliation[line[l].reconciliation] # Absent
       /\ line[l].tx # NoTransaction => IsTransaction(line[l].tx)
  /\ \A x \in Request : LET q == request[x] IN
       /\ q.pc \in {"adding", "auto", "auto_found", "book_read", "bank_read", "completing"} =>
            reconciliation[q.reconciliation] # Absent
       /\ q.pc \in {"matching", "recorded", "recording"} => IsLine(q.line)
       /\ q.pc \in {"matching", "recorded"} => IsTransaction(q.tx)

InAuto(x) == request[x].pc \in {"auto", "auto_found"}

\* What a request has matched and not committed stays right, and stays its own:
\* no line and no transaction twice, none that another request holds, none
\* that a line it does not hold was matched to meanwhile.
HeldIsSound ==
  /\ \A x \in Request : InAuto(x) => LET q == request[x] IN
       /\ \A l \in q.todo : IsLine(l) /\ line[l].reconciliation = q.reconciliation
       /\ \A m \in q.matched : Fits(m[1], m[2], q.reconciliation) /\ m[1] \notin q.todo
       /\ \A m, n \in q.matched : m[1] = n[1] \/ m[2] = n[2] => m = n
       /\ \A m \in q.matched, b \in StatementLine :
            IsLine(b) /\ line[b].tx = m[2] => \E n \in q.matched : n[1] = b
       /\ q.pc = "auto_found" => q.line \in q.todo /\ Fits(q.line, q.tx, q.reconciliation)
  /\ \A x, y \in Request : x # y =>
       \A m \in Held(x), n \in Held(y) : m[1] # n[1] /\ m[2] # n[2]

TreasuryInv ==
  /\ TreasuryTypeOK /\ NothingBefore /\ BalanceExplained
  /\ RowsExist /\ HeldIsSound /\ MatchesAreSound
=============================================================================
