--------------------------- MODULE GeneralLedger ---------------------------
(***************************************************************************)
(* The general ledger: PostingService (post, postAuto, reverse,            *)
(* reverseBySourceIn), the fiscal years of LedgerService (create, close,   *)
(* open) and the constraints of migration 007 they lean on.                *)
(*                                                                         *)
(* Postings are modelled at the grain of their database transactions,      *)
(* which run concurrently at READ COMMITTED: a transaction reads (year     *)
(* status, next entryNo, the entry to reverse, the sums to carry), INSERTs *)
(* its entry, and commits.  What it inserted is invisible to the others    *)
(* until then, but already blocks them: two unique indexes hold back an    *)
(* equal entryNo or an equal live source, and the foreign key to           *)
(* FiscalYear share-locks the year, which conflicts with the FOR UPDATE of *)
(* closeFiscalYear.                                                        *)
(*                                                                         *)
(* Data abstraction: the lines of an entry are its net (debit minus        *)
(* credit) per account; a date is the fiscal year it falls in; an entry's  *)
(* number is its position in the journal, because max + 1 leaves no gaps.  *)
(***************************************************************************)
EXTENDS Sequences, FiniteSetsExt, Integers

CONSTANTS Permanent,        \* asset, liability and equity accounts
          Temporary,        \* revenue and expense accounts
          RetainedEarnings, \* the account that closing carries the result to
          Documents,        \* source documents (invoices, payments, ...)
          DocumentLines,    \* the postings documents give rise to
          Years,            \* fiscal years, numbered in calendar order
          Txs,              \* concurrent database transactions
          MaxEntries        \* bound: entries in the journal

Accounts == Permanent \cup Temporary

ASSUME LedgerConstants ==
  /\ IsFiniteSet(Permanent) /\ IsFiniteSet(Temporary)
  /\ RetainedEarnings \in Permanent
  /\ Permanent \cap Temporary = {}
  /\ DocumentLines \subseteq [Accounts -> Int]
  /\ Years \subseteq Nat \ {0}
  /\ MaxEntries \in Nat

VARIABLES journal,     \* committed entries; the index is the entryNo
          balance,     \* [Accounts -> Int]: Account.balance, debit positive
          yearStatus,  \* [Years -> ...]: FiscalYear.status
          tx           \* [Txs -> a transaction and its locals]

vars == <<journal, balance, yearStatus, tx>>

NoSource == 0   \* the NULL sourceId of a manual entry

EntryTypes == {"DOCUMENT", "MANUAL", "REVERSAL", "FiscalYearClose", "FiscalYearOpen"}

EntriesWith(lines) ==
  [type : EntryTypes, source : Documents \cup Nat, year : Years,
   status : {"POSTED", "REVERSED"}, lines : lines]

Idle == [pc |-> "idle"]

\* no: the entryNo it read; reverses: the entry it neutralises, or 0;
\* closes: the year it closes, or 0; rowLocked: it holds the row of the entry
\* it reverses; keyLocked: its foreign key holds the year's share lock.
TransactionsWith(lines) ==
  [pc : {"ready", "inserted"}, no : Nat, entry : EntriesWith(lines),
   reverses : Nat, closes : Years \cup {0}, rowLocked : BOOLEAN,
   keyLocked : BOOLEAN]
  \cup [pc : {"empty"}, closes : Years]
  \cup [pc : {"idle", "lost"}]

TypeOK ==
  /\ journal \in Seq(EntriesWith([Accounts -> Int]))
  /\ balance \in [Accounts -> Int]
  /\ yearStatus \in [Years -> {"NONE", "OPEN", "CLOSED"}]
  /\ tx \in [Txs -> TransactionsWith([Accounts -> Int])]

Init ==
  /\ journal = <<>>
  /\ balance = [a \in Accounts |-> 0]
  /\ yearStatus = [y \in Years |-> "NONE"]
  /\ tx = [t \in Txs |-> Idle]
-----------------------------------------------------------------------------
Entry(type, source, year, lines) ==
  [type |-> type, source |-> source, year |-> year, status |-> "POSTED",
   lines |-> lines]

\* SUM(debit) - SUM(credit) of an account over the entries of some years.
NetOf(a, years) ==
  SumFunctionOnSet([i \in DOMAIN journal |-> journal[i].lines[a]],
                   {i \in DOMAIN journal : journal[i].year \in years})

LiveEntry(e) == e.status # "REVERSED"

SameSource(e, f) == e.type = f.type /\ e.source = f.source /\ e.source # NoSource

Inserted(t) == tx[t].pc = "inserted"

\* closeFiscalYear holds the FiscalYear row FOR UPDATE from its first read.
YearFree(t, y) ==
  \A x \in Txs \ {t} : tx[x].pc \in {"ready", "inserted", "empty"} => tx[x].closes # y

\* The row of the entry being reversed, held FOR UPDATE.
EntryFree(t, i) ==
  \A x \in Txs \ {t} :
    tx[x].pc \in {"ready", "inserted"} => ~(tx[x].rowLocked /\ tx[x].reverses = i)

\* Mutant: entry numbers from a sequence instead of max + 1 never collide.
NextEntryNoFromSequence(t) ==
  Len(journal) + 1 + Cardinality({x \in Txs \ {t} : tx[x].pc \in {"ready", "inserted"}})

\* nextEntryNo: COALESCE(max(entryNo), 0) + 1 over what is committed.
NextEntryNo(t) == Len(journal) + 1
-----------------------------------------------------------------------------
(* postIn up to its INSERT: the year of the date must exist and be open,   *)
(* some line must not be zero, and the next number is read.                *)
ReadyWith(t, entry, reverses, closes, rowLocked) ==
  /\ tx[t] = Idle
  /\ Len(journal) < MaxEntries
  /\ yearStatus[entry.year] = "OPEN"
  /\ \E a \in Accounts : entry.lines[a] # 0
  /\ tx' = [tx EXCEPT ![t] =
       [pc |-> "ready", no |-> NextEntryNo(t), entry |-> entry,
        reverses |-> reverses, closes |-> closes, rowLocked |-> rowLocked,
        keyLocked |-> FALSE]]
  /\ UNCHANGED <<journal, balance, yearStatus>>

(* postAuto / post: a document's entry, or a manual one without a source.  *)
PostDocument(t, d, y, lines) ==
  ReadyWith(t, Entry("DOCUMENT", d, y, lines), 0, 0, FALSE)

PostManual(t, y, lines) ==
  ReadyWith(t, Entry("MANUAL", NoSource, y, lines), 0, 0, FALSE)

\* Mutant: debit and credit are not swapped.
NegatedNot(lines) == lines

\* Debit and credit change sides.
Negated(lines) == [a \in Accounts |-> -lines[a]]

(* reverseBySourceIn, called by the cancellation of a document: reads the  *)
(* live entry of the document without a lock.                              *)
ReverseBySource(t, i, y) ==
  /\ journal[i].type = "DOCUMENT" /\ LiveEntry(journal[i])
  /\ ReadyWith(t, Entry("REVERSAL", i, y, Negated(journal[i].lines)), i, 0, FALSE)

(* reverse: any live entry, the reversals and openings included, read FOR  *)
(* UPDATE.                                                                 *)
Reverse(t, i, y) ==
  /\ LiveEntry(journal[i]) /\ EntryFree(t, i)
  /\ ReadyWith(t, Entry("REVERSAL", i, y, Negated(journal[i].lines)), i, 0, TRUE)

\* The closing entry: every temporary account of the year is zeroed and the
\* difference goes to retained earnings.
ClosingLines(y) ==
  [a \in Accounts |->
     IF a \in Temporary THEN -NetOf(a, {y})
     ELSE IF a = RetainedEarnings
       THEN SumFunctionOnSet([b \in Temporary |-> NetOf(b, {y})], Temporary)
     ELSE 0]

HasActivity(y) == \E a \in Temporary : NetOf(a, {y}) # 0

NetIncome(y) == -ClosingLines(y)[RetainedEarnings]

\* Mutant: closeFiscalYear reads the year without FOR UPDATE.
CanLockYearShared(t, y) == YearFree(t, y)

CanLockYear(t, y) ==
  /\ YearFree(t, y)
  /\ \A x \in Txs : Inserted(x) /\ tx[x].keyLocked => tx[x].entry.year # y

(* closeFiscalYear with activity: lock the year, sum, post the closing     *)
(* entry.  A net income of exactly zero leaves a retained-earnings line    *)
(* with two zero sides, which postIn refuses: the close rolls back.        *)
CloseYear(t, y) ==
  /\ CanLockYear(t, y)
  /\ HasActivity(y) /\ NetIncome(y) # 0
  /\ ReadyWith(t, Entry("FiscalYearClose", y, y, ClosingLines(y)), 0, y, FALSE)

(* closeFiscalYear without activity: the year is only closed.              *)
CloseEmptyYear(t, y) ==
  /\ tx[t] = Idle
  /\ yearStatus[y] = "OPEN" /\ CanLockYear(t, y)
  /\ ~HasActivity(y)
  /\ tx' = [tx EXCEPT ![t] = [pc |-> "empty", closes |-> y]]
  /\ UNCHANGED <<journal, balance, yearStatus>>

\* The year right before y, among those that were created.
Previous(y) == {x \in Years : x < y /\ yearStatus[x] # "NONE"}

\* The opening entry: what every entry dated up to the end of the previous
\* year left on the permanent accounts.
OpeningLines(y) ==
  [a \in Accounts |->
     IF a \in Permanent THEN NetOf(a, {x \in Years : x <= Max(Previous(y))}) ELSE 0]

Drift(lines) == SumFunctionOnSet(lines, Accounts)

(* openFiscalYear: only after a closed year, only a balanced entry.  It    *)
(* locks nothing; its sums and its number are read in one step here.       *)
OpenYear(t, y) ==
  /\ Previous(y) # {} /\ yearStatus[Max(Previous(y))] = "CLOSED"
  /\ Drift(OpeningLines(y)) = 0
  /\ ReadyWith(t, Entry("FiscalYearOpen", y, y, OpeningLines(y)), 0, 0, FALSE)

(* createFiscalYear.                                                       *)
CreateYear(y) ==
  /\ yearStatus[y] = "NONE"
  /\ yearStatus' = [yearStatus EXCEPT ![y] = "OPEN"]
  /\ UNCHANGED <<journal, balance, tx>>
-----------------------------------------------------------------------------
EntryNoTaken(t) == tx[t].no <= Len(journal)

\* Mutant: the unique index on the source of live entries is missing.
SourceTakenNever(t) == FALSE

SourceTaken(t) ==
  \E i \in DOMAIN journal : LiveEntry(journal[i]) /\ SameSource(journal[i], tx[t].entry)

\* An uncommitted row with an equal key makes the INSERT wait.
MustWait(t) ==
  \E x \in Txs \ {t} :
    /\ Inserted(x)
    /\ tx[x].no = tx[t].no \/ SameSource(tx[x].entry, tx[t].entry)

(* The INSERT: the trigger sees an open year and no index refuses the row. *)
(* The foreign key is checked last and gets its lock at once unless a      *)
(* closing transaction holds the year.                                     *)
Insert(t) ==
  /\ tx[t].pc = "ready"
  /\ yearStatus[tx[t].entry.year] = "OPEN"
  /\ ~EntryNoTaken(t) /\ ~SourceTaken(t) /\ ~MustWait(t)
  /\ tx' = [tx EXCEPT ![t].pc = "inserted",
                      ![t].keyLocked = YearFree(t, tx[t].entry.year)]
  /\ UNCHANGED <<journal, balance, yearStatus>>

(* The number was taken while the transaction was getting ready: it fails, *)
(* and nothing in the program runs it again.                               *)
InsertLosesNumber(t) ==
  /\ tx[t].pc = "ready"
  /\ EntryNoTaken(t)
  /\ tx' = [tx EXCEPT ![t] = [pc |-> "lost"]]
  /\ UNCHANGED <<journal, balance, yearStatus>>

(* The trigger or the source index refuses the row.                        *)
InsertRefused(t) ==
  /\ tx[t].pc = "ready"
  /\ yearStatus[tx[t].entry.year] = "CLOSED" \/ SourceTaken(t)
  /\ tx' = [tx EXCEPT ![t] = Idle]
  /\ UNCHANGED <<journal, balance, yearStatus>>

(* The closing transaction is over: the waiting foreign key gets its lock. *)
KeyLockGranted(t) ==
  /\ Inserted(t) /\ ~tx[t].keyLocked
  /\ YearFree(t, tx[t].entry.year)
  /\ tx' = [tx EXCEPT ![t].keyLocked = TRUE]
  /\ UNCHANGED <<journal, balance, yearStatus>>

(* reverseBySourceIn reaches its UPDATE of the original and locks its row. *)
LockOriginal(t) ==
  /\ Inserted(t) /\ tx[t].keyLocked
  /\ tx[t].reverses # 0 /\ ~tx[t].rowLocked
  /\ EntryFree(t, tx[t].reverses)
  /\ tx' = [tx EXCEPT ![t].rowLocked = TRUE]
  /\ UNCHANGED <<journal, balance, yearStatus>>

\* status = 'REVERSED' on the original (no entry has number 0).
Marked(entries, i) ==
  [k \in DOMAIN entries |->
     IF k = i THEN [entries[k] EXCEPT !.status = "REVERSED"] ELSE entries[k]]

\* Mutant: the account balances are updated by documents only.
AppliedToBalanceOfDocuments(entry) ==
  IF entry.type = "DOCUMENT" THEN [a \in Accounts |-> balance[a] + entry.lines[a]]
  ELSE balance

\* applyToBalance for every line (balance kept debit positive here).
AppliedToBalance(entry) == [a \in Accounts |-> balance[a] + entry.lines[a]]

(* COMMIT: the entry becomes visible with its effect on the balances, on   *)
(* the entry it reverses (whose year the trigger wants open) and on the    *)
(* year it closes.                                                         *)
Commit(t) ==
  /\ Inserted(t) /\ tx[t].keyLocked
  /\ tx[t].reverses # 0 =>
       tx[t].rowLocked /\ yearStatus[journal[tx[t].reverses].year] = "OPEN"
  /\ journal' = Append(Marked(journal, tx[t].reverses), tx[t].entry)
  /\ balance' = AppliedToBalance(tx[t].entry)
  /\ yearStatus' = [y \in Years |-> IF y = tx[t].closes THEN "CLOSED" ELSE yearStatus[y]]
  /\ tx' = [tx EXCEPT ![t] = Idle]

CommitEmptyClose(t) ==
  /\ tx[t].pc = "empty"
  /\ yearStatus' = [yearStatus EXCEPT ![tx[t].closes] = "CLOSED"]
  /\ tx' = [tx EXCEPT ![t] = Idle]
  /\ UNCHANGED <<journal, balance>>

(* ROLLBACK: a deadlock victim, a failed statement, a lost connection; or  *)
(* the caller of a lost transaction has seen its error.                    *)
Rollback(t) ==
  /\ tx[t] # Idle
  /\ tx' = [tx EXCEPT ![t] = Idle]
  /\ UNCHANGED <<journal, balance, yearStatus>>

Next ==
  \/ \E y \in Years : CreateYear(y)
  \/ \E t \in Txs :
       \/ \E y \in Years :
            \/ \E lines \in DocumentLines :
                 \/ PostManual(t, y, lines)
                 \/ \E d \in Documents : PostDocument(t, d, y, lines)
            \/ \E i \in DOMAIN journal : ReverseBySource(t, i, y) \/ Reverse(t, i, y)
            \/ CloseYear(t, y)
            \/ CloseEmptyYear(t, y)
            \/ OpenYear(t, y)
       \/ Insert(t) \/ InsertLosesNumber(t) \/ InsertRefused(t)
       \/ KeyLockGranted(t) \/ LockOriginal(t)
       \/ Commit(t) \/ CommitEmptyClose(t) \/ Rollback(t)

Spec == Init /\ [][Next]_vars
-----------------------------------------------------------------------------
(* A source document never has two live entries: posting an invoice twice  *)
(* is impossible, even for two requests at once and around a cancellation  *)
(* (JournalEntry_source_key).                                              *)
OneLiveEntryPerSource ==
  \A i, j \in DOMAIN journal :
    /\ LiveEntry(journal[i]) /\ LiveEntry(journal[j])
    /\ SameSource(journal[i], journal[j])
    => i = j

(* A neutralised entry stays in the journal and has a reversal that        *)
(* mirrors its lines: no path marks an entry REVERSED without posting the  *)
(* opposite.                                                               *)
ReversalsMirror ==
  \A i \in DOMAIN journal : journal[i].status = "REVERSED" =>
    \E j \in DOMAIN journal :
      /\ journal[j].type = "REVERSAL" /\ journal[j].source = i
      /\ \A a \in Accounts : journal[j].lines[a] = -journal[i].lines[a]

(* Account.balance, a shortcut for display, is what the journal adds up to *)
(* after any interleaving of postings and reversals.                       *)
BalancesFollowJournal == \A a \in Accounts : balance[a] = NetOf(a, Years)

(* Once the closing entry of a year is in the journal, every revenue and   *)
(* expense account of the year is zero for good: no posting that was under *)
(* way during the close escaped its sums.                                  *)
ClosingEntrySettlesYear ==
  \A i \in DOMAIN journal : journal[i].type = "FiscalYearClose" =>
    \A a \in Temporary : NetOf(a, {journal[i].year}) = 0

(* No entry of a year ever follows its closing entry: a posting that was   *)
(* waiting for the year's lock during the close has lost its number to the *)
(* closing entry and fails.                                                *)
NothingAfterClosing ==
  \A i, j \in DOMAIN journal :
    journal[i].type = "FiscalYearClose" /\ i < j => journal[j].year # journal[i].year

(* Migration 007: a closed year takes no new entry, by whatever path.      *)
ClosedYearIsSettled ==
  \A y \in Years : yearStatus[y] = "CLOSED" => \A a \in Temporary : NetOf(a, {y}) = 0

(* openFiscalYear: the balance sheet "as of" is right before the opening   *)
(* entry, which only serves the trial balance of the new year; so the      *)
(* opening must not change what the balance sheet counts.                  *)
BalanceSheetCountsOnce ==
  \A a \in Permanent :
    SumFunctionOnSet([i \in DOMAIN journal |-> journal[i].lines[a]],
                     {i \in DOMAIN journal : journal[i].type = "FiscalYearOpen"}) = 0

(* nextEntryNo: the transaction that loses the race for a number fails and *)
(* is tried again; so no request ends with the collision.                  *)
NoPostingLostToNumbering == \A t \in Txs : tx[t].pc # "lost"

(* closeFiscalYear has two guards, drafts and atomicity; an open year with *)
(* no drafts can therefore be closed, with or without activity.            *)
OpenYearIsClosable ==
  \A y \in Years : yearStatus[y] = "OPEN" /\ HasActivity(y) => NetIncome(y) # 0
-----------------------------------------------------------------------------
Serial == INSTANCE SerialLedger WITH entries <- journal, status <- yearStatus

(* The transactions of PostingService and LedgerService are serializable   *)
(* at their commits: whatever interleaves between the reads of a posting,  *)
(* a reversal, a close or an opening and its COMMIT, its effect is that of *)
(* one step on the journal as it is then.  Only the status of an entry's   *)
(* year is read too early: see SerialLedger.                               *)
ImplementsSerialLedger == Serial!Spec
=============================================================================
