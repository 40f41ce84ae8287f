------------------------ MODULE GeneralLedger_proofs ------------------------
(***************************************************************************)
(* Proofs about GeneralLedger for any number of concurrent transactions,   *)
(* documents, years and entries.  They rest on the numbering: an entry     *)
(* whose INSERT has gone through carries the number right after the        *)
(* journal, so at most one such entry is ever in flight.                   *)
(*                                                                         *)
(* The second part is about sums: an account's net over some years is a    *)
(* sum over the journal, of which COMMIT changes one term.                 *)
(*                                                                         *)
(* The third part is the refinement of SerialLedger.  The fourth is about  *)
(* Treasury, the books of the bank.                                        *)
(***************************************************************************)
EXTENDS GeneralLedger, Treasury, SequenceTheorems, Lemmas

Working(t) == tx[t].pc \in {"ready", "inserted"}

(* What a transaction carries is still true of the journal.                *)
LocalsHold ==
  \A t \in Txs : Working(t) =>
    /\ tx[t].no \in 1..(Len(journal) + 1)
    /\ tx[t].entry.status = "POSTED"
    /\ tx[t].entry.type = "FiscalYearClose" => tx[t].closes = tx[t].entry.year
    /\ tx[t].reverses # 0 =>
         /\ tx[t].reverses \in DOMAIN journal
         /\ tx[t].entry.type = "REVERSAL" /\ tx[t].entry.source = tx[t].reverses
         /\ tx[t].entry.lines = Negated(journal[tx[t].reverses].lines)

(* An entry in flight is alone and has won its number and its source.      *)
InsertedAlone ==
  \A t \in Txs : Inserted(t) =>
    /\ tx[t].no = Len(journal) + 1
    /\ ~SourceTaken(t)
    /\ \A x \in Txs \ {t} : ~Inserted(x)

(* A year with a closing entry is closed and no entry in flight is in it.  *)
ClosingIsFinal ==
  \A i \in DOMAIN journal : journal[i].type = "FiscalYearClose" =>
    /\ yearStatus[journal[i].year] = "CLOSED"
    /\ \A t \in Txs : Inserted(t) => tx[t].entry.year # journal[i].year

IInv ==
  /\ TypeOK /\ LocalsHold /\ InsertedAlone /\ ClosingIsFinal
  /\ OneLiveEntryPerSource /\ ReversalsMirror /\ NothingAfterClosing
-----------------------------------------------------------------------------
(* The initial state.                                                      *)
LEMMA Initially == Init => IInv
<1> SUFFICES ASSUME Init PROVE IInv
  OBVIOUS
<1>1. TypeOK
  BY DEF Init, TypeOK, TransactionsWith, Idle
<1>2. \A t \in Txs : tx[t].pc = "idle"
  BY DEF Init, Idle
<1>3. LocalsHold /\ InsertedAlone
  BY <1>2 DEF LocalsHold, InsertedAlone, Working, Inserted
<1>4. DOMAIN journal = {}
  BY DEF Init
<1>5. ClosingIsFinal /\ OneLiveEntryPerSource /\ ReversalsMirror /\ NothingAfterClosing
  BY <1>4 DEF ClosingIsFinal, OneLiveEntryPerSource, ReversalsMirror, NothingAfterClosing
<1> QED
  BY <1>1, <1>3, <1>5 DEF IInv

(* A transaction that gets ready: nothing committed changes and nothing    *)
(* new is in flight.                                                       *)
LEMMA ReadyKeeps ==
  ASSUME IInv, NEW t \in Txs, NEW type \in EntryTypes,
         NEW source \in Documents \cup Nat, NEW year \in Years,
         NEW lines \in [Accounts -> Int],
         NEW reverses \in Nat, NEW closes \in Years \cup {0},
         NEW rowLocked \in BOOLEAN,
         ReadyWith(t, Entry(type, source, year, lines), reverses, closes, rowLocked),
         type = "FiscalYearClose" => closes = year,
         reverses # 0 => /\ reverses \in DOMAIN journal
                         /\ type = "REVERSAL" /\ source = reverses
                         /\ lines = Negated(journal[reverses].lines)
  PROVE  IInv'
<1> DEFINE entry == Entry(type, source, year, lines)
           record == [pc |-> "ready", no |-> NextEntryNo(t), entry |-> entry,
                      reverses |-> reverses, closes |-> closes,
                      rowLocked |-> rowLocked, keyLocked |-> FALSE]
<1> DEFINE L == [Accounts -> Int]
<1>1. journal \in Seq(EntriesWith(L)) /\ tx \in [Txs -> TransactionsWith(L)]
  BY DEF IInv, TypeOK
<1>2. tx' = [tx EXCEPT ![t] = record] /\ UNCHANGED <<journal, balance, yearStatus>>
  BY DEF ReadyWith
<1>3. \A x \in Txs : tx'[x] = IF x = t THEN record ELSE tx[x]
  BY <1>1, <1>2
<1> HIDE DEF record
<1>4. /\ record.pc = "ready" /\ record.no = Len(journal) + 1
      /\ record.entry = entry /\ record.reverses = reverses
      /\ record.closes = closes
  BY DEF record, NextEntryNo
<1>5. /\ entry.type = type /\ entry.source = source /\ entry.year = year
      /\ entry.status = "POSTED" /\ entry.lines = lines
  BY DEF Entry
<1>6. Len(journal) \in Nat
  BY <1>1
<1>7. TypeOK'
  <2>1. entry \in EntriesWith(L)
    BY DEF Entry, EntriesWith
  <2>2. record \in TransactionsWith(L)
    BY <1>6, <2>1 DEF record, TransactionsWith, NextEntryNo
  <2> HIDE DEF entry, record
  <2>3. tx' \in [Txs -> TransactionsWith(L)]
    BY <1>1, <1>2, <2>2
  <2> QED
    BY <1>2, <2>3 DEF IInv, TypeOK
<1>8. LocalsHold'
  <2> SUFFICES ASSUME NEW x \in Txs, Working(x)'
               PROVE  /\ (tx[x].no \in 1..(Len(journal) + 1))'
                      /\ (tx[x].entry.status = "POSTED")'
                      /\ (tx[x].entry.type = "FiscalYearClose" => tx[x].closes = tx[x].entry.year)'
                      /\ (tx[x].reverses # 0 =>
                            /\ tx[x].reverses \in DOMAIN journal
                            /\ tx[x].entry.type = "REVERSAL" /\ tx[x].entry.source = tx[x].reverses
                            /\ tx[x].entry.lines = Negated(journal[tx[x].reverses].lines))'
    BY DEF LocalsHold
  <2>1. CASE x = t
    BY <1>2, <1>3, <1>4, <1>5, <1>6, <2>1 DEF Negated
  <2>2. CASE x # t
    <3>1. tx'[x] = tx[x] /\ Working(x) /\ journal' = journal
      BY <1>2, <1>3, <2>2 DEF Working
    <3> QED BY <3>1 DEF IInv, LocalsHold, Negated
  <2> QED
    BY <2>1, <2>2
<1>9. \A x \in Txs : Inserted(x)' => Inserted(x) /\ tx'[x] = tx[x]
  BY <1>3, <1>4 DEF Inserted
<1>10. InsertedAlone'
  BY <1>2, <1>9 DEF IInv, InsertedAlone, SourceTaken
<1>11. ClosingIsFinal'
  BY <1>2, <1>9 DEF IInv, ClosingIsFinal
<1>12. OneLiveEntryPerSource' /\ ReversalsMirror' /\ NothingAfterClosing'
  BY <1>2 DEF IInv, OneLiveEntryPerSource, ReversalsMirror, NothingAfterClosing
<1> QED
  BY <1>7, <1>8, <1>10, <1>11, <1>12 DEF IInv

(* A transaction that ends without a trace, or that locks an empty year.   *)
LEMMA GivingUpKeeps ==
  ASSUME IInv, NEW t \in Txs, NEW r,
         r \in [pc : {"idle", "lost"}] \cup [pc : {"empty"}, closes : Years],
         tx' = [tx EXCEPT ![t] = r], UNCHANGED <<journal, balance, yearStatus>>
  PROVE  IInv'
<1> DEFINE L == [Accounts -> Int]
<1>1. journal \in Seq(EntriesWith(L)) /\ tx \in [Txs -> TransactionsWith(L)]
  BY DEF IInv, TypeOK
<1>2. r.pc \in {"idle", "lost", "empty"}
  OBVIOUS
<1>3. \A x \in Txs : tx'[x] = IF x = t THEN r ELSE tx[x]
  BY <1>1
<1>4. TypeOK'
  <2>1. r \in TransactionsWith(L)
    BY DEF TransactionsWith
  <2>2. tx' \in [Txs -> TransactionsWith(L)]
    BY <1>1, <2>1
  <2> QED
    BY <1>1, <2>2 DEF IInv, TypeOK
<1>5. \A x \in Txs : Working(x)' => Working(x) /\ tx'[x] = tx[x]
  BY <1>2, <1>3 DEF Working
<1>6. \A x \in Txs : Inserted(x)' => Inserted(x) /\ tx'[x] = tx[x]
  BY <1>2, <1>3 DEF Inserted
<1>7. LocalsHold'
  BY <1>5 DEF IInv, LocalsHold, Negated
<1>8. InsertedAlone'
  BY <1>6 DEF IInv, InsertedAlone, SourceTaken
<1>9. ClosingIsFinal'
  BY <1>6 DEF IInv, ClosingIsFinal
<1>10. OneLiveEntryPerSource' /\ ReversalsMirror' /\ NothingAfterClosing'
  BY DEF IInv, OneLiveEntryPerSource, ReversalsMirror, NothingAfterClosing
<1> QED
  BY <1>4, <1>7, <1>8, <1>9, <1>10 DEF IInv

(* The entries of a journal are entries.                                   *)
LEMMA EntriesOf ==
  ASSUME NEW L, NEW s \in Seq(EntriesWith(L))
  PROVE  \A k \in DOMAIN s : s[k] \in EntriesWith(L) /\ s[k].year \in Years
<1>1. \A k \in DOMAIN s : s[k] \in EntriesWith(L)
  OBVIOUS
<1> QED
  BY <1>1 DEF EntriesWith

\* r is s with e at its end and, if i is one of its entries, that one voided.
Extends(r, s, i, e, L) ==
  /\ r \in Seq(EntriesWith(L))
  /\ Len(r) = Len(s) + 1
  /\ DOMAIN r = 1..(Len(s) + 1)
  /\ r[Len(s) + 1] = e
  /\ \A k \in 1..Len(s) :
       /\ r[k].type = s[k].type /\ r[k].source = s[k].source
       /\ r[k].year = s[k].year /\ r[k].lines = s[k].lines
       /\ r[k].status = IF k = i THEN "REVERSED" ELSE s[k].status

(* What COMMIT makes of the journal: every entry keeps everything but the  *)
(* status of the one that is reversed, and the new entry comes last.       *)
LEMMA CommittedJournal ==
  ASSUME NEW L, NEW s \in Seq(EntriesWith(L)), NEW i \in Nat,
         NEW e \in EntriesWith(L)
  PROVE  Extends(Append(Marked(s, i), e), s, i, e, L)
<1> DEFINE r == Append(Marked(s, i), e)
           m == Marked(s, i)
<1>1. Len(s) \in Nat /\ DOMAIN s = 1..Len(s) /\ \A k \in 1..Len(s) : s[k] \in EntriesWith(L)
  OBVIOUS
<1>2. \A k \in 1..Len(s) :
        /\ m[k] \in EntriesWith(L)
        /\ m[k].type = s[k].type /\ m[k].source = s[k].source
        /\ m[k].year = s[k].year /\ m[k].lines = s[k].lines
        /\ m[k].status = IF k = i THEN "REVERSED" ELSE s[k].status
  BY <1>1 DEF Marked, EntriesWith
<1>3. m \in [1..Len(s) -> EntriesWith(L)]
  <2>1. m = [k \in 1..Len(s) |->
               IF k = i THEN [s[k] EXCEPT !.status = "REVERSED"] ELSE s[k]]
    BY <1>1 DEF Marked
  <2> QED
    BY <1>2, <2>1
<1> HIDE DEF m
<1>4. m \in Seq(EntriesWith(L)) /\ Len(m) = Len(s)
  BY <1>1, <1>3, SeqDef
<1>5. /\ r \in Seq(EntriesWith(L)) /\ Len(r) = Len(m) + 1
      /\ \A k \in 1..Len(m) : r[k] = m[k]
      /\ r[Len(m) + 1] = e
  BY <1>4, AppendProperties DEF m
<1> HIDE DEF r
<1>6. Len(r) = Len(s) + 1 /\ DOMAIN r = 1..(Len(s) + 1) /\ r[Len(s) + 1] = e
  BY <1>1, <1>4, <1>5
<1>7. \A k \in 1..Len(s) : r[k] = m[k]
  BY <1>4, <1>5
<1>8. Extends(r, s, i, e, L)
  BY <1>2, <1>5, <1>6, <1>7 DEF Extends
<1> QED
  BY <1>8 DEF r

(* A step that only moves locks or the program counter of one transaction  *)
(* at work, and does not put an entry in flight.                           *)
LEMMA LocksKeep ==
  ASSUME IInv, NEW t \in Txs, NEW r \in TransactionsWith([Accounts -> Int]), r.pc = tx[t].pc, Working(t),
         r.no = tx[t].no, r.entry = tx[t].entry,
         r.reverses = tx[t].reverses, r.closes = tx[t].closes,
         tx' = [tx EXCEPT ![t] = r], UNCHANGED <<journal, balance, yearStatus>>
  PROVE  IInv'
<1> DEFINE L == [Accounts -> Int]
<1>0. tx \in [Txs -> TransactionsWith(L)]
  BY DEF IInv, TypeOK
<1>1. \A x \in Txs : tx'[x] = IF x = t THEN r ELSE tx[x]
  BY <1>0
<1>2. \A x \in Txs : /\ tx'[x].pc = tx[x].pc
                     /\ Working(x) => /\ tx'[x].no = tx[x].no
                                      /\ tx'[x].entry = tx[x].entry
                                      /\ tx'[x].reverses = tx[x].reverses
                                      /\ tx'[x].closes = tx[x].closes
  BY <1>1
<1>3. tx' \in [Txs -> TransactionsWith(L)]
  BY <1>0
<1>4. TypeOK'
  BY <1>3 DEF IInv, TypeOK
<1>5. LocalsHold'
  BY <1>2 DEF IInv, LocalsHold, Working, Negated
<1>6. InsertedAlone'
  BY <1>2 DEF IInv, InsertedAlone, SourceTaken, Inserted, Working
<1>7. ClosingIsFinal'
  BY <1>2 DEF IInv, ClosingIsFinal, Inserted, Working
<1>8. OneLiveEntryPerSource' /\ ReversalsMirror' /\ NothingAfterClosing'
  BY DEF IInv, OneLiveEntryPerSource, ReversalsMirror, NothingAfterClosing
<1> QED
  BY <1>4, <1>5, <1>6, <1>7, <1>8 DEF IInv

(* The INSERT gives the transaction the number after the journal, and the  *)
(* unique indexes leave it alone in flight.                                *)
LEMMA InsertKeeps == ASSUME IInv, NEW t \in Txs, Insert(t) PROVE IInv'
<1> DEFINE L == [Accounts -> Int]
<1>1. journal \in Seq(EntriesWith(L)) /\ tx \in [Txs -> TransactionsWith(L)]
  BY DEF IInv, TypeOK
<1>2. Working(t) /\ tx[t].pc = "ready" /\ UNCHANGED <<journal, balance, yearStatus>>
  BY DEF Insert, Working
<1>3. tx[t] \in [pc : {"ready", "inserted"}, no : Nat, entry : EntriesWith(L),
                 reverses : Nat, closes : Years \cup {0}, rowLocked : BOOLEAN,
                 keyLocked : BOOLEAN]
  BY <1>1, <1>2 DEF TransactionsWith
<1>4. YearFree(t, tx[t].entry.year) \in BOOLEAN
  BY DEF YearFree
<1> DEFINE r == [[tx[t] EXCEPT !.pc = "inserted"]
                    EXCEPT !.keyLocked = YearFree(t, tx[t].entry.year)]
<1>5. /\ r.pc = "inserted" /\ r.no = tx[t].no /\ r.entry = tx[t].entry
      /\ r.reverses = tx[t].reverses /\ r.closes = tx[t].closes
      /\ r \in TransactionsWith(L)
  BY <1>3, <1>4 DEF TransactionsWith
<1>6. tx' = [tx EXCEPT ![t] = r]
  BY <1>1 DEF Insert
<1> HIDE DEF r
<1>7. \A x \in Txs : tx'[x] = IF x = t THEN r ELSE tx[x]
  BY <1>1, <1>6
<1>8. tx[t].no = Len(journal) + 1
  BY <1>1, <1>2 DEF IInv, LocalsHold, Insert, EntryNoTaken
<1>9. \A x \in Txs \ {t} : ~Inserted(x)
  BY <1>8 DEF IInv, InsertedAlone, Insert, MustWait
<1>10. TypeOK'
  <2>1. tx' \in [Txs -> TransactionsWith(L)]
    BY <1>1, <1>5, <1>6
  <2> QED
    BY <1>1, <1>2, <2>1 DEF IInv, TypeOK
<1>11. LocalsHold'
  <2>1. \A x \in Txs : Working(x)' =>
          /\ Working(x) /\ tx'[x].no = tx[x].no /\ tx'[x].entry = tx[x].entry
          /\ tx'[x].reverses = tx[x].reverses /\ tx'[x].closes = tx[x].closes
    BY <1>2, <1>5, <1>7 DEF Working
  <2> QED
    BY <1>2, <2>1 DEF IInv, LocalsHold, Negated
<1>12. InsertedAlone'
  <2>1. ~SourceTaken(t)
    BY DEF Insert
  <2>2. ~SourceTaken(t)'
    BY <1>2, <1>5, <1>7, <2>1 DEF SourceTaken
  <2> QED
    BY <1>2, <1>5, <1>7, <1>8, <1>9, <2>2 DEF InsertedAlone, Inserted
<1>13. ClosingIsFinal'
  <2>1. yearStatus[tx[t].entry.year] = "OPEN"
    BY DEF Insert
  <2>2. \A x \in Txs : Inserted(x)' => x = t /\ tx'[x].entry = tx[t].entry
    BY <1>5, <1>7, <1>9 DEF Inserted
  <2> QED
    BY <1>2, <2>1, <2>2 DEF IInv, ClosingIsFinal
<1>14. OneLiveEntryPerSource' /\ ReversalsMirror' /\ NothingAfterClosing'
  BY <1>2 DEF IInv, OneLiveEntryPerSource, ReversalsMirror, NothingAfterClosing
<1> QED
  BY <1>10, <1>11, <1>12, <1>13, <1>14 DEF IInv

(* COMMIT: the entry in flight, alone, becomes the last of the journal.    *)
LEMMA CommitKeeps == ASSUME IInv, NEW t \in Txs, Commit(t) PROVE IInv'
<1> DEFINE L == [Accounts -> Int]
<1>1. journal \in Seq(EntriesWith(L)) /\ tx \in [Txs -> TransactionsWith(L)]
  BY DEF IInv, TypeOK
<1> DEFINE e == tx[t].entry
           i == tx[t].reverses
           n == Len(journal) + 1
<1>2. Inserted(t) /\ Working(t)
  BY DEF Commit, Inserted, Working
<1>3. tx[t] \in [pc : {"ready", "inserted"}, no : Nat, entry : EntriesWith(L),
                 reverses : Nat, closes : Years \cup {0}, rowLocked : BOOLEAN,
                 keyLocked : BOOLEAN]
  BY <1>1, <1>2 DEF TransactionsWith, Working
<1>4. e \in EntriesWith(L) /\ i \in Nat
  BY <1>3
<1>5. journal' = Append(Marked(journal, i), e)
  BY DEF Commit
<1> HIDE DEF e, i
<1>6. /\ journal' \in Seq(EntriesWith(L))
      /\ Len(journal') = n
      /\ DOMAIN journal' = 1..n
      /\ journal'[n] = e
      /\ \A k \in 1..Len(journal) :
           /\ journal'[k].type = journal[k].type /\ journal'[k].source = journal[k].source
           /\ journal'[k].year = journal[k].year /\ journal'[k].lines = journal[k].lines
           /\ journal'[k].status = IF k = i THEN "REVERSED" ELSE journal[k].status
  <2>1. journal \in Seq(EntriesWith(L))
    BY <1>1
  <2>2. Extends(Append(Marked(journal, i), e), journal, i, e, L)
    BY <1>4, <2>1, CommittedJournal
  <2>3. Extends(journal', journal, i, e, L)
    BY <1>5, <2>2
  <2> QED
    BY <2>3 DEF Extends
<1>7. Len(journal) \in Nat /\ DOMAIN journal = 1..Len(journal)
  BY <1>1
<1>8. tx' = [tx EXCEPT ![t] = Idle] /\ tx'[t] = Idle /\ \A x \in Txs \ {t} : tx'[x] = tx[x]
  BY <1>1 DEF Commit
<1>9. \A x \in Txs : ~Inserted(x)'
  BY <1>2, <1>8 DEF IInv, InsertedAlone, Inserted, Idle
<1>10. \A y \in Years : yearStatus'[y] = IF y = tx[t].closes THEN "CLOSED" ELSE yearStatus[y]
  BY DEF Commit
<1>11. ~SourceTaken(t)
  BY <1>2 DEF IInv, InsertedAlone
<1>12. /\ e.status = "POSTED"
       /\ e.type = "FiscalYearClose" => tx[t].closes = e.year
       /\ i # 0 => /\ i \in DOMAIN journal /\ e.type = "REVERSAL" /\ e.source = i
                   /\ e.lines = Negated(journal[i].lines)
  BY <1>2 DEF IInv, LocalsHold, e, i
<1>13. /\ \A k \in DOMAIN journal : journal[k].year \in Years
       /\ e.year \in Years
  BY <1>1, <1>4, EntriesOf DEF EntriesWith
<1>14. TypeOK'
  <2>1. Idle \in TransactionsWith(L)
    BY DEF Idle, TransactionsWith
  <2>2. tx' \in [Txs -> TransactionsWith(L)]
    BY <1>1, <1>8, <2>1
  <2>3. yearStatus' \in [Years -> {"NONE", "OPEN", "CLOSED"}]
    BY DEF IInv, TypeOK, Commit
  <2>4. balance' \in [Accounts -> Int]
    <3>1. e.lines \in [Accounts -> Int] /\ balance \in [Accounts -> Int]
      BY <1>4 DEF EntriesWith, IInv, TypeOK
    <3>2. balance' = [a \in Accounts |-> balance[a] + e.lines[a]]
      BY DEF Commit, AppliedToBalance, e
    <3> QED BY <3>1, <3>2
  <2> QED
    BY <1>6, <2>2, <2>3, <2>4 DEF TypeOK
<1>15. LocalsHold'
  <2> SUFFICES ASSUME NEW x \in Txs, Working(x)'
               PROVE  /\ (tx[x].no \in 1..(Len(journal) + 1))'
                      /\ (tx[x].entry.status = "POSTED")'
                      /\ (tx[x].entry.type = "FiscalYearClose" => tx[x].closes = tx[x].entry.year)'
                      /\ (tx[x].reverses # 0 =>
                            /\ tx[x].reverses \in DOMAIN journal
                            /\ tx[x].entry.type = "REVERSAL" /\ tx[x].entry.source = tx[x].reverses
                            /\ tx[x].entry.lines = Negated(journal[tx[x].reverses].lines))'
    BY DEF LocalsHold
  <2>1. x # t /\ tx'[x] = tx[x] /\ Working(x)
    BY <1>8 DEF Working, Idle
  <2>2. /\ tx[x].no \in 1..(Len(journal) + 1)
        /\ tx[x].entry.status = "POSTED"
        /\ tx[x].entry.type = "FiscalYearClose" => tx[x].closes = tx[x].entry.year
        /\ tx[x].reverses # 0 =>
             /\ tx[x].reverses \in DOMAIN journal
             /\ tx[x].entry.type = "REVERSAL" /\ tx[x].entry.source = tx[x].reverses
             /\ tx[x].entry.lines = Negated(journal[tx[x].reverses].lines)
    BY <2>1 DEF IInv, LocalsHold
  <2>3. tx'[x].no \in 1..(Len(journal') + 1)
    BY <1>6, <1>7, <2>1, <2>2
  <2>4. tx[x].reverses # 0 =>
          /\ tx[x].reverses \in DOMAIN journal'
          /\ tx[x].entry.lines = Negated(journal'[tx[x].reverses].lines)
    BY <1>6, <1>7, <2>2
  <2> QED
    BY <2>1, <2>2, <2>3, <2>4 DEF Negated
<1>16. InsertedAlone'
  BY <1>9 DEF InsertedAlone
<1>17. ClosingIsFinal'
  <2> SUFFICES ASSUME NEW k \in DOMAIN journal', journal'[k].type = "FiscalYearClose"
               PROVE  yearStatus'[journal'[k].year] = "CLOSED"
    BY <1>9 DEF ClosingIsFinal
  <2>1. CASE k = n
    BY <1>6, <1>10, <1>12, <1>13, <2>1
  <2>2. CASE k \in 1..Len(journal)
    BY <1>6, <1>7, <1>10, <1>13, <2>2 DEF IInv, ClosingIsFinal
  <2> QED
    BY <1>6, <1>7, <2>1, <2>2
<1>18. OneLiveEntryPerSource'
  <2> SUFFICES ASSUME NEW j \in DOMAIN journal', NEW k \in DOMAIN journal',
                      LiveEntry(journal'[j]), LiveEntry(journal'[k]),
                      SameSource(journal'[j], journal'[k])
               PROVE  j = k
    BY DEF OneLiveEntryPerSource
  <2>1. \A l \in 1..Len(journal) : LiveEntry(journal'[l]) => LiveEntry(journal[l])
    BY <1>6 DEF LiveEntry
  <2>2. CASE j \in 1..Len(journal) /\ k \in 1..Len(journal)
    BY <1>6, <1>7, <2>1, <2>2 DEF IInv, OneLiveEntryPerSource, SameSource
  <2>3. CASE j = n /\ k \in 1..Len(journal)
    BY <1>6, <1>7, <1>11, <2>1, <2>3 DEF SourceTaken, SameSource, e
  <2>4. CASE k = n /\ j \in 1..Len(journal)
    BY <1>6, <1>7, <1>11, <2>1, <2>4 DEF SourceTaken, SameSource, e
  <2> QED
    BY <1>6, <1>7, <2>2, <2>3, <2>4
<1>19. ReversalsMirror'
  <2> SUFFICES ASSUME NEW k \in DOMAIN journal', journal'[k].status = "REVERSED"
               PROVE  \E j \in DOMAIN journal' :
                        /\ journal'[j].type = "REVERSAL" /\ journal'[j].source = k
                        /\ \A a \in Accounts :
                             journal'[j].lines[a] = -journal'[k].lines[a]
    BY DEF ReversalsMirror
  <2>1. k \in 1..Len(journal)
    BY <1>6, <1>7, <1>12
  <2>2. CASE k = i
    <3>1. k # 0
      BY <1>7, <2>1
    <3>2. /\ journal'[n].type = "REVERSAL" /\ journal'[n].source = k
          /\ journal'[n].lines = Negated(journal'[k].lines)
      BY <1>6, <1>12, <2>1, <2>2, <3>1
    <3>3. n \in DOMAIN journal'
      BY <1>6, <1>7
    <3> QED
      BY <3>2, <3>3 DEF Negated
  <2>3. CASE k # i
    <3>1. PICK j \in DOMAIN journal :
            /\ journal[j].type = "REVERSAL" /\ journal[j].source = k
            /\ \A a \in Accounts : journal[j].lines[a] = -journal[k].lines[a]
      BY <1>6, <1>7, <2>1, <2>3 DEF IInv, ReversalsMirror
    <3> QED
      BY <1>6, <1>7, <2>1, <3>1
  <2> QED
    BY <2>2, <2>3
<1>20. NothingAfterClosing'
  <2> SUFFICES ASSUME NEW j \in DOMAIN journal', NEW k \in DOMAIN journal',
                      journal'[j].type = "FiscalYearClose", j < k
               PROVE  journal'[k].year # journal'[j].year
    BY DEF NothingAfterClosing
  <2>1. j \in 1..Len(journal)
    BY <1>6, <1>7
  <2>2. CASE k \in 1..Len(journal)
    BY <1>6, <1>7, <2>1, <2>2 DEF IInv, NothingAfterClosing
  <2>3. CASE k = n
    BY <1>2, <1>6, <1>7, <2>1, <2>3 DEF IInv, ClosingIsFinal, e
  <2> QED
    BY <1>6, <1>7, <2>2, <2>3
<1> QED
  BY <1>14, <1>15, <1>16, <1>17, <1>18, <1>19, <1>20 DEF IInv

(* The status of a year moves forward: NONE, OPEN, CLOSED.                 *)
LEMMA YearStatusKeeps ==
  ASSUME IInv, NEW y \in Years, NEW s \in {"OPEN", "CLOSED"},
         yearStatus[y] = "NONE" \/ s = "CLOSED",
         yearStatus' = [yearStatus EXCEPT ![y] = s], UNCHANGED <<journal, balance>>,
         \A t \in Txs : tx'[t] = tx[t] \/ tx'[t].pc = "idle",
         TypeOK'
  PROVE  IInv'
<1>1. \A t \in Txs : Working(t)' => Working(t) /\ tx'[t] = tx[t]
  BY DEF Working
<1>2. \A t \in Txs : Inserted(t)' => Inserted(t) /\ tx'[t] = tx[t]
  BY DEF Inserted
<1>3. LocalsHold'
  BY <1>1 DEF IInv, LocalsHold, Negated
<1>4. InsertedAlone'
  BY <1>2 DEF IInv, InsertedAlone, SourceTaken
<1>5. ClosingIsFinal'
  <2>1. \A z \in Years : yearStatus[z] = "CLOSED" => yearStatus'[z] = "CLOSED"
    BY DEF IInv, TypeOK
  <2>2. \A i \in DOMAIN journal : journal[i].year \in Years
    BY EntriesOf DEF IInv, TypeOK
  <2> QED
    BY <1>2, <2>1, <2>2 DEF IInv, ClosingIsFinal
<1>6. OneLiveEntryPerSource' /\ ReversalsMirror' /\ NothingAfterClosing'
  BY DEF IInv, OneLiveEntryPerSource, ReversalsMirror, NothingAfterClosing
<1> QED
  BY <1>3, <1>4, <1>5, <1>6 DEF IInv
-----------------------------------------------------------------------------
(* The journal is finite, its lines are integers, and negating some gives  *)
(* lines again.                                                            *)
LEMMA JournalTypes ==
  ASSUME TypeOK
  PROVE  /\ IsFiniteSet(DOMAIN journal)
         /\ \A i \in DOMAIN journal : /\ journal[i].lines \in [Accounts -> Int]
                                      /\ Negated(journal[i].lines) \in [Accounts -> Int]
                                      /\ journal[i].year \in Years
<1>1. Len(journal) \in Nat /\ DOMAIN journal = 1..Len(journal)
  BY DEF TypeOK
<1>2. \A i \in DOMAIN journal : journal[i] \in EntriesWith([Accounts -> Int])
  BY DEF TypeOK
<1>3. IsFiniteSet(DOMAIN journal)
  BY <1>1, FS_Interval
<1>4. \A i \in DOMAIN journal : journal[i].lines \in [Accounts -> Int] /\ journal[i].year \in Years
  BY <1>2 DEF EntriesWith
<1>5. \A lines \in [Accounts -> Int] : Negated(lines) \in [Accounts -> Int]
  BY DEF Negated
<1> QED BY <1>3, <1>4, <1>5

(* What an account nets over some years is an integer.                     *)
LEMMA NetOfInt ==
  ASSUME TypeOK, NEW a \in Accounts, NEW years
  PROVE  NetOf(a, years) \in Int
<1> DEFINE f == [i \in DOMAIN journal |-> journal[i].lines[a]]
           S == {i \in DOMAIN journal : journal[i].year \in years}
<1>1. \A i \in S : f[i] \in Int
  BY JournalTypes
<1>2. IsFiniteSet(S)
  BY JournalTypes, FS_Subset
<1> HIDE DEF f, S
<1>3. SumFunctionOnSet(f, S) \in Int
  BY <1>1, <1>2, SumInt
<1> QED BY <1>3 DEF NetOf, f, S

(* The lines of a closing entry are lines.                                 *)
LEMMA ClosingLinesType ==
  ASSUME TypeOK, NEW y \in Years
  PROVE  ClosingLines(y) \in [Accounts -> Int]
<1> DEFINE f == [b \in Temporary |-> NetOf(b, {y})]
<1>1. \A b \in Temporary : f[b] \in Int
  BY NetOfInt DEF Accounts
<1> HIDE DEF f
<1>2. SumFunctionOnSet(f, Temporary) \in Int
  BY <1>1, SumInt, LedgerConstants
<1>3. \A a \in Temporary : -NetOf(a, {y}) \in Int
  BY NetOfInt DEF Accounts
<1> QED BY <1>2, <1>3 DEF ClosingLines, f

(* The lines of an opening entry are lines.                                *)
LEMMA OpeningLinesType ==
  ASSUME TypeOK, NEW y \in Years
  PROVE  OpeningLines(y) \in [Accounts -> Int]
<1>1. \A a \in Accounts : NetOf(a, {x \in Years : x <= Max(Previous(y))}) \in Int
  BY NetOfInt
<1> QED BY <1>1 DEF OpeningLines

(* Every step of the ledger preserves the invariant.                       *)
LEMMA Preserved == IInv /\ [Next]_vars => IInv'
<1> SUFFICES ASSUME IInv, [Next]_vars PROVE IInv'
  OBVIOUS
<1> USE LedgerConstants
<1> DEFINE L == [Accounts -> Int]
<1>1. journal \in Seq(EntriesWith(L)) /\ tx \in [Txs -> TransactionsWith(L)]
  BY DEF IInv, TypeOK
<1>2. 0 \in Nat /\ Years \subseteq Nat /\ NoSource \in Nat /\ 0 \in Years \cup {0}
  BY DEF NoSource
<1>3. TypeOK /\ \A i \in DOMAIN journal : i \in Nat /\ Negated(journal[i].lines) \in L
  BY <1>1, JournalTypes DEF IInv
<1>4. ASSUME NEW y \in Years, CreateYear(y) PROVE IInv'
  <2>1. TypeOK'
    BY <1>3, <1>4 DEF TypeOK, CreateYear
  <2>2. \A t \in Txs : tx'[t] = tx[t]
    BY <1>4 DEF CreateYear
  <2> QED
    BY <1>4, <2>1, <2>2, YearStatusKeeps DEF CreateYear
<1>5. ASSUME NEW t \in Txs, NEW y \in Years, NEW lines \in DocumentLines,
             PostManual(t, y, lines)
      PROVE  IInv'
  BY <1>2, <1>5, ReadyKeeps DEF PostManual, EntryTypes
<1>6. ASSUME NEW t \in Txs, NEW y \in Years, NEW lines \in DocumentLines,
             NEW d \in Documents, PostDocument(t, d, y, lines)
      PROVE  IInv'
  BY <1>2, <1>6, ReadyKeeps DEF PostDocument, EntryTypes
<1>7. ASSUME NEW t \in Txs, NEW y \in Years, NEW i \in DOMAIN journal,
             ReverseBySource(t, i, y)
      PROVE  IInv'
  BY <1>2, <1>3, <1>7, ReadyKeeps DEF ReverseBySource, EntryTypes
<1>8. ASSUME NEW t \in Txs, NEW y \in Years, NEW i \in DOMAIN journal, Reverse(t, i, y)
      PROVE  IInv'
  BY <1>2, <1>3, <1>8, ReadyKeeps DEF Reverse, EntryTypes
<1>9. ASSUME NEW t \in Txs, NEW y \in Years, CloseYear(t, y) PROVE IInv'
  BY <1>2, <1>9, ClosingLinesType, ReadyKeeps DEF CloseYear, EntryTypes, IInv
<1>10. ASSUME NEW t \in Txs, NEW y \in Years, CloseEmptyYear(t, y) PROVE IInv'
  BY <1>10, GivingUpKeeps DEF CloseEmptyYear
<1>11. ASSUME NEW t \in Txs, NEW y \in Years, OpenYear(t, y) PROVE IInv'
  BY <1>2, <1>11, OpeningLinesType, ReadyKeeps DEF OpenYear, EntryTypes, IInv
<1>12. ASSUME NEW t \in Txs, Insert(t) PROVE IInv'
  BY <1>12, InsertKeeps
<1>13. ASSUME NEW t \in Txs, InsertLosesNumber(t) PROVE IInv'
  BY <1>13, GivingUpKeeps DEF InsertLosesNumber
<1>14. ASSUME NEW t \in Txs, InsertRefused(t) PROVE IInv'
  BY <1>14, GivingUpKeeps DEF InsertRefused, Idle
<1>15. ASSUME NEW t \in Txs, KeyLockGranted(t) PROVE IInv'
  <2> DEFINE r == [tx[t] EXCEPT !.keyLocked = TRUE]
  <2>1. Working(t) /\ tx' = [tx EXCEPT ![t] = r] /\ UNCHANGED <<journal, balance, yearStatus>>
    BY <1>1, <1>15 DEF KeyLockGranted, Inserted, Working
  <2>2. /\ r \in TransactionsWith(L) /\ r.pc = tx[t].pc /\ r.no = tx[t].no
        /\ r.entry = tx[t].entry /\ r.reverses = tx[t].reverses
        /\ r.closes = tx[t].closes
    BY <1>1, <2>1 DEF TransactionsWith, Working
  <2> HIDE DEF r
  <2> QED
    BY <1>1, <2>1, <2>2, LocksKeep
<1>16. ASSUME NEW t \in Txs, LockOriginal(t) PROVE IInv'
  <2> DEFINE r == [tx[t] EXCEPT !.rowLocked = TRUE]
  <2>1. Working(t) /\ tx' = [tx EXCEPT ![t] = r] /\ UNCHANGED <<journal, balance, yearStatus>>
    BY <1>1, <1>16 DEF LockOriginal, Inserted, Working
  <2>2. /\ r \in TransactionsWith(L) /\ r.pc = tx[t].pc /\ r.no = tx[t].no
        /\ r.entry = tx[t].entry /\ r.reverses = tx[t].reverses
        /\ r.closes = tx[t].closes
    BY <1>1, <2>1 DEF TransactionsWith, Working
  <2> HIDE DEF r
  <2> QED
    BY <1>1, <2>1, <2>2, LocksKeep
<1>17. ASSUME NEW t \in Txs, Commit(t) PROVE IInv'
  BY <1>17, CommitKeeps
<1>18. ASSUME NEW t \in Txs, CommitEmptyClose(t) PROVE IInv'
  <2> DEFINE y == tx[t].closes
  <2>1. y \in Years
    BY <1>1, <1>18 DEF CommitEmptyClose, TransactionsWith
  <2>2. Idle \in TransactionsWith(L)
    BY DEF Idle, TransactionsWith
  <2>3. tx' \in [Txs -> TransactionsWith(L)] /\ \A x \in Txs : tx'[x] = tx[x] \/ tx'[x].pc = "idle"
    BY <1>1, <1>18, <2>2 DEF CommitEmptyClose, Idle
  <2>4. yearStatus' = [yearStatus EXCEPT ![y] = "CLOSED"] /\ UNCHANGED <<journal, balance>>
    BY <1>18 DEF CommitEmptyClose
  <2>5. TypeOK'
    BY <1>1, <1>3, <2>3, <2>4 DEF TypeOK
  <2> HIDE DEF y
  <2> QED
    BY <2>1, <2>3, <2>4, <2>5, YearStatusKeeps
<1>19. ASSUME NEW t \in Txs, Rollback(t) PROVE IInv'
  BY <1>19, GivingUpKeeps DEF Rollback, Idle
<1>20. CASE UNCHANGED vars
  <2>1. TypeOK' /\ LocalsHold'
    BY <1>20 DEF vars, IInv, TypeOK, LocalsHold, Working, Negated
  <2>2. InsertedAlone' /\ ClosingIsFinal'
    BY <1>20 DEF vars, IInv, InsertedAlone, Inserted, SourceTaken, ClosingIsFinal
  <2>3. OneLiveEntryPerSource' /\ ReversalsMirror' /\ NothingAfterClosing'
    BY <1>20 DEF vars, IInv, OneLiveEntryPerSource, ReversalsMirror, NothingAfterClosing
  <2> QED BY <2>1, <2>2, <2>3 DEF IInv
<1> QED
  BY <1>4, <1>5, <1>6, <1>7, <1>8, <1>9, <1>10, <1>11, <1>12, <1>13, <1>14, <1>15,
     <1>16, <1>17, <1>18, <1>19, <1>20 DEF Next

(* The invariant holds of every run of the ledger.                         *)
THEOREM Invariant == Spec => []IInv
  BY Initially, Preserved, PTL DEF Spec

(* However many requests post, cancel and reverse at once, a source        *)
(* document never has two live entries (posting.service.ts).               *)
THEOREM OneLiveEntryAlways == Spec => []OneLiveEntryPerSource
<1>1. IInv => OneLiveEntryPerSource
  BY DEF IInv
<1> QED
  BY <1>1, Invariant, PTL

(* A neutralised entry always has its mirror image in the journal.         *)
THEOREM ReversalsAlwaysMirror == Spec => []ReversalsMirror
<1>1. IInv => ReversalsMirror
  BY DEF IInv
<1> QED
  BY <1>1, Invariant, PTL

(* The closing entry of a year is the last entry of the year, although     *)
(* nothing but the entry numbers keeps a waiting posting out.              *)
THEOREM NothingEverAfterClosing == Spec => []NothingAfterClosing
<1>1. IInv => NothingAfterClosing
  BY DEF IInv
<1> QED
  BY <1>1, Invariant, PTL
-----------------------------------------------------------------------------
(* What a closing entry that can still be inserted carries: the year as it *)
(* is, because the journal has not grown since its sums were read.         *)
ClosingIsFresh ==
  \A t \in Txs :
    /\ Working(t) /\ tx[t].entry.type = "FiscalYearClose"
    /\ tx[t].no = Len(journal) + 1
    => \A a \in Temporary : tx[t].entry.lines[a] = -NetOf(a, {tx[t].entry.year})

SumsHold == ClosingIsFresh /\ BalancesFollowJournal /\ ClosingEntrySettlesYear

SumsIInv == IInv /\ SumsHold

(* A step that commits no entry.                                           *)
LEMMA NoCommitKeepsSums ==
  ASSUME SumsIInv, UNCHANGED <<journal, balance>>,
         \A t \in Txs :
           /\ Working(t)' /\ tx'[t].entry.type = "FiscalYearClose"
           => \/ /\ Working(t) /\ tx'[t].no = tx[t].no /\ tx'[t].entry = tx[t].entry
              \/ \A a \in Temporary : tx'[t].entry.lines[a] = -NetOf(a, {tx'[t].entry.year})
  PROVE  SumsHold'
<1>1. \A a, years : NetOf(a, years)' = NetOf(a, years)
  BY DEF NetOf
<1>2. BalancesFollowJournal' /\ ClosingEntrySettlesYear'
  BY <1>1 DEF SumsIInv, SumsHold, BalancesFollowJournal, ClosingEntrySettlesYear
<1>3. ClosingIsFresh'
  <2> SUFFICES ASSUME NEW t \in Txs, Working(t)', tx'[t].entry.type = "FiscalYearClose",
                      tx'[t].no = Len(journal) + 1, NEW a \in Temporary
               PROVE  tx'[t].entry.lines[a] = -NetOf(a, {tx'[t].entry.year})
    BY <1>1 DEF ClosingIsFresh
  <2> QED BY DEF SumsIInv, SumsHold, ClosingIsFresh
<1> QED BY <1>2, <1>3 DEF SumsHold

(* Getting ready: only the closing of a year carries sums that matter.     *)
LEMMA ReadyKeepsSums ==
  ASSUME SumsIInv, NEW t \in Txs, NEW type, NEW source, NEW year, NEW lines,
         NEW reverses, NEW closes, NEW rowLocked,
         ReadyWith(t, Entry(type, source, year, lines), reverses, closes, rowLocked),
         type = "FiscalYearClose" => \A a \in Temporary : lines[a] = -NetOf(a, {year})
  PROVE  SumsHold'
<1>1. tx \in [Txs -> TransactionsWith([Accounts -> Int])]
  BY DEF SumsIInv, IInv, TypeOK
<1> DEFINE record == [pc |-> "ready", no |-> NextEntryNo(t),
                      entry |-> Entry(type, source, year, lines), reverses |-> reverses,
                      closes |-> closes, rowLocked |-> rowLocked, keyLocked |-> FALSE]
<1>2. /\ UNCHANGED <<journal, balance>>
      /\ \A x \in Txs : tx'[x] = IF x = t THEN record ELSE tx[x]
  BY <1>1 DEF ReadyWith
<1>3. /\ record.entry.type = type /\ record.entry.year = year /\ record.entry.lines = lines
  BY DEF Entry
<1> HIDE DEF record
<1>4. \A x \in Txs \ {t} : Working(x)' => Working(x) /\ tx'[x] = tx[x]
  BY <1>2 DEF Working
<1> QED BY <1>2, <1>3, <1>4, NoCommitKeepsSums

(* COMMIT adds the lines of its entry to the nets of its year.             *)
LEMMA CommitNets ==
  ASSUME IInv, NEW t \in Txs, Commit(t), NEW a \in Accounts, NEW years
  PROVE  NetOf(a, years)'
           = NetOf(a, years)
             + (IF tx[t].entry.year \in years THEN tx[t].entry.lines[a] ELSE 0)
<1> DEFINE n == Len(journal) + 1
           e == tx[t].entry
           f == [i \in DOMAIN journal |-> journal[i].lines[a]]
           g == [i \in DOMAIN journal' |-> journal'[i].lines[a]]
           S == {i \in DOMAIN journal : journal[i].year \in years}
           T == {i \in DOMAIN journal' : journal'[i].year \in years}
<1>1. TypeOK /\ TypeOK'
  BY CommitKeeps DEF IInv
<1>2. Extends(journal', journal, tx[t].reverses, e, [Accounts -> Int])
  <2>1. tx[t].reverses \in Nat /\ e \in EntriesWith([Accounts -> Int])
    BY <1>1 DEF TypeOK, Commit, Inserted, TransactionsWith
  <2> QED BY <1>1, <2>1, CommittedJournal DEF Commit, TypeOK
<1>3. Len(journal) \in Nat /\ DOMAIN journal = 1..Len(journal)
  BY <1>1 DEF TypeOK
<1> HIDE DEF e
<1>4. /\ DOMAIN journal' = (1..Len(journal)) \cup {n}
      /\ journal'[n] = e
      /\ \A k \in 1..Len(journal) : /\ journal'[k].year = journal[k].year
                                    /\ journal'[k].lines = journal[k].lines
  BY <1>2, <1>3 DEF Extends
<1>5. IsFiniteSet(S) /\ \A i \in DOMAIN journal : f[i] \in Int
  BY <1>1, JournalTypes, FS_Subset
<1>6. \A i \in DOMAIN journal' : g[i] \in Int
  <2>1. \A i \in DOMAIN journal' : journal'[i].lines \in [Accounts -> Int]
    BY <1>2, EntriesOf DEF Extends, EntriesWith
  <2> QED BY <2>1
<1>7. /\ n \notin S
      /\ T = IF e.year \in years THEN S \cup {n} ELSE S
      /\ \A i \in S : f[i] = g[i]
      /\ g[n] = e.lines[a]
  BY <1>3, <1>4
<1>8. S \subseteq DOMAIN journal' /\ n \in DOMAIN journal'
  BY <1>3, <1>4
<1> HIDE DEF f, g, S, T, n
<1>9. SumFunctionOnSet(f, S) = SumFunctionOnSet(g, S) /\ SumFunctionOnSet(g, S) \in Int
  BY <1>5, <1>6, <1>7, <1>8, SumSame, SumInt
<1>10. SumFunctionOnSet(g, T)
         = SumFunctionOnSet(f, S) + (IF e.year \in years THEN e.lines[a] ELSE 0)
  <2>1. CASE e.year \in years
    <3>1. T = S \cup {n} /\ \A i \in S \cup {n} : g[i] \in Int
      BY <1>6, <1>7, <1>8, <2>1
    <3>2. SumFunctionOnSet(g, S \cup {n}) = g[n] + SumFunctionOnSet(g, S)
      BY <1>5, <1>7, <3>1, SumAdd
    <3> QED BY <1>6, <1>7, <1>8, <1>9, <2>1, <3>1, <3>2
  <2>2. CASE e.year \notin years
    BY <1>7, <1>9, <2>2
  <2> QED BY <2>1, <2>2
<1>11. NetOf(a, years) = SumFunctionOnSet(f, S) /\ NetOf(a, years)' = SumFunctionOnSet(g, T)
  BY DEF NetOf, f, g, S, T
<1> QED BY <1>10, <1>11 DEF e

(* COMMIT: the balances follow, and a closing entry settles its year.      *)
LEMMA CommitKeepsSums ==
  ASSUME SumsIInv, NEW t \in Txs, Commit(t)
  PROVE  SumsHold'
<1> DEFINE e == tx[t].entry
           n == Len(journal) + 1
<1>1. IInv /\ TypeOK /\ Inserted(t) /\ Working(t)
  BY DEF SumsIInv, IInv, Commit, Inserted, Working
<1>2. e \in EntriesWith([Accounts -> Int]) /\ tx[t].reverses \in Nat
  BY <1>1 DEF TypeOK, Inserted, TransactionsWith
<1>3. e.year \in Years /\ e.lines \in [Accounts -> Int]
  BY <1>2 DEF EntriesWith
<1>4. Extends(journal', journal, tx[t].reverses, e, [Accounts -> Int])
  BY <1>1, <1>2, CommittedJournal DEF Commit, TypeOK
<1>5. Len(journal) \in Nat /\ DOMAIN journal = 1..Len(journal)
  BY <1>1 DEF TypeOK
<1>6. /\ Len(journal') = n
      /\ DOMAIN journal' = (1..Len(journal)) \cup {n}
      /\ journal'[n] = e
      /\ \A k \in 1..Len(journal) : /\ journal'[k].year = journal[k].year
                                    /\ journal'[k].type = journal[k].type
  BY <1>4, <1>5 DEF Extends
<1> HIDE DEF e
<1>7. ASSUME NEW a \in Accounts, NEW years
      PROVE  NetOf(a, years)'
               = NetOf(a, years) + (IF e.year \in years THEN e.lines[a] ELSE 0)
  BY <1>1, CommitNets DEF e
<1>8. \A a \in Accounts : \A years : NetOf(a, years) \in Int
  BY <1>1, NetOfInt
<1>9. BalancesFollowJournal'
  <2>1. \A a \in Accounts : balance'[a] = balance[a] + e.lines[a]
    BY DEF Commit, AppliedToBalance, e
  <2>2. \A a \in Accounts : balance[a] = NetOf(a, Years)
    BY DEF SumsIInv, SumsHold, BalancesFollowJournal
  <2>3. ASSUME NEW a \in Accounts PROVE NetOf(a, Years)' = NetOf(a, Years) + e.lines[a]
    <3>1. NetOf(a, Years)'
            = NetOf(a, Years) + (IF e.year \in Years THEN e.lines[a] ELSE 0)
      BY <1>7
    <3> QED BY <1>3, <3>1
  <2> QED BY <2>1, <2>2, <2>3 DEF BalancesFollowJournal
<1>10. ClosingEntrySettlesYear'
  <2> SUFFICES ASSUME NEW i \in DOMAIN journal', journal'[i].type = "FiscalYearClose",
                      NEW y, y = journal'[i].year, NEW a \in Temporary
               PROVE  NetOf(a, {y})' = 0
    BY DEF ClosingEntrySettlesYear
  <2>1. a \in Accounts
    BY DEF Accounts
  <2>2. NetOf(a, {y})' = NetOf(a, {y}) + (IF e.year \in {y} THEN e.lines[a] ELSE 0)
    BY <1>7, <2>1
  <2>3. CASE i \in 1..Len(journal)
    <3>1. journal[i].type = "FiscalYearClose" /\ journal[i].year = y
      BY <1>6, <2>3
    <3>2. NetOf(a, {y}) = 0
      BY <1>5, <2>3, <3>1 DEF SumsIInv, SumsHold, ClosingEntrySettlesYear
    <3>3. e.year # y
      BY <1>1, <1>5, <2>3, <3>1 DEF IInv, ClosingIsFinal, e
    <3> QED BY <2>2, <3>2, <3>3
  <2>4. CASE i = n
    <3>1. e.type = "FiscalYearClose" /\ e.year = y
      BY <1>6, <2>4
    <3>2. tx[t].no = Len(journal) + 1
      BY <1>1 DEF IInv, InsertedAlone
    <3>3. e.lines[a] = -NetOf(a, {e.year})
      BY <1>1, <3>1, <3>2 DEF SumsIInv, SumsHold, ClosingIsFresh, e
    <3>4. NetOf(a, {y}) \in Int /\ e.lines[a] = -NetOf(a, {y})
      BY <1>8, <2>1, <3>1, <3>3
    <3> QED BY <2>2, <3>1, <3>4
  <2> QED BY <1>6, <2>3, <2>4
<1>11. ClosingIsFresh'
  <2> SUFFICES ASSUME NEW x \in Txs, Working(x)', tx'[x].no = Len(journal') + 1 PROVE FALSE
    BY DEF ClosingIsFresh
  <2>1. tx' = [tx EXCEPT ![t] = Idle] /\ tx \in [Txs -> TransactionsWith([Accounts -> Int])]
    BY <1>1 DEF Commit, TypeOK
  <2>2. x # t /\ tx'[x] = tx[x] /\ Working(x)
    BY <2>1 DEF Working, Idle
  <2>3. tx[x].no \in 1..(Len(journal) + 1)
    BY <1>1, <2>2 DEF IInv, LocalsHold
  <2> QED BY <1>5, <1>6, <2>2, <2>3
<1> QED BY <1>9, <1>10, <1>11 DEF SumsHold

(* Every step keeps the sums.                                              *)
LEMMA NextKeepsSums == SumsIInv /\ [Next]_vars => SumsIInv'
<1> SUFFICES ASSUME SumsIInv, [Next]_vars PROVE SumsHold'
  BY Preserved DEF SumsIInv
<1> USE LedgerConstants
<1>1. tx \in [Txs -> TransactionsWith([Accounts -> Int])]
  BY DEF SumsIInv, IInv, TypeOK
<1>2. ASSUME NEW t \in Txs, NEW y \in Years, CloseYear(t, y) PROVE SumsHold'
  <2>1. \A a \in Temporary : ClosingLines(y)[a] = -NetOf(a, {y})
    BY DEF ClosingLines, Accounts
  <2> QED BY <1>2, <2>1, ReadyKeepsSums DEF CloseYear
<1>3. ASSUME NEW t \in Txs, NEW type, NEW source, NEW year, NEW lines, NEW reverses,
             NEW rowLocked, type # "FiscalYearClose",
             ReadyWith(t, Entry(type, source, year, lines), reverses, 0, rowLocked)
      PROVE  SumsHold'
  BY <1>3, ReadyKeepsSums
<1>4. ASSUME NEW t \in Txs, Commit(t) PROVE SumsHold'
  BY <1>4, CommitKeepsSums
<1>5. ASSUME NEW t \in Txs, Insert(t) \/ KeyLockGranted(t) \/ LockOriginal(t)
      PROVE  SumsHold'
  <2>1. UNCHANGED <<journal, balance>>
    BY <1>5 DEF Insert, KeyLockGranted, LockOriginal
  <2>2. Working(t)
    BY <1>5 DEF Insert, KeyLockGranted, LockOriginal, Inserted, Working
  <2>3. tx[t] \in [pc : {"ready", "inserted"}, no : Nat, entry : EntriesWith([Accounts -> Int]),
                   reverses : Nat, closes : Years \cup {0}, rowLocked : BOOLEAN,
                   keyLocked : BOOLEAN]
    BY <1>1, <2>2 DEF TransactionsWith, Working
  <2>4. tx'[t].no = tx[t].no /\ tx'[t].entry = tx[t].entry /\ \A x \in Txs \ {t} : tx'[x] = tx[x]
    BY <1>1, <1>5, <2>3 DEF Insert, KeyLockGranted, LockOriginal
  <2>5. \A x \in Txs : Working(x)' =>
          Working(x) /\ tx'[x].no = tx[x].no /\ tx'[x].entry = tx[x].entry
    BY <2>2, <2>4 DEF Working
  <2> QED BY <2>1, <2>5, NoCommitKeepsSums
<1>6. ASSUME NEW t \in Txs, NEW r, r.pc \in {"idle", "lost", "empty"},
             tx' = [tx EXCEPT ![t] = r], UNCHANGED <<journal, balance>>
      PROVE  SumsHold'
  <2>1. \A x \in Txs : Working(x)' => Working(x) /\ tx'[x] = tx[x]
    BY <1>1, <1>6 DEF Working
  <2> QED BY <1>6, <2>1, NoCommitKeepsSums
<1>7. ASSUME NEW t \in Txs, \/ \E y \in Years : CloseEmptyYear(t, y)
                            \/ InsertLosesNumber(t) \/ InsertRefused(t)
                            \/ CommitEmptyClose(t) \/ Rollback(t)
      PROVE  SumsHold'
  BY <1>6, <1>7 DEF CloseEmptyYear, InsertLosesNumber, InsertRefused, CommitEmptyClose,
                    Rollback, Idle
<1>8. ASSUME UNCHANGED <<journal, balance, tx>> PROVE SumsHold'
  <2>1. \A x \in Txs : Working(x)' => Working(x) /\ tx'[x] = tx[x]
    BY <1>8 DEF Working
  <2> QED BY <1>8, <2>1, NoCommitKeepsSums
<1>9. ASSUME NEW t \in Txs, NEW y \in Years,
             \/ \E lines \in DocumentLines :
                  \/ PostManual(t, y, lines)
                  \/ \E d \in Documents : PostDocument(t, d, y, lines)
             \/ \E i \in DOMAIN journal : ReverseBySource(t, i, y) \/ Reverse(t, i, y)
             \/ OpenYear(t, y)
      PROVE  SumsHold'
  <2>1. CASE \E lines \in DocumentLines : PostManual(t, y, lines)
    BY <1>3, <2>1 DEF PostManual
  <2>2. CASE \E lines \in DocumentLines, d \in Documents : PostDocument(t, d, y, lines)
    BY <1>3, <2>2 DEF PostDocument
  <2>3. CASE \E i \in DOMAIN journal : ReverseBySource(t, i, y)
    BY <1>3, <2>3 DEF ReverseBySource
  <2>4. CASE \E i \in DOMAIN journal : Reverse(t, i, y)
    BY <1>3, <2>4 DEF Reverse
  <2>5. CASE OpenYear(t, y)
    BY <1>3, <2>5 DEF OpenYear
  <2> QED BY <1>9, <2>1, <2>2, <2>3, <2>4, <2>5
<1> QED BY <1>2, <1>4, <1>5, <1>7, <1>8, <1>9 DEF Next, CreateYear, vars

(* The empty ledger.                                                       *)
LEMMA InitSums == Init => SumsIInv
<1> SUFFICES ASSUME Init PROVE SumsHold
  BY Initially DEF SumsIInv
<1>1. DOMAIN journal = {} /\ \A t \in Txs : ~Working(t)
  BY DEF Init, Working, Idle
<1>2. \A a \in Accounts : NetOf(a, Years) = 0
  <2> TAKE a \in Accounts
  <2>1. {i \in DOMAIN journal : journal[i].year \in Years} = {}
    BY <1>1
  <2> QED BY <2>1, SumEmpty DEF NetOf
<1> QED BY <1>1, <1>2 DEF Init, SumsHold, ClosingIsFresh, BalancesFollowJournal,
                         ClosingEntrySettlesYear

(* The sums are right in every state.                                      *)
LEMMA SumsAlways == Spec => []SumsHold
<1>1. SumsIInv => SumsHold
  BY DEF SumsIInv
<1> QED BY InitSums, NextKeepsSums, <1>1, PTL DEF Spec

(* Every state of the ledger is typed.                                     *)
THEOREM LedgerTypeCorrect == Spec => []TypeOK
<1>1. IInv => TypeOK
  BY DEF IInv
<1> QED BY <1>1, Invariant, PTL

(* The balance shown for an account is, in every state, the sum of the     *)
(* journal: whatever posts, reverses, closes and fails at once             *)
(* (applyToBalance in posting.service.ts).                                 *)
THEOREM BalancesAlwaysFollow == Spec => []BalancesFollowJournal
<1>1. SumsHold => BalancesFollowJournal
  BY DEF SumsHold
<1> QED BY <1>1, SumsAlways, PTL

(* A closed year's revenue and expense accounts add up to zero from its    *)
(* closing entry on: no posting that was under way escaped the sums.       *)
THEOREM ClosingAlwaysSettles == Spec => []ClosingEntrySettlesYear
<1>1. SumsHold => ClosingEntrySettlesYear
  BY DEF SumsHold
<1> QED BY <1>1, SumsAlways, PTL
-----------------------------------------------------------------------------
\* The transaction x holds the row of the year y, to close it.
HoldsYear(x, y) == tx[x].pc \in {"ready", "inserted", "empty"} /\ tx[x].closes = y

(* A year that is being closed is open, nobody else is closing it and      *)
(* nobody else has a key lock on it; and while it is held for an empty     *)
(* close it stays empty.                                                   *)
YearLocks ==
  \A x \in Txs, y \in Years : HoldsYear(x, y) =>
    /\ yearStatus[y] = "OPEN"
    /\ \A z \in Txs \ {x} : /\ ~HoldsYear(z, y)
                            /\ Inserted(z) /\ tx[z].keyLocked => tx[z].entry.year # y
    /\ tx[x].pc = "empty" => ~HasActivity(y)

\* What the years up to p left on the permanent accounts.
CarriedFrom(p) ==
  [a \in Accounts |-> IF a \in Permanent THEN NetOf(a, {x \in Years : x <= p}) ELSE 0]

\* The entry e, which voids the entry i and closes the year c, is one that
\* the journal gives as it is now.
Offered(e, i, c) ==
  /\ \E a \in Accounts : e.lines[a] # 0
  /\ \/ \E y \in Years, lines \in DocumentLines :
          /\ i = 0 /\ c = 0
          /\ \/ e = Entry("MANUAL", NoSource, y, lines)
             \/ \E d \in Documents : e = Entry("DOCUMENT", d, y, lines)
     \/ \E y \in Years :
          /\ i \in DOMAIN journal /\ LiveEntry(journal[i]) /\ c = 0
          /\ e = Entry("REVERSAL", i, y, Negated(journal[i].lines))
     \/ /\ c \in Years /\ i = 0
        /\ HasActivity(c) /\ NetIncome(c) # 0
        /\ e = Entry("FiscalYearClose", c, c, ClosingLines(c))
     \/ \E y \in Years, p \in Years :
          /\ i = 0 /\ c = 0
          /\ p < y /\ yearStatus[p] = "CLOSED" /\ Drift(CarriedFrom(p)) = 0
          /\ e = Entry("FiscalYearOpen", y, y, CarriedFrom(p))

(* An entry that still has the next number was made from the journal as it *)
(* is: whatever was committed since it was read has taken that number.     *)
EntriesAreFresh ==
  \A t \in Txs : Working(t) =>
    /\ yearStatus[tx[t].entry.year] # "NONE"
    /\ tx[t].no = Len(journal) + 1 => Offered(tx[t].entry, tx[t].reverses, tx[t].closes)

SerialIInv == IInv /\ YearLocks /\ EntriesAreFresh

LEMMA LocksOf ==
  ASSUME YearLocks, NEW x \in Txs, NEW y \in Years, HoldsYear(x, y)
  PROVE  /\ yearStatus[y] = "OPEN"
         /\ \A z \in Txs \ {x} : ~HoldsYear(z, y)
         /\ \A z \in Txs \ {x} : Inserted(z) /\ tx[z].keyLocked => tx[z].entry.year # y
         /\ tx[x].pc = "empty" => ~HasActivity(y)
BY DEF YearLocks

(* A step of one transaction that commits nothing: it may lock a year that *)
(* CanLockYear allows, and get a key lock on a year that is free.          *)
LEMMA LocalKeepsYearLocks ==
  ASSUME SerialIInv, NEW t \in Txs, NEW r, tx' = [tx EXCEPT ![t] = r],
         UNCHANGED <<journal, yearStatus>>,
         \A y \in Years :
           r.pc \in {"ready", "inserted", "empty"} /\ r.closes = y =>
             HoldsYear(t, y) \/ (CanLockYear(t, y) /\ yearStatus[y] = "OPEN"),
         r.pc = "inserted" /\ r.keyLocked =>
           \/ Inserted(t) /\ tx[t].keyLocked /\ tx[t].entry.year = r.entry.year
           \/ YearFree(t, r.entry.year),
         \A y \in Years : r.pc = "empty" /\ r.closes = y => ~HasActivity(y)
  PROVE  YearLocks'
<1>1. tx \in [Txs -> TransactionsWith([Accounts -> Int])]
  BY DEF SerialIInv, IInv, TypeOK
<1>2. tx'[t] = r /\ \A x \in Txs \ {t} : tx'[x] = tx[x]
  BY <1>1
<1>3. \A y \in Years : HasActivity(y)' = HasActivity(y)
  BY DEF HasActivity, NetOf
<1>4. YearLocks
  BY DEF SerialIInv
<1> SUFFICES ASSUME NEW x \in Txs, NEW y \in Years, HoldsYear(x, y)'
             PROVE  /\ yearStatus[y] = "OPEN"
                    /\ \A z \in Txs \ {x} : ~HoldsYear(z, y)'
                    /\ \A z \in Txs \ {x} :
                         Inserted(z)' /\ tx'[z].keyLocked => tx'[z].entry.year # y
                    /\ tx'[x].pc = "empty" => ~HasActivity(y)
  BY <1>3 DEF YearLocks
<1>5. CASE x = t
  <2>1. r.pc \in {"ready", "inserted", "empty"} /\ r.closes = y
    BY <1>2, <1>5 DEF HoldsYear
  <2>2. HoldsYear(t, y) \/ (CanLockYear(t, y) /\ yearStatus[y] = "OPEN")
    BY <2>1
  <2>3. /\ yearStatus[y] = "OPEN"
        /\ \A z \in Txs \ {t} : ~HoldsYear(z, y)
        /\ \A z \in Txs \ {t} : Inserted(z) /\ tx[z].keyLocked => tx[z].entry.year # y
    BY <1>4, <2>2, LocksOf DEF CanLockYear, YearFree, HoldsYear
  <2> QED
    BY <1>2, <1>5, <2>1, <2>3 DEF HoldsYear, Inserted
<1>6. CASE x # t
  <2>1. HoldsYear(x, y) /\ tx'[x] = tx[x]
    BY <1>2, <1>6 DEF HoldsYear
  <2>2. /\ yearStatus[y] = "OPEN"
        /\ \A z \in Txs \ {x} : ~HoldsYear(z, y)
        /\ \A z \in Txs \ {x} : Inserted(z) /\ tx[z].keyLocked => tx[z].entry.year # y
        /\ tx[x].pc = "empty" => ~HasActivity(y)
    BY <1>4, <2>1, LocksOf
  <2>3. ~YearFree(t, y)
    BY <1>6, <2>1 DEF YearFree, HoldsYear
  <2>4. ~HoldsYear(t, y)'
    BY <1>2, <1>6, <2>2, <2>3 DEF HoldsYear, CanLockYear
  <2>5. Inserted(t)' /\ tx'[t].keyLocked => tx'[t].entry.year # y
    BY <1>2, <1>6, <2>2, <2>3 DEF Inserted
  <2> QED
    BY <1>2, <2>1, <2>2, <2>4, <2>5 DEF HoldsYear, Inserted
<1> QED
  BY <1>5, <1>6

(* What the journal gave, it gives as long as it does not change.          *)
LEMMA OfferedStays ==
  ASSUME NEW e, NEW i, NEW c, Offered(e, i, c), journal' = journal,
         \A p \in Years : yearStatus[p] = "CLOSED" => yearStatus'[p] = "CLOSED"
  PROVE  Offered(e, i, c)'
<1>1. \A a, years : NetOf(a, years)' = NetOf(a, years)
  BY DEF NetOf
<1>2. \A y : HasActivity(y)' = HasActivity(y)
  BY DEF HasActivity, NetOf
<1>3. \A y : ClosingLines(y)' = ClosingLines(y) /\ NetIncome(y)' = NetIncome(y)
  BY DEF ClosingLines, NetIncome, NetOf
<1>4. \A p : CarriedFrom(p)' = CarriedFrom(p)
  BY DEF CarriedFrom, NetOf
<1> QED
  BY <1>2, <1>3, <1>4 DEF Offered, Negated, Drift, Entry, LiveEntry

LEMMA FreshStays ==
  ASSUME SerialIInv, journal' = journal,
         \A p \in Years : /\ yearStatus[p] = "CLOSED" => yearStatus'[p] = "CLOSED"
                          /\ yearStatus[p] # "NONE" => yearStatus'[p] # "NONE",
         NEW x \in Txs, Working(x), tx'[x].no = tx[x].no,
         tx'[x].entry = tx[x].entry, tx'[x].reverses = tx[x].reverses,
         tx'[x].closes = tx[x].closes
  PROVE  /\ (yearStatus[tx[x].entry.year] # "NONE")'
         /\ (tx[x].no = Len(journal) + 1 => Offered(tx[x].entry, tx[x].reverses, tx[x].closes))'
<1> DEFINE e == tx[x].entry
           i == tx[x].reverses
           c == tx[x].closes
<1>1. e.year \in Years
  <2>1. tx[x] \in TransactionsWith([Accounts -> Int])
    BY DEF SerialIInv, IInv, TypeOK
  <2> QED
    BY <2>1 DEF TransactionsWith, Working, EntriesWith
<1>2. yearStatus[e.year] # "NONE" /\ (tx[x].no = Len(journal) + 1 => Offered(e, i, c))
  BY DEF SerialIInv, EntriesAreFresh
<1>3. PICK ee, ii, cc : ee = e /\ ii = i /\ cc = c
  OBVIOUS
<1>4. tx'[x].entry = ee /\ tx'[x].reverses = ii /\ tx'[x].closes = cc
  BY <1>3
<1>5. Offered(ee, ii, cc)' => Offered(tx[x].entry, tx[x].reverses, tx[x].closes)'
  BY <1>4 DEF Offered
<1>6. tx[x].no = Len(journal) + 1 => Offered(ee, ii, cc)
  BY <1>2, <1>3 DEF Offered
<1>7. tx[x].no = Len(journal) + 1 => Offered(ee, ii, cc)'
  BY <1>6, OfferedStays
<1>8. yearStatus'[tx'[x].entry.year] # "NONE"
  BY <1>1, <1>2
<1> QED
  BY <1>5, <1>7, <1>8

(* A step of one transaction that neither commits nor gets ready.          *)
LEMMA LocalKeepsSerial ==
  ASSUME SerialIInv, NEW t \in Txs, NEW r, tx' = [tx EXCEPT ![t] = r],
         UNCHANGED <<journal, yearStatus>>,
         \/ r.pc \in {"idle", "lost"}
         \/ /\ r.pc \in {tx[t].pc, "inserted"}
            /\ Working(t)
            /\ r.no = tx[t].no /\ r.entry = tx[t].entry
            /\ r.reverses = tx[t].reverses /\ r.closes = tx[t].closes
            /\ r.pc = "inserted" /\ r.keyLocked =>
                 \/ Inserted(t) /\ tx[t].keyLocked
                 \/ YearFree(t, r.entry.year)
  PROVE  YearLocks' /\ EntriesAreFresh'
<1>1. tx \in [Txs -> TransactionsWith([Accounts -> Int])]
  BY DEF SerialIInv, IInv, TypeOK
<1>2. tx'[t] = r /\ \A x \in Txs \ {t} : tx'[x] = tx[x]
  BY <1>1
<1>3. YearLocks'
  <2>1. \A y \in Years :
           r.pc \in {"ready", "inserted", "empty"} /\ r.closes = y => HoldsYear(t, y)
    BY DEF HoldsYear, Working
  <2>2. r.pc = "inserted" /\ r.keyLocked =>
           \/ Inserted(t) /\ tx[t].keyLocked /\ tx[t].entry.year = r.entry.year
           \/ YearFree(t, r.entry.year)
    OBVIOUS
  <2>3. r.pc # "empty"
    BY DEF Working, Inserted
  <2> QED
    BY <2>1, <2>2, <2>3, LocalKeepsYearLocks
<1>4. EntriesAreFresh'
  <2> SUFFICES ASSUME NEW x \in Txs, Working(x)'
               PROVE  /\ (yearStatus[tx[x].entry.year] # "NONE")'
                      /\ (tx[x].no = Len(journal) + 1 =>
                            Offered(tx[x].entry, tx[x].reverses, tx[x].closes))'
    BY DEF EntriesAreFresh
  <2>1. /\ Working(x) /\ tx'[x].no = tx[x].no /\ tx'[x].entry = tx[x].entry
        /\ tx'[x].reverses = tx[x].reverses /\ tx'[x].closes = tx[x].closes
    BY <1>2 DEF Working
  <2> QED
    BY <2>1, FreshStays
<1> QED
  BY <1>3, <1>4

(* Getting ready with an entry that the journal gives.                     *)
LEMMA ReadyKeepsSerial ==
  ASSUME SerialIInv, NEW t \in Txs, NEW e, NEW i, NEW c, NEW rowLocked,
         ReadyWith(t, e, i, c, rowLocked), Offered(e, i, c),
         c \in Years => CanLockYear(t, c) /\ yearStatus[c] = "OPEN"
  PROVE  YearLocks' /\ EntriesAreFresh'
<1> DEFINE r == [pc |-> "ready", no |-> NextEntryNo(t), entry |-> e, reverses |-> i,
                 closes |-> c, rowLocked |-> rowLocked, keyLocked |-> FALSE]
<1>1. tx \in [Txs -> TransactionsWith([Accounts -> Int])]
  BY DEF SerialIInv, IInv, TypeOK
<1>2. /\ tx' = [tx EXCEPT ![t] = r] /\ UNCHANGED <<journal, yearStatus>>
      /\ yearStatus[e.year] = "OPEN"
  BY DEF ReadyWith
<1>3. r.pc = "ready" /\ r.entry = e /\ r.reverses = i /\ r.closes = c
  OBVIOUS
<1> HIDE DEF r
<1>4. tx'[t] = r /\ \A x \in Txs \ {t} : tx'[x] = tx[x]
  BY <1>1, <1>2
<1>5. YearLocks'
  BY <1>2, <1>3, LocalKeepsYearLocks
<1>6. Offered(e, i, c)'
  BY <1>2, OfferedStays
<1>7. EntriesAreFresh'
  <2> SUFFICES ASSUME NEW x \in Txs, Working(x)'
               PROVE  /\ (yearStatus[tx[x].entry.year] # "NONE")'
                      /\ (tx[x].no = Len(journal) + 1 =>
                            Offered(tx[x].entry, tx[x].reverses, tx[x].closes))'
    BY DEF EntriesAreFresh
  <2>1. CASE x = t
    <3>1. tx'[x].entry = e /\ tx'[x].reverses = i /\ tx'[x].closes = c
      BY <1>3, <1>4, <2>1
    <3>2. Offered(tx[x].entry, tx[x].reverses, tx[x].closes)'
      BY <1>6, <3>1 DEF Offered
    <3> QED
      BY <1>2, <3>1, <3>2
  <2>2. CASE x # t
    <3>1. Working(x) /\ tx'[x] = tx[x]
      BY <1>4, <2>2 DEF Working
    <3> QED
      BY <1>2, <3>1, FreshStays
  <2> QED
    BY <2>1, <2>2
<1> QED
  BY <1>5, <1>7

(* COMMIT: the journal moves on, so whatever is still at work has lost its *)
(* number, and the years that others hold are not touched.                 *)
LEMMA CommitKeepsSerial ==
  ASSUME SerialIInv, NEW t \in Txs, Commit(t)
  PROVE  YearLocks' /\ EntriesAreFresh'
<1>1. IInv /\ YearLocks /\ TypeOK /\ Inserted(t)
  BY DEF SerialIInv, IInv, Commit
<1>2. tx \in [Txs -> TransactionsWith([Accounts -> Int])] /\ Len(journal) \in Nat
  <2>1. Len(journal) \in Nat
    BY <1>1 DEF TypeOK
  <2> QED
    BY <1>1, <2>1 DEF TypeOK
<1>3. tx'[t].pc = "idle" /\ \A x \in Txs \ {t} : tx'[x] = tx[x]
  BY <1>2 DEF Commit, Idle
<1>4. /\ tx[t].keyLocked
      /\ yearStatus' = [y \in Years |-> IF y = tx[t].closes THEN "CLOSED" ELSE yearStatus[y]]
  BY DEF Commit
<1>5. YearLocks'
  <2> SUFFICES ASSUME NEW x \in Txs, NEW y \in Years, HoldsYear(x, y)'
               PROVE  /\ yearStatus'[y] = "OPEN"
                      /\ \A z \in Txs \ {x} : ~HoldsYear(z, y)'
                      /\ \A z \in Txs \ {x} :
                           Inserted(z)' /\ tx'[z].keyLocked => tx'[z].entry.year # y
                      /\ tx'[x].pc = "empty" => ~HasActivity(y)'
    BY DEF YearLocks
  <2>1. x # t /\ HoldsYear(x, y) /\ tx'[x] = tx[x]
    BY <1>3 DEF HoldsYear
  <2>2. /\ yearStatus[y] = "OPEN"
        /\ \A z \in Txs \ {x} : ~HoldsYear(z, y)
        /\ \A z \in Txs \ {x} : Inserted(z) /\ tx[z].keyLocked => tx[z].entry.year # y
        /\ tx[x].pc = "empty" => ~HasActivity(y)
    BY <1>1, <2>1, LocksOf
  <2>3. tx[t].closes # y /\ tx[t].entry.year # y
    BY <1>1, <1>4, <2>1, <2>2 DEF HoldsYear, Inserted
  <2>4. yearStatus'[y] = "OPEN"
    BY <1>4, <2>2, <2>3
  <2>5. \A a \in Temporary : NetOf(a, {y})' = NetOf(a, {y})
    <3> SUFFICES ASSUME NEW a \in Temporary PROVE NetOf(a, {y})' = NetOf(a, {y})
      OBVIOUS
    <3>1. a \in Accounts
      BY DEF Accounts
    <3>2. NetOf(a, {y})' = NetOf(a, {y})
            + (IF tx[t].entry.year \in {y} THEN tx[t].entry.lines[a] ELSE 0)
      BY <1>1, <3>1, CommitNets
    <3>3. NetOf(a, {y}) \in Int
      BY <1>1, <3>1, NetOfInt
    <3> QED
      BY <2>3, <3>2, <3>3
  <2>6. HasActivity(y)' = HasActivity(y)
    BY <2>5 DEF HasActivity
  <2>7. \A z \in Txs \ {x} : ~HoldsYear(z, y)'
    BY <1>3, <2>2 DEF HoldsYear
  <2> QED
    BY <1>3, <2>1, <2>2, <2>4, <2>6, <2>7 DEF Inserted
<1>6. EntriesAreFresh'
  <2> SUFFICES ASSUME NEW x \in Txs, Working(x)'
               PROVE  /\ yearStatus'[tx'[x].entry.year] # "NONE"
                      /\ tx'[x].no # Len(journal') + 1
    BY DEF EntriesAreFresh
  <2>1. x # t /\ Working(x) /\ tx'[x] = tx[x]
    BY <1>3 DEF Working
  <2>2. tx[x].no \in 1..(Len(journal) + 1) /\ yearStatus[tx[x].entry.year] # "NONE"
    BY <1>1, <2>1 DEF IInv, LocalsHold, SerialIInv, EntriesAreFresh
  <2>3. tx[x].entry.year \in Years
    BY <1>2, <2>1 DEF TransactionsWith, Working, EntriesWith
  <2>4. Len(journal') = Len(journal) + 1
    <3>1. tx[t].reverses \in Nat /\ tx[t].entry \in EntriesWith([Accounts -> Int])
      BY <1>1, <1>2 DEF Inserted, TransactionsWith
    <3> QED
      BY <1>1, <3>1, CommittedJournal DEF Commit, TypeOK, Extends
  <2> QED
    BY <1>2, <1>4, <2>1, <2>2, <2>3, <2>4
<1> QED
  BY <1>5, <1>6

(* The previous year is one of the years before.                           *)
LEMMA PreviousIsBefore ==
  ASSUME NEW y \in Years, Previous(y) # {}
  PROVE  Max(Previous(y)) \in Previous(y)
<1> DEFINE P == Previous(y)
           U == {n \in Nat : \A p \in P : p <= n}
<1>1. P \subseteq Nat /\ y \in Nat /\ \A p \in P : p <= y
  <2>1. Years \subseteq Nat
    BY LedgerConstants
  <2>2. P \subseteq Nat /\ \A p \in P : p < y
    BY <2>1 DEF Previous
  <2> HIDE DEF P
  <2> QED
    BY <2>1, <2>2
<1> HIDE DEF P
<1>2. PICK n \in U : \A m \in U : n <= m
  <2>1. U \subseteq Nat /\ y \in U
    BY <1>1
  <2> HIDE DEF U
  <2> QED
    BY <2>1, Least
<1>3. n \in P
  <2> SUFFICES ASSUME n \notin P PROVE FALSE
    OBVIOUS
  <2>1. PICK p \in P : TRUE
    BY DEF P
  <2>2. \A q \in P : q <= n - 1
    BY <1>1, <1>2
  <2>3. n - 1 \in U
    BY <1>1, <1>2, <2>1, <2>2
  <2> QED
    BY <1>2, <2>3
<1>4. \E x \in P : \A q \in P : x >= q
  BY <1>1, <1>2, <1>3
<1>5. Max(P) \in P
  BY <1>4 DEF Max
<1> QED
  BY <1>5 DEF P

(* Every step keeps what the refinement needs.                             *)
LEMMA NextKeepsSerial == SerialIInv /\ [Next]_vars => SerialIInv'
<1> SUFFICES ASSUME SerialIInv, [Next]_vars PROVE YearLocks' /\ EntriesAreFresh'
  BY Preserved DEF SerialIInv
<1> USE LedgerConstants
<1>1. tx \in [Txs -> TransactionsWith([Accounts -> Int])] /\ IInv /\ YearLocks
  BY DEF SerialIInv, IInv, TypeOK
<1>2. \A t \in Txs : Working(t) =>
        tx[t] \in [pc : {"ready", "inserted"}, no : Nat, entry : EntriesWith([Accounts -> Int]),
                   reverses : Nat, closes : Years \cup {0}, rowLocked : BOOLEAN,
                   keyLocked : BOOLEAN]
  BY <1>1 DEF TransactionsWith, Working
<1>3. 0 \notin Years
  OBVIOUS
<1>4. ASSUME NEW t \in Txs, NEW y \in Years, NEW lines \in DocumentLines,
             PostManual(t, y, lines)
      PROVE  YearLocks' /\ EntriesAreFresh'
  <2>1. Offered(Entry("MANUAL", NoSource, y, lines), 0, 0)
    BY <1>4 DEF Offered, PostManual, ReadyWith
  <2> QED
    BY <1>3, <1>4, <2>1, ReadyKeepsSerial DEF PostManual
<1>5. ASSUME NEW t \in Txs, NEW y \in Years, NEW lines \in DocumentLines,
             NEW d \in Documents, PostDocument(t, d, y, lines)
      PROVE  YearLocks' /\ EntriesAreFresh'
  <2>1. Offered(Entry("DOCUMENT", d, y, lines), 0, 0)
    BY <1>5 DEF Offered, PostDocument, ReadyWith
  <2> QED
    BY <1>3, <1>5, <2>1, ReadyKeepsSerial DEF PostDocument
<1>6. ASSUME NEW t \in Txs, NEW y \in Years, NEW i \in DOMAIN journal,
             ReverseBySource(t, i, y) \/ Reverse(t, i, y)
      PROVE  YearLocks' /\ EntriesAreFresh'
  <2> DEFINE e == Entry("REVERSAL", i, y, Negated(journal[i].lines))
  <2>1. PICK locked \in BOOLEAN : LiveEntry(journal[i]) /\ ReadyWith(t, e, i, 0, locked)
    BY <1>6 DEF ReverseBySource, Reverse
  <2>2. Offered(e, i, 0)
    BY <2>1 DEF Offered, ReadyWith
  <2> HIDE DEF e
  <2>3. PICK ee : ee = e
    OBVIOUS
  <2> QED
    BY <1>3, <2>1, <2>2, <2>3, ReadyKeepsSerial
<1>7. ASSUME NEW t \in Txs, NEW y \in Years, CloseYear(t, y)
      PROVE  YearLocks' /\ EntriesAreFresh'
  <2> DEFINE e == Entry("FiscalYearClose", y, y, ClosingLines(y))
  <2>1. ReadyWith(t, e, 0, y, FALSE) /\ CanLockYear(t, y) /\ e.year = y
    BY <1>7 DEF CloseYear, Entry
  <2>2. Offered(e, 0, y) /\ yearStatus[y] = "OPEN"
    BY <1>7, <2>1 DEF Offered, CloseYear, ReadyWith
  <2> HIDE DEF e
  <2>3. PICK ee : ee = e
    OBVIOUS
  <2> QED
    BY <2>1, <2>2, <2>3, ReadyKeepsSerial
<1>8. ASSUME NEW t \in Txs, NEW y \in Years, OpenYear(t, y)
      PROVE  YearLocks' /\ EntriesAreFresh'
  <2> DEFINE e == Entry("FiscalYearOpen", y, y, OpeningLines(y))
             p == Max(Previous(y))
  <2>1. /\ ReadyWith(t, e, 0, 0, FALSE) /\ Previous(y) # {} /\ yearStatus[p] = "CLOSED"
        /\ Drift(OpeningLines(y)) = 0
    BY <1>8 DEF OpenYear
  <2>2. p \in Years /\ p < y
    BY <2>1, PreviousIsBefore DEF Previous
  <2>3. OpeningLines(y) = CarriedFrom(p)
    BY DEF OpeningLines, CarriedFrom
  <2>4. Offered(e, 0, 0)
    BY <2>1, <2>2, <2>3 DEF Offered, ReadyWith
  <2> HIDE DEF e
  <2>5. PICK ee : ee = e
    OBVIOUS
  <2> QED
    BY <1>3, <2>1, <2>4, <2>5, ReadyKeepsSerial
<1>9. ASSUME NEW t \in Txs, NEW y \in Years, CloseEmptyYear(t, y)
      PROVE  YearLocks' /\ EntriesAreFresh'
  <2> DEFINE r == [pc |-> "empty", closes |-> y]
  <2>1. /\ tx' = [tx EXCEPT ![t] = r] /\ UNCHANGED <<journal, yearStatus>>
        /\ CanLockYear(t, y) /\ yearStatus[y] = "OPEN" /\ ~HasActivity(y)
    BY <1>9 DEF CloseEmptyYear
  <2>2. YearLocks'
    <3>1. r.pc = "empty" /\ r.closes = y
      OBVIOUS
    <3> HIDE DEF r
    <3> QED
      BY <2>1, <3>1, LocalKeepsYearLocks
  <2>3. ASSUME NEW x \in Txs, Working(x)' PROVE Working(x) /\ tx'[x] = tx[x]
    BY <1>1, <2>1, <2>3 DEF Working
  <2>4. EntriesAreFresh'
    BY <2>1, <2>3, FreshStays DEF EntriesAreFresh
  <2> QED
    BY <2>2, <2>4
<1>10. ASSUME NEW t \in Txs, Insert(t) PROVE YearLocks' /\ EntriesAreFresh'
  <2> DEFINE free == YearFree(t, tx[t].entry.year)
             r == [tx[t] EXCEPT !.pc = "inserted", !.keyLocked = free]
  <2>1. tx' = [tx EXCEPT ![t] = r] /\ UNCHANGED <<journal, yearStatus>>
    BY <1>1, <1>10 DEF Insert
  <2>2. Working(t) /\ tx[t].pc = "ready"
    BY <1>10 DEF Insert, Working
  <2>3. /\ r.pc = "inserted" /\ r.no = tx[t].no /\ r.entry = tx[t].entry
        /\ r.reverses = tx[t].reverses /\ r.closes = tx[t].closes
        /\ r.keyLocked => YearFree(t, r.entry.year)
    BY <1>2, <2>2
  <2> HIDE DEF r
  <2>4. PICK rr : rr = r
    OBVIOUS
  <2>5. rr.keyLocked => YearFree(t, rr.entry.year)
    BY <2>3, <2>4 DEF YearFree
  <2> QED
    BY <2>1, <2>2, <2>3, <2>4, <2>5, LocalKeepsSerial
<1>11. ASSUME NEW t \in Txs, KeyLockGranted(t) PROVE YearLocks' /\ EntriesAreFresh'
  <2> DEFINE r == [tx[t] EXCEPT !.keyLocked = TRUE]
  <2>1. tx' = [tx EXCEPT ![t] = r] /\ UNCHANGED <<journal, yearStatus>>
    BY <1>1, <1>11 DEF KeyLockGranted
  <2>2. Working(t) /\ Inserted(t) /\ YearFree(t, tx[t].entry.year)
    BY <1>11 DEF KeyLockGranted, Working, Inserted
  <2>3. /\ r.pc = tx[t].pc /\ r.no = tx[t].no /\ r.entry = tx[t].entry
        /\ r.reverses = tx[t].reverses /\ r.closes = tx[t].closes
        /\ YearFree(t, r.entry.year)
    BY <1>2, <2>2
  <2> HIDE DEF r
  <2>4. PICK rr : rr = r
    OBVIOUS
  <2>5. YearFree(t, rr.entry.year)
    BY <2>3, <2>4 DEF YearFree
  <2>6. /\ tx' = [tx EXCEPT ![t] = rr]
        /\ rr.pc = tx[t].pc /\ rr.no = tx[t].no /\ rr.entry = tx[t].entry
        /\ rr.reverses = tx[t].reverses /\ rr.closes = tx[t].closes
    BY <2>1, <2>3, <2>4
  <2> QED
    BY <2>1, <2>2, <2>5, <2>6, LocalKeepsSerial
<1>12. ASSUME NEW t \in Txs, LockOriginal(t) PROVE YearLocks' /\ EntriesAreFresh'
  <2> DEFINE r == [tx[t] EXCEPT !.rowLocked = TRUE]
  <2>1. tx' = [tx EXCEPT ![t] = r] /\ UNCHANGED <<journal, yearStatus>>
    BY <1>1, <1>12 DEF LockOriginal
  <2>2. Working(t) /\ Inserted(t) /\ tx[t].keyLocked
    BY <1>12 DEF LockOriginal, Working, Inserted
  <2>3. /\ r.pc = tx[t].pc /\ r.no = tx[t].no /\ r.entry = tx[t].entry
        /\ r.reverses = tx[t].reverses /\ r.closes = tx[t].closes
    BY <1>2, <2>2
  <2> HIDE DEF r
  <2>4. PICK rr : rr = r
    OBVIOUS
  <2>5. /\ tx' = [tx EXCEPT ![t] = rr]
        /\ rr.pc = tx[t].pc /\ rr.no = tx[t].no /\ rr.entry = tx[t].entry
        /\ rr.reverses = tx[t].reverses /\ rr.closes = tx[t].closes
    BY <2>1, <2>3, <2>4
  <2> QED
    BY <2>1, <2>2, <2>5, LocalKeepsSerial
<1>13. ASSUME NEW t \in Txs, NEW r, r.pc \in {"idle", "lost"},
              tx' = [tx EXCEPT ![t] = r], UNCHANGED <<journal, yearStatus>>
       PROVE  YearLocks' /\ EntriesAreFresh'
  BY <1>13, LocalKeepsSerial
<1>14. ASSUME NEW t \in Txs, InsertLosesNumber(t) \/ InsertRefused(t) \/ Rollback(t)
       PROVE  YearLocks' /\ EntriesAreFresh'
  BY <1>13, <1>14 DEF InsertLosesNumber, InsertRefused, Rollback, Idle
<1>15. ASSUME NEW y \in Years, NEW s \in {"OPEN", "CLOSED"},
              yearStatus' = [yearStatus EXCEPT ![y] = s], journal' = journal,
              yearStatus[y] = "NONE" \/ s = "CLOSED",
              \A x \in Txs : ~HoldsYear(x, y)',
              \A x \in Txs : tx'[x] = tx[x] \/ tx'[x].pc = "idle"
       PROVE  YearLocks' /\ EntriesAreFresh'
  <2>1. yearStatus \in [Years -> {"NONE", "OPEN", "CLOSED"}]
    BY <1>1 DEF IInv, TypeOK
  <2>2. \A p \in Years : /\ yearStatus[p] = "CLOSED" => yearStatus'[p] = "CLOSED"
                         /\ yearStatus[p] # "NONE" => yearStatus'[p] # "NONE"
    BY <1>15, <2>1
  <2>3. EntriesAreFresh'
    <3>1. \A x \in Txs : Working(x)' => Working(x) /\ tx'[x] = tx[x]
      BY <1>15 DEF Working
    <3> QED
      BY <1>15, <2>2, <3>1, FreshStays DEF EntriesAreFresh
  <2>4. \A x \in Txs, z \in Years : HoldsYear(x, z)' =>
           HoldsYear(x, z) /\ yearStatus'[z] = yearStatus[z] /\ tx'[x] = tx[x]
    BY <1>15, <2>1 DEF HoldsYear
  <2>5. \A x \in Txs : Inserted(x)' => Inserted(x) /\ tx'[x] = tx[x]
    BY <1>15 DEF Inserted
  <2>6. \A z : HasActivity(z)' = HasActivity(z)
    BY <1>15 DEF HasActivity, NetOf
  <2>7. YearLocks'
    BY <1>1, <2>4, <2>5, <2>6 DEF YearLocks
  <2> QED
    BY <2>3, <2>7
<1>16. ASSUME NEW y \in Years, CreateYear(y) PROVE YearLocks' /\ EntriesAreFresh'
  <2>1. \A x \in Txs : ~HoldsYear(x, y)'
    BY <1>1, <1>16, LocksOf DEF CreateYear, HoldsYear
  <2> QED
    BY <1>15, <1>16, <2>1 DEF CreateYear
<1>17. ASSUME NEW t \in Txs, CommitEmptyClose(t) PROVE YearLocks' /\ EntriesAreFresh'
  <2>1. PICK y \in Years : y = tx[t].closes
    BY <1>1, <1>17 DEF CommitEmptyClose, TransactionsWith
  <2>2. /\ yearStatus' = [yearStatus EXCEPT ![y] = "CLOSED"] /\ journal' = journal
        /\ tx'[t].pc = "idle" /\ \A x \in Txs \ {t} : tx'[x] = tx[x]
    BY <1>1, <1>17, <2>1 DEF CommitEmptyClose, Idle
  <2>3. HoldsYear(t, y)
    BY <1>17, <2>1 DEF CommitEmptyClose, HoldsYear
  <2>4. \A x \in Txs : ~HoldsYear(x, y)'
    BY <1>1, <2>2, <2>3, LocksOf DEF HoldsYear
  <2> QED
    BY <1>15, <2>2, <2>4
<1>18. CASE UNCHANGED vars
  <2>1. journal' = journal /\ yearStatus' = yearStatus /\ tx' = tx
    BY <1>18 DEF vars
  <2>2. \A x \in Txs : Working(x)' => Working(x)
    BY <2>1 DEF Working
  <2>3. EntriesAreFresh'
    BY <2>1, <2>2, FreshStays DEF EntriesAreFresh
  <2>4. \A y : HasActivity(y)' = HasActivity(y)
    BY <2>1 DEF HasActivity, NetOf
  <2>5. \A x, y : HoldsYear(x, y)' = HoldsYear(x, y)
    BY <2>1 DEF HoldsYear
  <2>6. YearLocks'
    BY <1>1, <2>1, <2>4, <2>5 DEF YearLocks, Inserted
  <2> QED
    BY <2>3, <2>6
<1> QED
  BY <1>4, <1>5, <1>6, <1>7, <1>8, <1>9, <1>10, <1>11, <1>12, <1>14, <1>16, <1>17, <1>18,
     CommitKeepsSerial DEF Next

LEMMA InitSerial == Init => SerialIInv /\ Serial!Init
<1> SUFFICES ASSUME Init PROVE YearLocks /\ EntriesAreFresh /\ Serial!Init
  BY Initially DEF SerialIInv
<1>1. \A t \in Txs : tx[t].pc = "idle"
  BY DEF Init, Idle
<1> QED
  BY <1>1 DEF Init, YearLocks, EntriesAreFresh, HoldsYear, Working, Serial!Init
-----------------------------------------------------------------------------
(* The abstract ledger reads the journal the way the transactions do.      *)
LEMMA SameNet ==
  \A a, years : Serial!Net(a, years) = NetOf(a, years)
BY DEF Serial!Net, NetOf, SumFunctionOnSet, Serial!SumFunctionOnSet, FoldFunctionOnSet,
       Serial!FoldFunctionOnSet, MapThenFoldSet, Serial!MapThenFoldSet

LEMMA SameSum ==
  \A f, S : Serial!SumFunctionOnSet(f, S) = SumFunctionOnSet(f, S)
BY DEF SumFunctionOnSet, Serial!SumFunctionOnSet, FoldFunctionOnSet,
       Serial!FoldFunctionOnSet, MapThenFoldSet, Serial!MapThenFoldSet

LEMMA SameReading ==
  ASSUME NEW y \in Years
  PROVE  /\ Serial!Active(y) = HasActivity(y)
         /\ RetainedEarnings \notin Temporary => Serial!Result(y) = ClosingLines(y)[RetainedEarnings]
BY SameNet, SameSum, LedgerConstants DEF Serial!Active, HasActivity, Serial!Result, ClosingLines,
   Accounts

(* COMMIT enters the entry as the abstract ledger does: its year takes it, *)
(* its source has no other live entry.                                     *)
LEMMA CommitEnters ==
  ASSUME SerialIInv, NEW t \in Txs, Commit(t), NEW type, NEW source, NEW y \in Years,
         NEW lines, tx[t].entry = Entry(type, source, y, lines),
         \E a \in Accounts : lines[a] # 0
  PROVE  Serial!Enter(type, source, y, lines, tx[t].reverses)
<1> DEFINE e == tx[t].entry
<1>1. IInv /\ Inserted(t) /\ Working(t)
  BY DEF SerialIInv, Commit, Inserted, Working
<1>2. /\ e.type = type /\ e.source = source /\ e.year = y
      /\ e = [type |-> type, source |-> source, year |-> y, status |-> "POSTED",
              lines |-> lines]
  BY DEF Entry
<1>3. Serial!Takes(y)
  BY <1>1, <1>2 DEF SerialIInv, EntriesAreFresh, IInv, ClosingIsFinal, Serial!Takes
<1>4. source # NoSource =>
        \A k \in DOMAIN journal :
          journal[k].type = type /\ journal[k].source = source => ~Serial!Live(k)
  <2>1. ~SourceTaken(t)
    BY <1>1 DEF IInv, InsertedAlone
  <2> QED
    BY <1>2, <2>1 DEF SourceTaken, SameSource, LiveEntry, Serial!Live
<1>5. journal' = Append([k \in DOMAIN journal |->
                           IF k = tx[t].reverses THEN [journal[k] EXCEPT !.status = "REVERSED"]
                           ELSE journal[k]], e)
  BY DEF Commit, Marked
<1> QED
  BY <1>2, <1>3, <1>4, <1>5 DEF Serial!Enter, Serial!Accounts, Accounts, NoSource, Serial!NoSource

LEMMA CommitImplements ==
  ASSUME SerialIInv, NEW t \in Txs, Commit(t)
  PROVE  Serial!Next
<1> DEFINE e == tx[t].entry
           i == tx[t].reverses
           c == tx[t].closes
<1>1. IInv /\ YearLocks /\ Inserted(t) /\ Working(t)
  BY DEF SerialIInv, Commit, Inserted, Working
<1>2. yearStatus \in [Years -> {"NONE", "OPEN", "CLOSED"}] /\ 0 \notin Years
  BY <1>1, LedgerConstants DEF IInv, TypeOK
<1>3. Offered(e, i, c)
  BY <1>1 DEF SerialIInv, EntriesAreFresh, IInv, InsertedAlone
<1>4. PICK some \in Accounts : e.lines[some] # 0
  BY <1>3 DEF Offered
<1>5. c = 0 => UNCHANGED yearStatus
  BY <1>2 DEF Commit
<1>6. Accounts = Serial!Accounts /\ NoSource = Serial!NoSource
  BY DEF Accounts, Serial!Accounts, NoSource, Serial!NoSource
<1>7. ASSUME NEW y \in Years, NEW lines \in DocumentLines, i = 0, c = 0,
             e = Entry("MANUAL", NoSource, y, lines)
      PROVE  Serial!Next
  <2>1. Serial!Enter("MANUAL", NoSource, y, lines, i)
    BY <1>4, <1>7, CommitEnters DEF Entry
  <2>2. Serial!Manual(y, lines)
    BY <1>5, <1>6, <1>7, <2>1 DEF Serial!Manual
  <2> QED
    BY <2>2 DEF Serial!Next
<1>8. ASSUME NEW y \in Years, NEW lines \in DocumentLines, NEW d \in Documents, i = 0, c = 0,
             e = Entry("DOCUMENT", d, y, lines)
      PROVE  Serial!Next
  <2>1. Serial!Enter("DOCUMENT", d, y, lines, i)
    BY <1>4, <1>8, CommitEnters DEF Entry
  <2>2. Serial!Document(d, y, lines)
    BY <1>5, <1>8, <2>1 DEF Serial!Document
  <2> QED
    BY <2>2 DEF Serial!Next
<1>9. ASSUME NEW y \in Years, i \in DOMAIN journal, LiveEntry(journal[i]), c = 0,
             e = Entry("REVERSAL", i, y, Negated(journal[i].lines))
      PROVE  Serial!Next
  <2>1. PICK j \in DOMAIN journal, lines \in {Negated(journal[i].lines)} :
               j = i /\ lines = Negated(journal[i].lines)
    BY <1>9
  <2>2. Serial!Enter("REVERSAL", j, y, lines, j)
    <3>1. e = Entry("REVERSAL", j, y, lines) /\ lines[some] # 0
      BY <1>4, <1>9, <2>1 DEF Entry
    <3>2. Serial!Enter("REVERSAL", j, y, lines, i)
      BY <3>1, CommitEnters
    <3> QED
      BY <2>1, <3>2
  <2>3. lines = [a \in Serial!Accounts |-> -journal[j].lines[a]]
    BY <1>6, <2>1 DEF Negated
  <2>4. j # 0 /\ journal[j].status \in {"POSTED", "REVERSED"}
    <3>1. journal \in Seq(EntriesWith([Accounts -> Int]))
      BY <1>1 DEF IInv, TypeOK
    <3>2. journal[j] \in EntriesWith([Accounts -> Int]) /\ j # 0
      BY <3>1
    <3> QED
      BY <3>2 DEF EntriesWith
  <2>5. Serial!Live(j) /\ yearStatus[journal[j].year] = "OPEN"
    BY <1>9, <2>1, <2>4 DEF Commit, LiveEntry, Serial!Live
  <2>6. Serial!Reverse(j, y)
    BY <1>5, <1>9, <2>2, <2>3, <2>5 DEF Serial!Reverse
  <2> QED
    BY <2>6 DEF Serial!Next
<1>10. ASSUME c \in Years, i = 0, HasActivity(c), NetIncome(c) # 0,
              e = Entry("FiscalYearClose", c, c, ClosingLines(c))
       PROVE  Serial!Next
  <2>1. PICK y \in Years, lines \in {ClosingLines(c)} : y = c /\ lines = ClosingLines(y)
    BY <1>10
  <2>2. Serial!Enter("FiscalYearClose", y, y, lines, i)
    <3>1. e = Entry("FiscalYearClose", y, y, lines) /\ lines[some] # 0
      BY <1>4, <1>10, <2>1 DEF Entry
    <3> QED
      BY <3>1, CommitEnters
  <2>3. RetainedEarnings \notin Temporary /\ RetainedEarnings \in Accounts
    BY LedgerConstants DEF Accounts
  <2>4. Serial!Active(y) /\ Serial!Result(y) = lines[RetainedEarnings]
    BY <1>10, <2>1, <2>3, SameReading
  <2>5. Serial!Result(y) # 0
    BY <1>10, <2>1, <2>4 DEF NetIncome
  <2>6. lines = [a \in Serial!Accounts |->
                   IF a \in Temporary THEN -Serial!Net(a, {y})
                   ELSE IF a = RetainedEarnings THEN Serial!Result(y) ELSE 0]
    BY <1>6, <2>1, <2>3, <2>4, SameNet DEF ClosingLines
  <2>7. yearStatus[y] = "OPEN"
    BY <1>1, <2>1, LocksOf DEF HoldsYear, Inserted
  <2>8. yearStatus' = [yearStatus EXCEPT ![y] = "CLOSED"]
    BY <1>2, <2>1 DEF Commit
  <2>9. Serial!Close(y)
    BY <1>10, <2>2, <2>4, <2>5, <2>6, <2>7, <2>8 DEF Serial!Close
  <2> QED
    BY <2>9 DEF Serial!Next
<1>11. ASSUME NEW y \in Years, NEW p \in Years, i = 0, c = 0, p < y,
              yearStatus[p] = "CLOSED", Drift(CarriedFrom(p)) = 0,
              e = Entry("FiscalYearOpen", y, y, CarriedFrom(p))
       PROVE  Serial!Next
  <2>1. PICK lines : lines = CarriedFrom(p)
    OBVIOUS
  <2>2. Serial!Enter("FiscalYearOpen", y, y, lines, i)
    <3>1. e = Entry("FiscalYearOpen", y, y, lines) /\ lines[some] # 0
      BY <1>4, <1>11, <2>1 DEF Entry
    <3> QED
      BY <3>1, CommitEnters
  <2>3. lines = [a \in Serial!Accounts |->
                   IF a \in Permanent THEN Serial!Net(a, {x \in Years : x <= p}) ELSE 0]
    BY <1>6, <2>1, SameNet DEF CarriedFrom
  <2>4. Serial!SumFunctionOnSet(lines, Serial!Accounts) = 0
    BY <1>6, <1>11, <2>1, SameSum DEF Drift
  <2>5. Serial!Open(y, p)
    BY <1>5, <1>11, <2>2, <2>3, <2>4 DEF Serial!Open
  <2> QED
    BY <2>5 DEF Serial!Next
<1> QED
  BY <1>3, <1>7, <1>8, <1>9, <1>10, <1>11 DEF Offered

LEMMA StepImplementsSerial ==
  SerialIInv /\ [Next]_vars => [Serial!Next]_Serial!vars
<1> SUFFICES ASSUME SerialIInv, [Next]_vars, ~UNCHANGED <<journal, yearStatus>>
             PROVE  Serial!Next
  BY DEF Serial!vars
<1>1. tx \in [Txs -> TransactionsWith([Accounts -> Int])] /\ YearLocks
  BY DEF SerialIInv, IInv, TypeOK
<1>2. ASSUME NEW y \in Years, CreateYear(y) PROVE Serial!Next
  <2>1. Serial!Create(y)
    BY <1>2 DEF CreateYear, Serial!Create
  <2> QED
    BY <2>1 DEF Serial!Next
<1>3. ASSUME NEW t \in Txs, CommitEmptyClose(t) PROVE Serial!Next
  <2>1. PICK y \in Years : y = tx[t].closes
    BY <1>1, <1>3 DEF CommitEmptyClose, TransactionsWith
  <2>2. HoldsYear(t, y) /\ tx[t].pc = "empty"
    BY <1>3, <2>1 DEF CommitEmptyClose, HoldsYear
  <2>3. yearStatus[y] = "OPEN" /\ ~HasActivity(y)
    BY <1>1, <2>2, LocksOf
  <2>4. ~Serial!Active(y)
    BY <2>3, SameReading
  <2>5. Serial!CloseEmpty(y)
    BY <1>3, <2>1, <2>3, <2>4 DEF CommitEmptyClose, Serial!CloseEmpty
  <2> QED
    BY <2>5 DEF Serial!Next
<1>4. ASSUME NEW t \in Txs, NEW y \in Years,
             \/ \E lines \in DocumentLines :
                  \/ PostManual(t, y, lines)
                  \/ \E d \in Documents : PostDocument(t, d, y, lines)
             \/ \E i \in DOMAIN journal : ReverseBySource(t, i, y) \/ Reverse(t, i, y)
             \/ CloseYear(t, y) \/ CloseEmptyYear(t, y) \/ OpenYear(t, y)
      PROVE  UNCHANGED <<journal, yearStatus>>
  BY <1>4 DEF PostManual, PostDocument, ReverseBySource, Reverse, CloseYear, CloseEmptyYear,
              OpenYear, ReadyWith
<1>5. ASSUME NEW t \in Txs,
             \/ Insert(t) \/ InsertLosesNumber(t) \/ InsertRefused(t)
             \/ KeyLockGranted(t) \/ LockOriginal(t) \/ Rollback(t)
      PROVE  UNCHANGED <<journal, yearStatus>>
  BY <1>5 DEF Insert, InsertLosesNumber, InsertRefused, KeyLockGranted, LockOriginal, Rollback
<1>6. CASE UNCHANGED vars
  BY <1>6 DEF vars
<1> QED
  BY <1>2, <1>3, <1>4, <1>5, <1>6, CommitImplements DEF Next

(* The ledger is serializable at its commits: for any number of concurrent *)
(* transactions, every posting, reversal, close and opening has the effect *)
(* it would have alone, on the journal as it is when it commits. Nothing   *)
(* is double counted, voided twice or summed too early, although           *)
(* posting.service.ts and ledger.service.ts read before they lock.         *)
THEOREM LedgerIsSerializable == Spec => ImplementsSerialLedger
BY InitSerial, NextKeepsSerial, StepImplementsSerial, PTL
DEF Spec, ImplementsSerialLedger, Serial!Spec
-----------------------------------------------------------------------------
(***************************************************************************)
(* The books of the bank: proofs about Treasury, for any number of         *)
(* accounts, transactions, reconciliations, statement lines and requests.  *)
(***************************************************************************)
USE TreasuryConstants

(* What the locals of a request are.                                       *)
LEMMA RequestFields ==
  ASSUME TreasuryTypeOK, NEW r \in Request
  PROVE  LET q == request[r] IN
         /\ q.pc \in {"adding", "auto", "auto_found", "book_read", "bank_read", "completing"} =>
              q.reconciliation \in Reconciliation
         /\ q.pc \in {"matching", "recorded", "recording", "auto_found"} => q.line \in StatementLine
         /\ q.pc \in {"matching", "recorded", "auto_found"} => q.tx \in Transaction
         /\ InAuto(r) => q.todo \subseteq StatementLine /\ q.matched \subseteq StatementLine \X Transaction
         /\ q.pc \in {"book_read", "bank_read"} => q.book \in Int
         /\ q.pc = "bank_read" => q.bank \in Int
<1>1. request[r] \in RequestStates
  BY DEF TreasuryTypeOK
<1> QED BY <1>1 DEF RequestStates, AtRest, InAuto

(* A row that is there is one.                                             *)
LEMMA Rows ==
  ASSUME TreasuryTypeOK
  PROVE  /\ \A a \in Account : Live(a) => account[a] \in AccountRow
         /\ \A a \in Account : account[a] # Absent <=> Live(a)
         /\ \A t \in Transaction : IsTransaction(t) => transaction[t] \in TransactionRow
         /\ \A t \in Transaction : transaction[t] # Absent <=> IsTransaction(t)
         /\ \A k \in Reconciliation : reconciliation[k] # Absent => reconciliation[k] \in ReconciliationRow
         /\ \A k \in Reconciliation : Open(k) => reconciliation[k] # Absent
         /\ \A l \in StatementLine : IsLine(l) => line[l] \in LineRow
         /\ \A l \in StatementLine : line[l] # Absent <=> IsLine(l)
BY DEF TreasuryTypeOK, Live, IsTransaction, IsLine, Open, Absent, AccountRow, TransactionRow,
       ReconciliationRow, LineRow

(* An amount with its sign is a number.                                    *)
LEMMA Amounts ==
  ASSUME TreasuryTypeOK
  PROVE  /\ \A t \in Transaction : IsTransaction(t) => SignedAmount(t) \in Int /\ Effect(t) \in Int
         /\ \A l \in StatementLine : IsLine(l) => line[l].amount \in Int
<1>1. \A t \in Transaction : IsTransaction(t) => transaction[t].amount \in Int
  BY Rows DEF TransactionRow, Amount
<1>2. \A l \in StatementLine : IsLine(l) => line[l].amount \in Int
  BY Rows DEF LineRow, StatementAmount
<1> QED BY <1>1, <1>2 DEF SignedAmount, Effect

LEMMA FiniteSets ==
  /\ \A a : OfAccount(a) \subseteq Transaction /\ IsFiniteSet(OfAccount(a))
  /\ \A k : InStatement(k) \subseteq Transaction /\ IsFiniteSet(InStatement(k))
  /\ \A k : LinesOf(k) \subseteq StatementLine /\ IsFiniteSet(LinesOf(k))
BY FS_Subset DEF OfAccount, InStatement, LinesOf

LEMMA InitTreasury == TreasuryInit => TreasuryInv
<1> SUFFICES ASSUME TreasuryInit PROVE TreasuryInv
  OBVIOUS
<1>1. TreasuryTypeOK
  BY DEF TreasuryInit, TreasuryTypeOK, RequestStates
<1>2. /\ \A a \in Account : ~Live(a) /\ collected[a] = 0
      /\ \A t \in Transaction : ~IsTransaction(t)
      /\ \A l \in StatementLine : ~IsLine(l)
      /\ \A r \in Request : request[r].pc = "idle"
  BY DEF TreasuryInit, Live, IsTransaction, IsLine, Absent, AtRest
<1>3. NothingBefore /\ BalanceExplained
  BY <1>2 DEF NothingBefore, BalanceExplained, OfAccount
<1>4. RowsExist /\ HeldIsSound /\ MatchesAreSound
  BY <1>2 DEF RowsExist, HeldIsSound, MatchesAreSound, InAuto, Held
<1> QED BY <1>1, <1>3, <1>4 DEF TreasuryInv

-----------------------------------------------------------------------------
\* The steps that change nothing but the locals of one request.
LocalStep(r) ==
  \/ \E k \in Reconciliation : AddRead(r, k) \/ AutoRead(r, k) \/ ReadBook(r, k)
  \/ \E l \in StatementLine : AutoFind(r, l) \/ RecordRead(r, l)
  \/ \E l \in StatementLine, t \in Transaction : MatchRead(r, l, t)
  \/ AutoMatch(r) \/ ReadBank(r) \/ ReadTransit(r) \/ Abort(r)

\* The steps that write the lines of a statement.
LineStep(r) ==
  \/ \E new \in SUBSET StatementLine :
        \E amount \in [new -> StatementAmount], date \in [new -> Day] : AddWrite(r, new, amount, date)
  \/ AutoCommit(r) \/ MatchWrite(r)

\* The steps on accounts.
AccountStep ==
  \/ \E a \in Account, opening \in Balance : CreateAccount(a, opening)
  \/ \E a \in Account, amount \in Amount : Collect(a, amount)

(* Every step is of one of nine kinds.                                     *)
LEMMA Steps ==
  ASSUME [TreasuryNext]_treasuryVars
  PROVE  \/ UNCHANGED treasuryVars
         \/ AccountStep
         \/ \E a \in Account, t \in Transaction, type \in {"DEPOSIT", "WITHDRAWAL"},
               amount \in Amount, date \in Day : Move(a, t, type, amount, date)
         \/ \E a, b \in Account, out, in \in Transaction, amount \in Amount, date \in Day :
               Transfer(a, b, out, in, amount, date)
         \/ \E k \in Reconciliation, a \in Account, date \in Day, stated \in Balance :
               Create(k, a, date, stated)
         \/ \E l \in StatementLine : Unmatch(l)
         \/ \E r \in Request : LocalStep(r)
         \/ \E r \in Request : LineStep(r)
         \/ \E r \in Request, t \in Transaction : RecordMove(r, t)
         \/ \E r \in Request : Complete(r)
BY DEF TreasuryNext, Office, Step, LocalStep, LineStep, AccountStep

LEMMA LocalStepIsLocal ==
  ASSUME TreasuryTypeOK, NEW r \in Request, LocalStep(r)
  PROVE  /\ UNCHANGED <<account, collected, transaction, reconciliation, line>>
         /\ \A x \in Request \ {r} : request'[x] = request[x]
<1>1. UNCHANGED <<book, reconciliation, line>>
  BY DEF LocalStep, AddRead, AutoRead, ReadBook, AutoFind, RecordRead, MatchRead, AutoMatch,
         ReadBank, ReadTransit, Abort
<1>2. \E q : request' = [request EXCEPT ![r] = q]
  BY DEF LocalStep, AddRead, AutoRead, ReadBook, RecordRead, MatchRead, AutoMatch,
         ReadBank, ReadTransit, Abort, Done, AutoFind
<1> QED BY <1>1, <1>2 DEF book, TreasuryTypeOK

(* A movement of an account writes its stated and one new row.            *)
LEMMA MovementEffect ==
  ASSUME TreasuryTypeOK, NEW a \in Account, NEW t \in Transaction,
         NEW type \in {"DEPOSIT", "WITHDRAWAL"},
         NEW amount \in Amount, NEW date \in Day, Movement(a, t, type, amount, date)
  PROVE  LET delta == IF type = "DEPOSIT" THEN amount ELSE -amount IN
         /\ Live(a) /\ ~IsTransaction(t) /\ delta \in Int /\ collected' = collected
         /\ account[a].balance + delta >= 0
         /\ account' = [account EXCEPT ![a].balance = @ + delta]
         /\ \A b \in Account \ {a} : account'[b] = account[b]
         /\ account'[a].status = "LIVE" /\ account'[a].opening = account[a].opening
         /\ account'[a].balance = account[a].balance + delta
         /\ account' \in [Account -> AccountRow \cup {Absent}]
         /\ transaction'[t] \in TransactionRow /\ transaction'[t].account = a
         /\ Effect(t)' = delta
         /\ \A u \in Transaction \ {t} : transaction'[u] = transaction[u]
         /\ transaction' \in [Transaction -> TransactionRow \cup {Absent}]
<1> DEFINE delta == IF type = "DEPOSIT" THEN amount ELSE -amount
           row == [status |-> "DONE", account |-> a, amount |-> amount, date |-> date, type |-> type]
<1>1. Live(a) /\ account[a] \in AccountRow /\ ~IsTransaction(t) /\ delta \in Int
      /\ account[a].balance + delta >= 0
      /\ account' = [account EXCEPT ![a].balance = @ + delta]
      /\ transaction' = [transaction EXCEPT ![t] = row] /\ collected' = collected
  BY Rows DEF Movement, Paid, Amount
<1>2. row \in TransactionRow /\ row.account = a /\ row.type = type /\ row.amount = amount
  BY DEF TransactionRow
<1>3. account[a].balance + delta \in Nat
  BY <1>1 DEF AccountRow
<1> HIDE DEF delta, row
<1>4. [account[a] EXCEPT !.balance = @ + delta] \in AccountRow
  BY <1>1, <1>3 DEF AccountRow
<1>5. /\ account'[a] = [account[a] EXCEPT !.balance = @ + delta]
      /\ \A b \in Account \ {a} : account'[b] = account[b]
      /\ account' \in [Account -> AccountRow \cup {Absent}]
  BY <1>1, <1>4 DEF TreasuryTypeOK
<1>6. account'[a].status = "LIVE" /\ account'[a].opening = account[a].opening
      /\ account'[a].balance = account[a].balance + delta
  BY <1>1, <1>5 DEF AccountRow
<1>7. transaction'[t] = row /\ (\A u \in Transaction \ {t} : transaction'[u] = transaction[u])
      /\ transaction' \in [Transaction -> TransactionRow \cup {Absent}]
  BY <1>1, <1>2 DEF TreasuryTypeOK
<1>8. Effect(t)' = delta
  BY <1>2, <1>7 DEF Effect, delta
<1> QED BY <1>1, <1>2, <1>5, <1>6, <1>7, <1>8 DEF delta

(* A transfer writes two stateds and two new rows.                        *)
LEMMA TransferEffect ==
  ASSUME TreasuryTypeOK, NEW a \in Account, NEW b \in Account, NEW out \in Transaction,
         NEW in \in Transaction,
         NEW amount \in Amount, NEW date \in Day, Transfer(a, b, out, in, amount, date)
  PROVE  /\ a # b /\ out # in /\ Live(a) /\ Live(b) /\ ~IsTransaction(out) /\ ~IsTransaction(in)
         /\ amount \in Nat /\ account[a].balance >= amount
         /\ UNCHANGED <<collected, reconciliation, line, request>>
         /\ \A c \in Account \ {a, b} : account'[c] = account[c]
         /\ \A c \in {a, b} : account'[c].status = "LIVE" /\ account'[c].opening = account[c].opening
         /\ account'[a].balance = account[a].balance - amount
         /\ account'[b].balance = account[b].balance + amount
         /\ account' \in [Account -> AccountRow \cup {Absent}]
         /\ transaction'[out] \in TransactionRow /\ transaction'[out].account = a
         /\ transaction'[in] \in TransactionRow /\ transaction'[in].account = b
         /\ Effect(out)' = -amount /\ Effect(in)' = amount
         /\ \A u \in Transaction \ {out, in} : transaction'[u] = transaction[u]
         /\ transaction' \in [Transaction -> TransactionRow \cup {Absent}]
<1> DEFINE sent == [status |-> "DONE", account |-> a, amount |-> amount, date |-> date,
                    type |-> "TRANSFER_OUT"]
           got == [status |-> "DONE", account |-> b, amount |-> amount, date |-> date,
                   type |-> "TRANSFER_IN"]
<1>1. /\ a # b /\ out # in /\ Live(a) /\ Live(b) /\ ~IsTransaction(out) /\ ~IsTransaction(in)
      /\ amount \in Nat /\ account[a].balance >= amount
      /\ UNCHANGED <<collected, reconciliation, line, request>>
      /\ account[a] \in AccountRow /\ account[b] \in AccountRow
      /\ account' = [account EXCEPT ![a].balance = @ - amount, ![b].balance = @ + amount]
      /\ transaction' = [transaction EXCEPT ![out] = sent, ![in] = got]
  BY Rows DEF Transfer, Amount
<1>2. /\ sent \in TransactionRow /\ sent.account = a /\ sent.type = "TRANSFER_OUT" /\ sent.amount = amount
      /\ got \in TransactionRow /\ got.account = b /\ got.type = "TRANSFER_IN" /\ got.amount = amount
  BY DEF TransactionRow
<1> HIDE DEF sent, got
<1>3. account[a].balance - amount \in Nat /\ account[b].balance + amount \in Nat
  BY <1>1 DEF AccountRow
<1>4. /\ [account[a] EXCEPT !.balance = @ - amount] \in AccountRow
      /\ [account[b] EXCEPT !.balance = @ + amount] \in AccountRow
  BY <1>1, <1>3 DEF AccountRow
<1>5. /\ account'[a] = [account[a] EXCEPT !.balance = @ - amount]
      /\ account'[b] = [account[b] EXCEPT !.balance = @ + amount]
      /\ \A c \in Account \ {a, b} : account'[c] = account[c]
      /\ account' \in [Account -> AccountRow \cup {Absent}]
  BY <1>1, <1>4 DEF TreasuryTypeOK
<1>6. /\ \A c \in {a, b} : account'[c].status = "LIVE" /\ account'[c].opening = account[c].opening
      /\ account'[a].balance = account[a].balance - amount
      /\ account'[b].balance = account[b].balance + amount
  BY <1>1, <1>5 DEF AccountRow
<1>7. /\ transaction'[out] = sent /\ transaction'[in] = got
      /\ \A u \in Transaction \ {out, in} : transaction'[u] = transaction[u]
      /\ transaction' \in [Transaction -> TransactionRow \cup {Absent}]
  BY <1>1, <1>2 DEF TreasuryTypeOK
<1>8. Effect(out)' = -amount /\ Effect(in)' = amount
  BY <1>2, <1>7 DEF Effect
<1> QED BY <1>1, <1>2, <1>5, <1>6, <1>7, <1>8

(* The transactions of an account when one more comes, or none.            *)
LEMMA OneMore ==
  ASSUME TreasuryTypeOK, NEW a \in Account, NEW t \in Transaction, ~IsTransaction(t),
         transaction'[t] \in TransactionRow, transaction'[t].account = a, Effect(t)' \in Int,
         \A u \in Transaction \ {t} : \/ transaction'[u] = transaction[u]
                                      \/ /\ ~IsTransaction(u)
                                         /\ transaction'[u].account # a
  PROVE  Effects(a)' = Effects(a) + Effect(t)'
<1> DEFINE S == OfAccount(a)
           f == [u \in Transaction |-> Effect(u)]
           g == [u \in Transaction |-> Effect(u)']
<1>1. S \subseteq Transaction /\ IsFiniteSet(S) /\ t \notin S
  BY FiniteSets DEF OfAccount
<1>2. OfAccount(a)' = S \cup {t}
  BY DEF OfAccount, IsTransaction, TransactionRow
<1>3. \A u \in S : transaction'[u] = transaction[u]
  BY <1>1 DEF OfAccount
<1>4. \A u \in S : f[u] \in Int /\ g[u] = f[u]
  <2>1. \A u \in S : Effect(u) \in Int
    BY Amounts DEF OfAccount
  <2>2. \A u \in S : Effect(u)' = Effect(u)
    BY <1>3 DEF Effect
  <2> QED BY <1>1, <2>1, <2>2
<1>5. g[t] = Effect(t)'
  OBVIOUS
<1>6. Effects(a) = SumFunctionOnSet(f, S) /\ Effects(a)' = SumFunctionOnSet(g, S \cup {t})
  <2>1. Effects(a)' = SumFunctionOnSet(g, OfAccount(a)')
    BY DEF Effects
  <2>2. Effects(a) = SumFunctionOnSet(f, S)
    BY DEF Effects
  <2> HIDE DEF f, g, S
  <2> QED BY <1>2, <2>1, <2>2
<1> HIDE DEF f, g, S
<1>7. SumFunctionOnSet(g, S \cup {t}) = g[t] + SumFunctionOnSet(g, S)
  BY <1>1, <1>4, <1>5, SumAdd
<1>8. SumFunctionOnSet(g, S) = SumFunctionOnSet(f, S) /\ SumFunctionOnSet(f, S) \in Int
  BY <1>1, <1>4, SumSame, SumInt
<1> QED BY <1>5, <1>6, <1>7, <1>8

LEMMA NoneMore ==
  ASSUME TreasuryTypeOK, NEW a \in Account,
         \A u \in Transaction : \/ transaction'[u] = transaction[u]
                                \/ ~IsTransaction(u) /\ transaction'[u].account # a
  PROVE  Effects(a)' = Effects(a) /\ OfAccount(a)' = OfAccount(a)
<1>1. OfAccount(a)' = OfAccount(a)
  BY DEF OfAccount, IsTransaction
<1>2. \A u \in OfAccount(a) : transaction'[u] = transaction[u]
  BY DEF OfAccount
<1>3. \A u \in OfAccount(a) : Effect(u)' = Effect(u)
  BY <1>2 DEF Effect
<1> DEFINE S == OfAccount(a)
           f == [u \in Transaction |-> Effect(u)]
           g == [u \in Transaction |-> Effect(u)']
<1>4. IsFiniteSet(S) /\ \A u \in S : f[u] = g[u]
  BY <1>3, FiniteSets DEF OfAccount
<1>5. Effects(a)' = SumFunctionOnSet(g, OfAccount(a)')
  BY DEF Effects
<1>6. Effects(a) = SumFunctionOnSet(f, S)
  BY DEF Effects
<1>7. OfAccount(a)' = S
  BY <1>1
<1> HIDE DEF S, f, g
<1>8. SumFunctionOnSet(f, S) = SumFunctionOnSet(g, S)
  BY ONLY <1>4, SumSame
<1>9. Effects(a)' = SumFunctionOnSet(g, S)
  BY ONLY <1>5, <1>7, Zenon
<1> QED BY <1>1, <1>6, <1>8, <1>9

-----------------------------------------------------------------------------
(* A step on the locals of a request leaves it in one of the states it can  *)
(* be in.                                                                  *)
LEMMA LocalStepTyped ==
  ASSUME TreasuryTypeOK, NEW r \in Request, LocalStep(r)
  PROVE  request'[r] \in RequestStates
<1>0. LET q == request[r] IN
      /\ q.pc \in {"adding", "auto", "auto_found", "book_read", "bank_read", "completing"} =>
              q.reconciliation \in Reconciliation
      /\ q.pc \in {"matching", "recorded", "recording", "auto_found"} => q.line \in StatementLine
      /\ q.pc \in {"matching", "recorded", "auto_found"} => q.tx \in Transaction
      /\ InAuto(r) => q.todo \subseteq StatementLine /\ q.matched \subseteq StatementLine \X Transaction
      /\ q.pc \in {"book_read", "bank_read"} => q.book \in Int
      /\ q.pc = "bank_read" => q.bank \in Int
  BY RequestFields
<1>1. \A q : request' = [request EXCEPT ![r] = q] => request'[r] = q
  BY DEF TreasuryTypeOK
<1>2. Done(r) => request'[r] = AtRest
  BY <1>1 DEF Done
<1>3. AtRest \in RequestStates
  BY DEF RequestStates
<1>4. \A k : BookBalance(k) \in Int /\ UnmatchedBank(k) \in Int
  <2> TAKE k
  <2>1. \A t \in InStatement(k) : SignedAmount(t) \in Int
    BY Amounts DEF InStatement
  <2>2. BookBalance(k) \in Int
    BY <2>1, FiniteSets, SumInt DEF BookBalance, SumOf
  <2>3. IsFiniteSet(Unmatched(k)) /\ Unmatched(k) \subseteq LinesOf(k)
    BY FiniteSets, FS_Subset DEF Unmatched
  <2>4. \A l \in Unmatched(k) : line[l].amount \in Int
    BY <2>3, Amounts DEF LinesOf
  <2> DEFINE f == [l \in StatementLine |-> line[l].amount]
  <2>5. \A l \in Unmatched(k) : f[l] \in Int
    BY <2>3, <2>4 DEF LinesOf
  <2>6. UnmatchedBank(k) = SumFunctionOnSet(f, Unmatched(k))
    BY DEF UnmatchedBank, SumOfLines
  <2> HIDE DEF f
  <2>7. UnmatchedBank(k) \in Int
    BY <2>3, <2>5, <2>6, SumInt
  <2> QED BY <2>2, <2>7
<1>5. ASSUME NEW k \in Reconciliation, AddRead(r, k) \/ AutoRead(r, k) \/ ReadBook(r, k)
      PROVE  request'[r] \in RequestStates
  <2>1. CASE AddRead(r, k)
    BY <1>1, <2>1 DEF AddRead, RequestStates
  <2>2. CASE AutoRead(r, k)
    <3>1. Unmatched(k) \subseteq StatementLine
      BY DEF Unmatched, LinesOf
    <3>2. request'[r] = [pc |-> "auto", reconciliation |-> k, todo |-> Unmatched(k), matched |-> {}]
      BY <1>1, <2>2 DEF AutoRead
    <3> QED BY <3>1, <3>2 DEF RequestStates
  <2>3. CASE ReadBook(r, k)
    <3>1. request'[r] = [pc |-> "book_read", reconciliation |-> k, book |-> BookBalance(k)]
      BY <1>1, <2>3 DEF ReadBook
    <3> QED BY <1>4, <3>1 DEF RequestStates
  <2> QED BY <1>5, <2>1, <2>2, <2>3
<1>6. ASSUME NEW l \in StatementLine, AutoFind(r, l) PROVE request'[r] \in RequestStates
  <2>1. request[r].pc = "auto" /\ request[r] \in RequestStates
    BY <1>6 DEF AutoFind, TreasuryTypeOK
  <2>2. request[r] \in [pc : {"auto"}, reconciliation : Reconciliation, todo : SUBSET StatementLine,
                        matched : SUBSET (StatementLine \X Transaction)]
    BY <2>1 DEF RequestStates, AtRest
  <2>3. CASE request' = [request EXCEPT ![r].todo = @ \ {l}]
    <3>1. request'[r] = [request[r] EXCEPT !.todo = @ \ {l}]
      BY <2>3 DEF TreasuryTypeOK
    <3>2. request'[r] \in [pc : {"auto"}, reconciliation : Reconciliation, todo : SUBSET StatementLine,
                           matched : SUBSET (StatementLine \X Transaction)]
      BY <2>2, <3>1
    <3> QED BY <3>2 DEF RequestStates
  <2>4. ASSUME NEW t \in Transaction,
               request' = [request EXCEPT ![r] =
                 [pc |-> "auto_found", reconciliation |-> request[r].reconciliation,
                  todo |-> request[r].todo, matched |-> request[r].matched, line |-> l, tx |-> t]]
        PROVE  request'[r] \in RequestStates
    <3>1. request'[r] = [pc |-> "auto_found", reconciliation |-> request[r].reconciliation,
                  todo |-> request[r].todo, matched |-> request[r].matched, line |-> l, tx |-> t]
      BY <1>1, <2>4
    <3> QED BY <2>2, <3>1 DEF RequestStates
  <2> QED BY <1>6, <2>3, <2>4 DEF AutoFind
<1>7. ASSUME NEW l \in StatementLine, RecordRead(r, l) PROVE request'[r] \in RequestStates
  BY <1>1, <1>7 DEF RecordRead, RequestStates
<1>8. ASSUME NEW l \in StatementLine, NEW t \in Transaction, MatchRead(r, l, t)
      PROVE  request'[r] \in RequestStates
  BY <1>1, <1>8 DEF MatchRead, RequestStates
<1>9. ASSUME AutoMatch(r) PROVE request'[r] \in RequestStates
  <2>1. request[r].pc = "auto_found"
    BY <1>9 DEF AutoMatch
  <2>2. CASE Done(r)
    BY <1>2, <1>3, <2>2
  <2>3. CASE request' = [request EXCEPT ![r] =
            [pc |-> "auto", reconciliation |-> request[r].reconciliation,
             todo |-> request[r].todo \ {request[r].line},
             matched |-> request[r].matched \cup {<<request[r].line, request[r].tx>>}]]
    <3>1. request'[r] = [pc |-> "auto", reconciliation |-> request[r].reconciliation,
             todo |-> request[r].todo \ {request[r].line},
             matched |-> request[r].matched \cup {<<request[r].line, request[r].tx>>}]
      BY <1>1, <2>3
    <3> QED BY <1>0, <2>1, <3>1 DEF RequestStates, InAuto
  <2> QED BY <1>9, <2>2, <2>3 DEF AutoMatch
<1>10. ASSUME ReadBank(r) PROVE request'[r] \in RequestStates
  <2>1. request[r].pc = "book_read"
    BY <1>10 DEF ReadBank
  <2>2. request'[r] = [pc |-> "bank_read", reconciliation |-> request[r].reconciliation,
                       book |-> request[r].book, bank |-> UnmatchedBank(request[r].reconciliation)]
    BY <1>1, <1>10 DEF ReadBank
  <2> QED BY <1>0, <1>4, <2>1, <2>2 DEF RequestStates
<1>11. ASSUME ReadTransit(r) PROVE request'[r] \in RequestStates
  <2>1. request[r].pc = "bank_read"
    BY <1>11 DEF ReadTransit
  <2>2. request'[r] = AtRest \/ request'[r] = [pc |-> "completing", reconciliation |-> request[r].reconciliation]
    BY <1>1, <1>2, <1>11 DEF ReadTransit
  <2> QED BY <1>0, <1>3, <2>1, <2>2 DEF RequestStates
<1>12. ASSUME Abort(r) PROVE request'[r] \in RequestStates
  BY <1>2, <1>3, <1>12 DEF Abort
<1> QED BY <1>5, <1>6, <1>7, <1>8, <1>9, <1>10, <1>11, <1>12 DEF LocalStep
-----------------------------------------------------------------------------
\* How a step of request r may write line l.
Added(r, l) ==
  /\ request[r].pc = "adding" /\ ~IsLine(l)
  /\ line'[l] \in LineRow /\ line'[l].tx = NoTransaction
  /\ line'[l].reconciliation = request[r].reconciliation

MatchedByMachine(r, l) ==
  /\ request[r].pc = "auto" /\ IsLine(l)
  /\ \E t \in Transaction : <<l, t>> \in request[r].matched /\ line'[l] = Matched(line[l], t, "AUTO")

MatchedByHand(r, l) ==
  /\ request[r].pc \in {"matching", "recorded"} /\ l = request[r].line /\ IsLine(l)
  /\ ~Taken(r, l, request[r].tx) /\ NotHeld(r, l, request[r].tx)
  /\ line'[l] = Matched(line[l], request[r].tx, "MANUAL")

(* A matched line is the line, with another transaction.                   *)
LEMMA MatchedRow ==
  ASSUME NEW row \in LineRow, NEW t \in Transaction \cup {NoTransaction},
         NEW method \in {"NONE", "AUTO", "MANUAL"}
  PROVE  /\ Matched(row, t, method) \in LineRow
         /\ Matched(row, t, method).tx = t /\ Matched(row, t, method).method = method
         /\ Matched(row, t, method).reconciliation = row.reconciliation
         /\ Matched(row, t, method).amount = row.amount
         /\ Matched(row, t, method).date = row.date
         /\ Matched(row, t, method).status = "LINE"
BY DEF Matched, LineRow

(* What a request sees of a line it has matched.                           *)
LEMMA SeenMatch ==
  ASSUME TreasuryTypeOK, HeldIsSound, NEW r \in Request, InAuto(r),
         NEW l \in StatementLine, NEW t \in Transaction, <<l, t>> \in request[r].matched
  PROVE  MatchSeen(r, l) = t
<1>1. Held(r) = request[r].matched
  BY DEF Held, InAuto
<1>2. \A m, n \in request[r].matched : m[1] = n[1] => m = n
  BY DEF HeldIsSound
<1>3. \E m \in Held(r) : m[1] = l
  BY <1>1
<1>4. (CHOOSE m \in Held(r) : m[1] = l) = <<l, t>>
  <2> DEFINE c == CHOOSE m \in Held(r) : m[1] = l
  <2>1. c \in Held(r) /\ c[1] = l
    BY <1>3
  <2> HIDE DEF c
  <2>2. c \in request[r].matched /\ c[1] = <<l, t>>[1]
    BY <1>1, <2>1
  <2>3. c = <<l, t>>
    BY <1>2, <2>2
  <2> QED BY <2>3 DEF c
<1>5. MatchSeen(r, l) = (CHOOSE m \in Held(r) : m[1] = l)[2]
  BY <1>3 DEF MatchSeen
<1>6. MatchSeen(r, l) = <<l, t>>[2]
  BY ONLY <1>4, <1>5, Zenon
<1> QED BY <1>6

LEMMA LineStepEffect ==
  ASSUME TreasuryTypeOK, RowsExist, HeldIsSound, NEW r \in Request, LineStep(r)
  PROVE  /\ UNCHANGED <<account, collected, transaction, reconciliation>>
         /\ request'[r] = AtRest /\ \A x \in Request \ {r} : request'[x] = request[x]
         /\ request' \in [Request -> RequestStates]
         /\ line' \in [StatementLine -> LineRow \cup {Absent}]
         /\ \A l \in StatementLine :
              line'[l] = line[l] \/ Added(r, l) \/ MatchedByMachine(r, l) \/ MatchedByHand(r, l)
         /\ request[r].pc = "auto" =>
              \A l \in StatementLine, t \in Transaction :
                <<l, t>> \in request[r].matched => line'[l] = Matched(line[l], t, "AUTO")
<1>1. /\ UNCHANGED <<account, collected, transaction, reconciliation>>
      /\ Done(r)
  BY DEF LineStep, AddWrite, AutoCommit, MatchWrite, book
<1>2. /\ request'[r] = AtRest /\ \A x \in Request \ {r} : request'[x] = request[x]
      /\ request' \in [Request -> RequestStates]
  BY <1>1 DEF Done, TreasuryTypeOK, RequestStates
<1>3. ASSUME NEW new \in SUBSET StatementLine, NEW amount \in [new -> StatementAmount],
             NEW date \in [new -> Day], AddWrite(r, new, amount, date)
      PROVE  /\ request[r].pc = "adding"
             /\ line' \in [StatementLine -> LineRow \cup {Absent}]
             /\ \A l \in StatementLine : line'[l] = line[l] \/ Added(r, l)
  <2>1. request[r].pc = "adding" /\ request[r].reconciliation \in Reconciliation
    BY <1>3, RequestFields DEF AddWrite
  <2> DEFINE row(l) == [status |-> "LINE", reconciliation |-> request[r].reconciliation, date |-> date[l],
                        amount |-> amount[l], tx |-> NoTransaction, method |-> "NONE"]
  <2>2. \A l \in new : row(l) \in LineRow
    BY <2>1 DEF LineRow
  <2>3. line' = [l \in StatementLine |-> IF l \in new THEN row(l) ELSE line[l]]
        /\ \A l \in new : ~IsLine(l)
    BY <1>3, Rows DEF AddWrite
  <2>4. \A l \in new : row(l).tx = NoTransaction /\ row(l).reconciliation = request[r].reconciliation
    OBVIOUS
  <2> HIDE DEF row
  <2>5. \A l \in StatementLine : line'[l] = IF l \in new THEN row(l) ELSE line[l]
    BY <2>3
  <2>6. line' \in [StatementLine -> LineRow \cup {Absent}]
    BY <2>2, <2>3 DEF TreasuryTypeOK
  <2> QED BY <2>1, <2>2, <2>3, <2>4, <2>5, <2>6 DEF Added
<1>4. ASSUME AutoCommit(r)
      PROVE  /\ request[r].pc = "auto"
             /\ line' \in [StatementLine -> LineRow \cup {Absent}]
             /\ \A l \in StatementLine : line'[l] = line[l] \/ MatchedByMachine(r, l)
             /\ \A l \in StatementLine, t \in Transaction :
                  <<l, t>> \in request[r].matched => line'[l] = Matched(line[l], t, "AUTO")
  <2>1. request[r].pc = "auto" /\ InAuto(r)
    BY <1>4 DEF AutoCommit, InAuto
  <2>2. line' = [l \in StatementLine |->
                   IF \E t \in Transaction : <<l, t>> \in request[r].matched
                   THEN Matched(line[l], MatchSeen(r, l), "AUTO") ELSE line[l]]
    BY <1>4 DEF AutoCommit
  <2>3. \A l \in StatementLine, t \in Transaction :
          <<l, t>> \in request[r].matched => IsLine(l) /\ MatchSeen(r, l) = t
    <3>1. \A m \in request[r].matched : Fits(m[1], m[2], request[r].reconciliation)
      BY <2>1 DEF HeldIsSound
    <3>2. \A m \in request[r].matched : IsLine(m[1])
      BY <3>1 DEF Fits
    <3> QED BY <2>1, <3>2, SeenMatch
  <2>4. \A l \in StatementLine, t \in Transaction :
          <<l, t>> \in request[r].matched => line'[l] = Matched(line[l], t, "AUTO")
    BY <2>2, <2>3
  <2>5. \A l \in StatementLine : line'[l] = line[l] \/ MatchedByMachine(r, l)
    BY <2>1, <2>2, <2>3 DEF MatchedByMachine
  <2>6. \A l \in StatementLine : MatchedByMachine(r, l) => line'[l] \in LineRow
    BY Rows, MatchedRow DEF MatchedByMachine
  <2>7. line' \in [StatementLine -> LineRow \cup {Absent}]
    <3>1. \A l \in StatementLine : line'[l] \in LineRow \cup {Absent}
      BY <2>5, <2>6 DEF TreasuryTypeOK
    <3> QED BY <2>2, <3>1
  <2> QED BY <2>1, <2>4, <2>5, <2>7
<1>5. ASSUME MatchWrite(r)
      PROVE  /\ request[r].pc \in {"matching", "recorded"}
             /\ line' \in [StatementLine -> LineRow \cup {Absent}]
             /\ \A l \in StatementLine : line'[l] = line[l] \/ MatchedByHand(r, l)
  <2>1. /\ request[r].pc \in {"matching", "recorded"}
        /\ request[r].line \in StatementLine /\ request[r].tx \in Transaction
    BY <1>5, RequestFields DEF MatchWrite
  <2>2. NotHeld(r, request[r].line, request[r].tx)
    BY <1>5 DEF MatchWrite
  <2>3. IsLine(request[r].line)
    BY <2>1 DEF RowsExist
  <2>4. CASE Taken(r, request[r].line, request[r].tx)
    <3>1. line' = line
      BY <1>5, <2>4 DEF MatchWrite
    <3> QED BY <2>1, <3>1 DEF TreasuryTypeOK
  <2>5. CASE ~Taken(r, request[r].line, request[r].tx)
    <3>1. line' = [line EXCEPT ![request[r].line] = Matched(line[request[r].line], request[r].tx, "MANUAL")]
      BY <1>5, <2>5 DEF MatchWrite
    <3>2. Matched(line[request[r].line], request[r].tx, "MANUAL") \in LineRow
      BY <2>1, <2>3, Rows, MatchedRow
    <3>3. /\ line'[request[r].line] = Matched(line[request[r].line], request[r].tx, "MANUAL")
          /\ \A l \in StatementLine \ {request[r].line} : line'[l] = line[l]
          /\ line' \in [StatementLine -> LineRow \cup {Absent}]
      BY <2>1, <3>1, <3>2 DEF TreasuryTypeOK
    <3>4. ASSUME NEW l \in StatementLine, l = request[r].line PROVE MatchedByHand(r, l)
      BY <2>1, <2>2, <2>3, <2>5, <3>3, <3>4 DEF MatchedByHand
    <3> QED BY <2>1, <3>3, <3>4
  <2> QED BY <2>4, <2>5
<1> QED BY <1>1, <1>2, <1>3, <1>4, <1>5 DEF LineStep
-----------------------------------------------------------------------------
\* A movement whose arguments are what createTransaction accepts.
SomeMovement(t) ==
  \E a \in Account, type \in {"DEPOSIT", "WITHDRAWAL"}, amount \in Amount, date \in Day :
    Movement(a, t, type, amount, date)

(* The movement recordLine makes of a line is one of these.                *)
LEMMA RecordMoveEffect ==
  ASSUME TreasuryTypeOK, RowsExist, NEW r \in Request, NEW t \in Transaction, RecordMove(r, t)
  PROVE  /\ request[r].pc = "recording" /\ request[r].line \in StatementLine
         /\ SomeMovement(t) /\ UNCHANGED <<reconciliation, line>>
         /\ request'[r] = [pc |-> "recorded", line |-> request[r].line, tx |-> t]
         /\ \A x \in Request \ {r} : request'[x] = request[x]
         /\ request' \in [Request -> RequestStates]
<1> DEFINE l == request[r].line
           a == reconciliation[line[l].reconciliation].account
<1>1. request[r].pc = "recording" /\ l \in StatementLine
  BY RequestFields DEF RecordMove
<1>2. IsLine(l) /\ reconciliation[line[l].reconciliation] # Absent
  BY <1>1 DEF RowsExist
<1>3. line[l] \in LineRow
  BY <1>1, <1>2, Rows
<1>4. line[l].reconciliation \in Reconciliation /\ line[l].date \in Day /\ line[l].amount \in StatementAmount
  BY <1>3 DEF LineRow
<1>5. a \in Account
  <2>1. reconciliation[line[l].reconciliation] \in ReconciliationRow
    BY <1>2, <1>4, Rows
  <2> QED BY <2>1 DEF ReconciliationRow
<1>6. line[l].amount \in Int /\ line[l].amount <= MaxAmount /\ -MaxAmount <= line[l].amount
      /\ line[l].amount # 0
  BY <1>4 DEF StatementAmount
<1>7. SomeMovement(t)
  <2>1. CASE line[l].amount > 0
    <3>1. line[l].amount \in Amount
      BY <1>6, <2>1 DEF Amount
    <3>2. Movement(a, t, "DEPOSIT", line[l].amount, line[l].date)
      BY <2>1 DEF RecordMove
    <3> QED BY <1>4, <1>5, <3>1, <3>2 DEF SomeMovement
  <2>2. CASE ~(line[l].amount > 0)
    <3>1. -line[l].amount \in Amount
      BY <1>6, <2>2 DEF Amount
    <3>2. Movement(a, t, "WITHDRAWAL", -line[l].amount, line[l].date)
      BY <2>2 DEF RecordMove
    <3> QED BY <1>4, <1>5, <3>1, <3>2 DEF SomeMovement
  <2> QED BY <2>1, <2>2
<1>8. /\ request' = [request EXCEPT ![r] = [pc |-> "recorded", line |-> l, tx |-> t]]
      /\ UNCHANGED <<reconciliation, line>>
  BY DEF RecordMove
<1>9. [pc |-> "recorded", line |-> l, tx |-> t] \in RequestStates
  BY <1>1 DEF RequestStates
<1> QED BY <1>1, <1>7, <1>8, <1>9 DEF TreasuryTypeOK

(* The stated and the row of a movement, once more, of an account.        *)
LEMMA SomeMovementEffect ==
  ASSUME TreasuryTypeOK, NEW t \in Transaction, SomeMovement(t)
  PROVE  /\ ~IsTransaction(t) /\ UNCHANGED collected
         /\ transaction'[t] \in TransactionRow
         /\ \A u \in Transaction \ {t} : transaction'[u] = transaction[u]
         /\ transaction' \in [Transaction -> TransactionRow \cup {Absent}]
         /\ account' \in [Account -> AccountRow \cup {Absent}]
         /\ \E a \in Account :
              /\ Live(a) /\ transaction'[t].account = a /\ Effect(t)' \in Int
              /\ account[a].balance + Effect(t)' >= 0
              /\ account'[a].status = "LIVE" /\ account'[a].opening = account[a].opening
              /\ account'[a].balance = account[a].balance + Effect(t)'
              /\ \A b \in Account \ {a} : account'[b] = account[b]
<1>1. PICK a \in Account, type \in {"DEPOSIT", "WITHDRAWAL"}, amount \in Amount, date \in Day :
        Movement(a, t, type, amount, date)
  BY DEF SomeMovement
<1> DEFINE delta == IF type = "DEPOSIT" THEN amount ELSE -amount
<1>2. /\ Live(a) /\ ~IsTransaction(t) /\ delta \in Int /\ collected' = collected
      /\ account[a].balance + delta >= 0
      /\ \A b \in Account \ {a} : account'[b] = account[b]
      /\ account'[a].status = "LIVE" /\ account'[a].opening = account[a].opening
      /\ account'[a].balance = account[a].balance + delta
      /\ account' \in [Account -> AccountRow \cup {Absent}]
      /\ transaction'[t] \in TransactionRow /\ transaction'[t].account = a
      /\ Effect(t)' = delta
      /\ \A u \in Transaction \ {t} : transaction'[u] = transaction[u]
      /\ transaction' \in [Transaction -> TransactionRow \cup {Absent}]
  BY <1>1, MovementEffect
<1> HIDE DEF delta
<1> QED BY <1>2
-----------------------------------------------------------------------------
\* Nothing that is there goes away, and what it says of others stays.
RowsStay ==
  /\ \A a \in Account : Live(a) =>
       account'[a].status = "LIVE" /\ account'[a].opening = account[a].opening
  /\ \A t \in Transaction : IsTransaction(t) => transaction'[t] = transaction[t]
  /\ \A k \in Reconciliation : reconciliation[k] # Absent =>
       /\ reconciliation'[k] # Absent
       /\ reconciliation'[k].account = reconciliation[k].account
  /\ \A l \in StatementLine : IsLine(l) =>
       /\ line'[l].status = "LINE"
       /\ line'[l].reconciliation = line[l].reconciliation
       /\ line'[l].amount = line[l].amount

(* Unmatching a line leaves it a line, and is refused while autoMatch holds it. *)
LEMMA UnmatchEffect ==
  ASSUME TreasuryTypeOK, NEW l \in StatementLine, Unmatch(l)
  PROVE  /\ IsLine(l) /\ line'[l] = Matched(line[l], NoTransaction, "NONE")
         /\ \A b \in StatementLine \ {l} : line'[b] = line[b]
         /\ line' \in [StatementLine -> LineRow \cup {Absent}]
         /\ \A x \in Request : \A m \in Held(x) : m[1] # l
         /\ UNCHANGED <<account, collected, transaction, reconciliation, request>>
<1>1. IsLine(l) /\ line[l] \in LineRow
  BY Rows DEF Unmatch
<1>2. Matched(line[l], NoTransaction, "NONE") \in LineRow
  BY <1>1, MatchedRow
<1>3. line' = [line EXCEPT ![l] = Matched(line[l], NoTransaction, "NONE")]
  BY DEF Unmatch
<1>4. /\ line'[l] = Matched(line[l], NoTransaction, "NONE")
      /\ \A b \in StatementLine \ {l} : line'[b] = line[b]
      /\ line' \in [StatementLine -> LineRow \cup {Absent}]
  BY <1>2, <1>3 DEF TreasuryTypeOK
<1> QED BY <1>1, <1>4 DEF Unmatch, book

LEMMA CreateEffect ==
  ASSUME TreasuryTypeOK, NEW k \in Reconciliation, NEW a \in Account, NEW date \in Day,
         NEW stated \in Balance,
         Create(k, a, date, stated)
  PROVE  /\ UNCHANGED <<account, collected, transaction, line, request>>
         /\ reconciliation[k] = Absent /\ reconciliation'[k] # Absent
         /\ \A j \in Reconciliation \ {k} : reconciliation'[j] = reconciliation[j]
         /\ reconciliation' \in [Reconciliation -> ReconciliationRow \cup {Absent}]
<1> DEFINE row == [status |-> "OPEN", account |-> a, date |-> date, balance |-> stated]
<1>1. row \in ReconciliationRow /\ row # Absent
  <2>1. stated \in Int
    OBVIOUS
  <2>2. row \in ReconciliationRow
    BY <2>1 DEF ReconciliationRow
  <2>3. row.status # Absent.status
    BY DEF Absent
  <2> QED BY <2>2, <2>3
<1>2. /\ reconciliation' = [reconciliation EXCEPT ![k] = row] /\ reconciliation[k] = Absent
      /\ UNCHANGED <<account, collected, transaction, line, request>>
  BY DEF Create, book
<1> HIDE DEF row
<1> QED BY <1>1, <1>2 DEF TreasuryTypeOK

LEMMA CompleteEffect ==
  ASSUME TreasuryTypeOK, RowsExist, NEW r \in Request, Complete(r)
  PROVE  /\ UNCHANGED <<account, collected, transaction, line>>
         /\ \A k \in Reconciliation : reconciliation[k] # Absent =>
              /\ reconciliation'[k] # Absent
              /\ reconciliation'[k].account = reconciliation[k].account
         /\ reconciliation' \in [Reconciliation -> ReconciliationRow \cup {Absent}]
         /\ request'[r] = AtRest /\ \A x \in Request \ {r} : request'[x] = request[x]
         /\ request' \in [Request -> RequestStates]
<1> DEFINE k == request[r].reconciliation
<1>1. k \in Reconciliation /\ reconciliation[k] # Absent
  BY RequestFields DEF Complete, RowsExist
<1>2. reconciliation[k] \in ReconciliationRow
  BY <1>1, Rows
<1>3. /\ reconciliation' = [reconciliation EXCEPT ![k].status = "COMPLETED"]
      /\ Done(r) /\ UNCHANGED <<account, collected, transaction, line>>
  BY DEF Complete, book
<1> HIDE DEF k
<1> DEFINE row == [reconciliation[k] EXCEPT !.status = "COMPLETED"]
<1>4. row \in ReconciliationRow /\ row.account = reconciliation[k].account /\ row # Absent
  BY <1>2 DEF ReconciliationRow, Absent
<1>5. /\ reconciliation'[k] = row /\ \A j \in Reconciliation \ {k} : reconciliation'[j] = reconciliation[j]
      /\ reconciliation' = [reconciliation EXCEPT ![k] = row]
  BY <1>1, <1>3 DEF TreasuryTypeOK
<1> HIDE DEF row
<1>6. reconciliation' \in [Reconciliation -> ReconciliationRow \cup {Absent}]
  BY <1>4, <1>5 DEF TreasuryTypeOK
<1>7. /\ request'[r] = AtRest /\ \A x \in Request \ {r} : request'[x] = request[x]
      /\ request' \in [Request -> RequestStates]
  BY <1>3 DEF Done, TreasuryTypeOK, RequestStates
<1> QED BY <1>3, <1>4, <1>5, <1>6, <1>7

(* Creating an account, and a receipt.                                     *)
LEMMA AccountStepEffect ==
  ASSUME TreasuryTypeOK, AccountStep
  PROVE  /\ UNCHANGED <<transaction, reconciliation, line, request>>
         /\ account' \in [Account -> AccountRow \cup {Absent}]
         /\ collected' \in [Account -> Nat]
         /\ \E a \in Account :
              /\ \A b \in Account \ {a} : account'[b] = account[b] /\ collected'[b] = collected[b]
              /\ account'[a].status = "LIVE"
              /\ \/ /\ ~Live(a) /\ account'[a].balance = account'[a].opening
                    /\ account'[a].opening \in Nat /\ collected'[a] = collected[a]
                 \/ /\ Live(a) /\ account'[a].opening = account[a].opening
                    /\ \E amount \in Nat : /\ account'[a].balance = account[a].balance + amount
                                           /\ collected'[a] = collected[a] + amount
<1>1. ASSUME NEW a \in Account, NEW opening \in Balance, CreateAccount(a, opening)
      PROVE  /\ UNCHANGED <<collected, transaction, reconciliation, line, request>>
             /\ account' \in [Account -> AccountRow \cup {Absent}]
             /\ \A b \in Account \ {a} : account'[b] = account[b]
             /\ account'[a].status = "LIVE" /\ ~Live(a)
             /\ account'[a].balance = account'[a].opening /\ account'[a].opening \in Nat
  <2> DEFINE row == [status |-> "LIVE", opening |-> opening, balance |-> opening]
  <2>1. row \in AccountRow /\ row.status = "LIVE" /\ row.balance = row.opening /\ row.opening \in Nat
    BY DEF AccountRow
  <2>2. /\ account' = [account EXCEPT ![a] = row] /\ ~Live(a)
        /\ UNCHANGED <<collected, transaction, reconciliation, line, request>>
    BY <1>1, Rows DEF CreateAccount
  <2> HIDE DEF row
  <2> QED BY <2>1, <2>2 DEF TreasuryTypeOK
<1>2. ASSUME NEW a \in Account, NEW amount \in Amount, Collect(a, amount)
      PROVE  /\ UNCHANGED <<transaction, reconciliation, line, request>>
             /\ account' \in [Account -> AccountRow \cup {Absent}]
             /\ collected' \in [Account -> Nat]
             /\ \A b \in Account \ {a} : account'[b] = account[b] /\ collected'[b] = collected[b]
             /\ account'[a].status = "LIVE" /\ Live(a) /\ account'[a].opening = account[a].opening
             /\ amount \in Nat /\ account'[a].balance = account[a].balance + amount
             /\ collected'[a] = collected[a] + amount
  <2>1. /\ Live(a) /\ account[a] \in AccountRow /\ amount \in Nat
        /\ account' = [account EXCEPT ![a].balance = @ + amount]
        /\ collected' = [collected EXCEPT ![a] = @ + amount]
        /\ UNCHANGED <<transaction, reconciliation, line, request>>
    BY <1>2, Rows DEF Collect, Amount
  <2> DEFINE row == [account[a] EXCEPT !.balance = @ + amount]
  <2>2. row \in AccountRow /\ row.status = "LIVE" /\ row.opening = account[a].opening
        /\ row.balance = account[a].balance + amount
    BY <2>1 DEF AccountRow
  <2>3. account' = [account EXCEPT ![a] = row]
    BY <2>1 DEF TreasuryTypeOK
  <2> HIDE DEF row
  <2>4. /\ account'[a] = row /\ \A b \in Account \ {a} : account'[b] = account[b]
        /\ account' \in [Account -> AccountRow \cup {Absent}]
    BY <2>2, <2>3 DEF TreasuryTypeOK
  <2>5. collected' \in [Account -> Nat] /\ collected'[a] = collected[a] + amount
        /\ \A b \in Account \ {a} : collected'[b] = collected[b]
    BY <2>1 DEF TreasuryTypeOK
  <2> QED BY <2>1, <2>2, <2>4, <2>5
<1>3. collected \in [Account -> Nat]
  BY DEF TreasuryTypeOK
<1>4. ASSUME NEW a \in Account, NEW opening \in Balance, CreateAccount(a, opening)
      PROVE  collected' \in [Account -> Nat] /\ collected' = collected
  BY <1>1, <1>3, <1>4
<1> QED BY <1>1, <1>2, <1>4 DEF AccountStep
-----------------------------------------------------------------------------
LEMMA NextRowsStay ==
  ASSUME TreasuryTypeOK, RowsExist, HeldIsSound, [TreasuryNext]_treasuryVars
  PROVE  RowsStay
<1>1. CASE UNCHANGED treasuryVars
  BY <1>1 DEF treasuryVars, RowsStay, Live, IsLine
<1>2. CASE AccountStep
  BY <1>2, AccountStepEffect DEF RowsStay, Live, IsLine
<1>3. ASSUME NEW t \in Transaction, SomeMovement(t), UNCHANGED <<reconciliation, line>>
      PROVE  RowsStay
  BY <1>3, SomeMovementEffect DEF RowsStay, Live, IsLine
<1>4. ASSUME NEW a \in Account, NEW b \in Account, NEW out \in Transaction, NEW in \in Transaction,
             NEW amount \in Amount, NEW date \in Day, Transfer(a, b, out, in, amount, date)
      PROVE  RowsStay
  BY <1>4, TransferEffect DEF RowsStay, Live, IsLine
<1>5. ASSUME NEW k \in Reconciliation, NEW a \in Account, NEW date \in Day, NEW stated \in Balance,
             Create(k, a, date, stated)
      PROVE  RowsStay
  BY <1>5, CreateEffect DEF RowsStay, Live, IsLine
<1>6. ASSUME NEW l \in StatementLine, Unmatch(l) PROVE RowsStay
  <2>1. line[l] \in LineRow
    BY <1>6, UnmatchEffect, Rows
  <2>2. /\ Matched(line[l], NoTransaction, "NONE").reconciliation = line[l].reconciliation
        /\ Matched(line[l], NoTransaction, "NONE").amount = line[l].amount
        /\ Matched(line[l], NoTransaction, "NONE").status = "LINE"
    BY <2>1, MatchedRow
  <2> QED BY <1>6, <2>2, UnmatchEffect DEF RowsStay, Live, IsLine
<1>7. ASSUME NEW r \in Request, LocalStep(r) PROVE RowsStay
  BY <1>7, LocalStepIsLocal DEF RowsStay, Live, IsLine
<1>8. ASSUME NEW r \in Request, LineStep(r) PROVE RowsStay
  <2>1. /\ UNCHANGED <<account, collected, transaction, reconciliation>>
        /\ \A l \in StatementLine :
             line'[l] = line[l] \/ Added(r, l) \/ MatchedByMachine(r, l) \/ MatchedByHand(r, l)
    BY <1>8, LineStepEffect
  <2>2. ASSUME NEW l \in StatementLine, IsLine(l)
        PROVE  /\ line'[l].status = "LINE"
               /\ line'[l].reconciliation = line[l].reconciliation
               /\ line'[l].amount = line[l].amount
    <3>1. line[l] \in LineRow
      BY <2>2, Rows
    <3>2. CASE line'[l] = line[l]
      BY <2>2, <3>2 DEF IsLine
    <3>3. CASE MatchedByMachine(r, l)
      <4>1. PICK t \in Transaction : line'[l] = Matched(line[l], t, "AUTO")
        BY <3>3 DEF MatchedByMachine
      <4>2. /\ Matched(line[l], t, "AUTO").reconciliation = line[l].reconciliation
            /\ Matched(line[l], t, "AUTO").amount = line[l].amount
            /\ Matched(line[l], t, "AUTO").status = "LINE"
        BY ONLY <3>1, MatchedRow
      <4> QED BY <4>1, <4>2
    <3>4. CASE MatchedByHand(r, l)
      <4>1. request[r].tx \in Transaction
        BY <3>4, RequestFields DEF MatchedByHand
      <4>2. line'[l] = Matched(line[l], request[r].tx, "MANUAL")
        BY <3>4 DEF MatchedByHand
      <4>3. /\ Matched(line[l], request[r].tx, "MANUAL").reconciliation = line[l].reconciliation
            /\ Matched(line[l], request[r].tx, "MANUAL").amount = line[l].amount
            /\ Matched(line[l], request[r].tx, "MANUAL").status = "LINE"
        BY ONLY <3>1, <4>1, MatchedRow
      <4> QED BY <4>2, <4>3
    <3>5. ~Added(r, l)
      BY <2>2 DEF Added
    <3> QED BY <2>1, <3>2, <3>3, <3>4, <3>5
  <2> QED BY <2>1, <2>2 DEF RowsStay, Live
<1>9. ASSUME NEW r \in Request, Complete(r) PROVE RowsStay
  BY <1>9, CompleteEffect DEF RowsStay, Live, IsLine
<1>10. ASSUME NEW r \in Request, NEW t \in Transaction, RecordMove(r, t) PROVE RowsStay
  BY <1>3, <1>10, RecordMoveEffect
<1>11. ASSUME NEW a \in Account, NEW t \in Transaction, NEW type \in {"DEPOSIT", "WITHDRAWAL"},
              NEW amount \in Amount, NEW date \in Day, Move(a, t, type, amount, date)
       PROVE  RowsStay
  BY <1>3, <1>11 DEF Move, SomeMovement
<1> QED BY <1>1, <1>2, <1>4, <1>5, <1>6, <1>7, <1>8, <1>9, <1>10, <1>11, Steps

LEMMA NextTypes ==
  ASSUME TreasuryTypeOK, RowsExist, HeldIsSound, [TreasuryNext]_treasuryVars
  PROVE  TreasuryTypeOK'
<1>1. CASE UNCHANGED treasuryVars
  BY <1>1 DEF treasuryVars, TreasuryTypeOK
<1>2. CASE AccountStep
  BY <1>2, AccountStepEffect DEF TreasuryTypeOK
<1>3. ASSUME NEW t \in Transaction, SomeMovement(t), UNCHANGED <<reconciliation, line>>,
             request' \in [Request -> RequestStates]
      PROVE  TreasuryTypeOK'
  BY <1>3, SomeMovementEffect DEF TreasuryTypeOK
<1>4. ASSUME NEW a \in Account, NEW b \in Account, NEW out \in Transaction, NEW in \in Transaction,
             NEW amount \in Amount, NEW date \in Day, Transfer(a, b, out, in, amount, date)
      PROVE  TreasuryTypeOK'
  BY <1>4, TransferEffect DEF TreasuryTypeOK
<1>5. ASSUME NEW k \in Reconciliation, NEW a \in Account, NEW date \in Day, NEW stated \in Balance,
             Create(k, a, date, stated)
      PROVE  TreasuryTypeOK'
  BY <1>5, CreateEffect DEF TreasuryTypeOK
<1>6. ASSUME NEW l \in StatementLine, Unmatch(l) PROVE TreasuryTypeOK'
  BY <1>6, UnmatchEffect DEF TreasuryTypeOK
<1>7. ASSUME NEW r \in Request, LocalStep(r) PROVE TreasuryTypeOK'
  <2>1. request'[r] \in RequestStates
    BY <1>7, LocalStepTyped
  <2>2. UNCHANGED <<account, collected, transaction, reconciliation, line>>
        /\ \A x \in Request \ {r} : request'[x] = request[x]
    BY <1>7, LocalStepIsLocal
  <2>3. \E q : request' = [request EXCEPT ![r] = q]
    BY <1>7 DEF LocalStep, AddRead, AutoRead, ReadBook, RecordRead, MatchRead, AutoMatch,
           ReadBank, ReadTransit, Abort, Done, AutoFind
  <2>4. request' \in [Request -> RequestStates]
    BY <2>1, <2>3 DEF TreasuryTypeOK
  <2> QED BY <2>2, <2>4 DEF TreasuryTypeOK
<1>8. ASSUME NEW r \in Request, LineStep(r) PROVE TreasuryTypeOK'
  BY <1>8, LineStepEffect DEF TreasuryTypeOK
<1>9. ASSUME NEW r \in Request, Complete(r) PROVE TreasuryTypeOK'
  BY <1>9, CompleteEffect DEF TreasuryTypeOK
<1>10. ASSUME NEW r \in Request, NEW t \in Transaction, RecordMove(r, t) PROVE TreasuryTypeOK'
  BY <1>3, <1>10, RecordMoveEffect
<1>11. ASSUME NEW a \in Account, NEW t \in Transaction, NEW type \in {"DEPOSIT", "WITHDRAWAL"},
              NEW amount \in Amount, NEW date \in Day, Move(a, t, type, amount, date)
       PROVE  TreasuryTypeOK'
  <2>1. SomeMovement(t) /\ UNCHANGED <<reconciliation, line, request>>
    BY <1>11 DEF Move, SomeMovement
  <2> QED BY <1>3, <2>1 DEF TreasuryTypeOK
<1> QED BY <1>1, <1>2, <1>4, <1>5, <1>6, <1>7, <1>8, <1>9, <1>10, <1>11, Steps
-----------------------------------------------------------------------------
\* NothingBefore and BalanceExplained, of one account.
AccountExplained(a) ==
  /\ ~Live(a) => collected[a] = 0 /\ OfAccount(a) = {}
  /\ Live(a) => /\ account[a].balance >= 0
                /\ account[a].balance = account[a].opening + collected[a] + Effects(a)

AllExplained == \A a \in Account : AccountExplained(a)

(* A step that leaves an account and its transactions alone.               *)
LEMMA StaysExplained ==
  ASSUME TreasuryTypeOK, NEW a \in Account, AccountExplained(a),
         account'[a] = account[a], collected'[a] = collected[a],
         \A u \in Transaction : \/ transaction'[u] = transaction[u]
                                \/ ~IsTransaction(u) /\ transaction'[u].account # a
  PROVE  AccountExplained(a)'
<1>1. Effects(a)' = Effects(a) /\ OfAccount(a)' = OfAccount(a)
  BY NoneMore
<1>2. Live(a)' <=> Live(a)
  BY DEF Live
<1>3. AccountExplained(a)' <=>
        /\ ~Live(a)' => collected'[a] = 0 /\ OfAccount(a)' = {}
        /\ Live(a)' => /\ account'[a].balance >= 0
                       /\ account'[a].balance = account'[a].opening + collected'[a] + Effects(a)'
  BY DEF AccountExplained
<1> QED BY <1>1, <1>2, <1>3 DEF AccountExplained

(* A step that adds one transaction and its effect to the stated.         *)
LEMMA OneMoreExplained ==
  ASSUME TreasuryTypeOK, NEW a \in Account, AccountExplained(a), Live(a), NEW t \in Transaction,
         ~IsTransaction(t),
         transaction'[t] \in TransactionRow, transaction'[t].account = a, Effect(t)' \in Int,
         \A u \in Transaction \ {t} : \/ transaction'[u] = transaction[u]
                                      \/ ~IsTransaction(u) /\ transaction'[u].account # a,
         account[a].balance + Effect(t)' >= 0,
         account'[a].status = "LIVE", account'[a].opening = account[a].opening,
         account'[a].balance = account[a].balance + Effect(t)', collected' = collected
  PROVE  AccountExplained(a)'
<1>1. Effects(a)' = Effects(a) + Effect(t)'
  BY OneMore
<1>2. account[a] \in AccountRow /\ collected[a] \in Nat
  BY Rows DEF TreasuryTypeOK
<1>3. account[a].balance \in Nat /\ account[a].opening \in Nat
  BY <1>2 DEF AccountRow
<1>4. Effects(a) \in Int
  <2>1. \A u \in OfAccount(a) : Effect(u) \in Int
    BY Amounts DEF OfAccount
  <2> QED BY <2>1, FiniteSets, SumInt DEF Effects
<1>5. account[a].balance = account[a].opening + collected[a] + Effects(a)
  BY DEF AccountExplained
<1>6. Live(a)'
  BY DEF Live
<1>7. AccountExplained(a)' <=>
        /\ ~Live(a)' => collected'[a] = 0 /\ OfAccount(a)' = {}
        /\ Live(a)' => /\ account'[a].balance >= 0
                       /\ account'[a].balance = account'[a].opening + collected'[a] + Effects(a)'
  BY DEF AccountExplained
<1>8. account'[a].balance = account'[a].opening + collected'[a] + Effects(a)'
  BY <1>1, <1>2, <1>3, <1>4, <1>5
<1>9. account'[a].balance >= 0
  OBVIOUS
<1> QED BY <1>6, <1>7, <1>8, <1>9

LEMMA NextAllExplained ==
  ASSUME TreasuryTypeOK, RowsExist, HeldIsSound, AllExplained, [TreasuryNext]_treasuryVars
  PROVE  AllExplained'
<1>1. ASSUME UNCHANGED <<account, collected, transaction>> PROVE AllExplained'
  <2> SUFFICES ASSUME NEW a \in Account PROVE AccountExplained(a)'
    BY DEF AllExplained
  <2>1. AccountExplained(a)
    BY DEF AllExplained
  <2>2. account'[a] = account[a] /\ collected'[a] = collected[a]
        /\ \A u \in Transaction : transaction'[u] = transaction[u]
    BY <1>1
  <2> QED BY <2>1, <2>2, StaysExplained
<1>2. ASSUME AccountStep PROVE AllExplained'
  <2> SUFFICES ASSUME NEW b \in Account PROVE AccountExplained(b)'
    BY DEF AllExplained
  <2>0. AccountExplained(b) /\ \A u \in Transaction : transaction'[u] = transaction[u]
    BY <1>2, AccountStepEffect DEF AllExplained
  <2>1. PICK a \in Account :
              /\ \A c \in Account \ {a} : account'[c] = account[c] /\ collected'[c] = collected[c]
              /\ account'[a].status = "LIVE"
              /\ \/ /\ ~Live(a) /\ account'[a].balance = account'[a].opening
                    /\ account'[a].opening \in Nat /\ collected'[a] = collected[a]
                 \/ /\ Live(a) /\ account'[a].opening = account[a].opening
                    /\ \E amount \in Nat : /\ account'[a].balance = account[a].balance + amount
                                           /\ collected'[a] = collected[a] + amount
    BY <1>2, AccountStepEffect
  <2>2. CASE b # a
    BY <2>0, <2>1, <2>2, StaysExplained
  <2>3. CASE b = a
    <3>1. Effects(b)' = Effects(b) /\ OfAccount(b)' = OfAccount(b)
      BY <2>0, NoneMore
    <3>2. Live(b)'
      BY <2>1, <2>3 DEF Live
    <3>3. AccountExplained(b)' <=>
            /\ ~Live(b)' => collected'[b] = 0 /\ OfAccount(b)' = {}
            /\ Live(b)' => /\ account'[b].balance >= 0
                           /\ account'[b].balance = account'[b].opening + collected'[b] + Effects(b)'
      BY DEF AccountExplained
    <3>4. CASE ~Live(b)
      <4>1. collected[b] = 0 /\ OfAccount(b) = {}
        BY <2>0, <3>4 DEF AccountExplained
      <4>2. Effects(b) = 0
        BY <4>1, SumZero, FS_EmptySet DEF Effects
      <4>3. /\ account'[b].balance = account'[b].opening
            /\ account'[b].opening \in Nat /\ collected'[b] = collected[b]
        BY <2>1, <2>3, <3>4
      <4> QED BY <3>1, <3>2, <3>3, <4>1, <4>2, <4>3
    <3>5. CASE Live(b)
      <4>1. account[b].balance = account[b].opening + collected[b] + Effects(b)
        BY <2>0, <3>5 DEF AccountExplained
      <4>2. account[b] \in AccountRow /\ collected[b] \in Nat
        BY <3>5, Rows DEF TreasuryTypeOK
      <4>3. account[b].balance \in Nat /\ account[b].opening \in Nat
        BY <4>2 DEF AccountRow
      <4>4. Effects(b) \in Int
        <5>1. \A u \in OfAccount(b) : Effect(u) \in Int
          BY Amounts DEF OfAccount
        <5> QED BY <5>1, FiniteSets, SumInt DEF Effects
      <4>5. PICK amount \in Nat : /\ account'[b].balance = account[b].balance + amount
                                  /\ collected'[b] = collected[b] + amount
        BY <2>1, <2>3, <3>5
      <4>6. account'[b].opening = account[b].opening
        BY <2>1, <2>3, <3>5
      <4>7. /\ account'[b].balance >= 0
            /\ account'[b].balance = account'[b].opening + collected'[b] + Effects(b)'
        BY <3>1, <4>1, <4>2, <4>3, <4>4, <4>5, <4>6
      <4> QED BY <3>2, <3>3, <4>7
    <3> QED BY <3>4, <3>5
  <2> QED BY <2>2, <2>3
<1>3. ASSUME NEW t \in Transaction, SomeMovement(t) PROVE AllExplained'
  <2> SUFFICES ASSUME NEW b \in Account PROVE AccountExplained(b)'
    BY DEF AllExplained
  <2>0. AccountExplained(b)
    BY DEF AllExplained
  <2>1. /\ ~IsTransaction(t) /\ collected' = collected
        /\ transaction'[t] \in TransactionRow
        /\ \A u \in Transaction \ {t} : transaction'[u] = transaction[u]
    BY <1>3, SomeMovementEffect
  <2>2. PICK a \in Account :
              /\ Live(a) /\ transaction'[t].account = a /\ Effect(t)' \in Int
              /\ account[a].balance + Effect(t)' >= 0
              /\ account'[a].status = "LIVE" /\ account'[a].opening = account[a].opening
              /\ account'[a].balance = account[a].balance + Effect(t)'
              /\ \A c \in Account \ {a} : account'[c] = account[c]
    BY <1>3, SomeMovementEffect
  <2>3. CASE b # a
    <3>1. \A u \in Transaction : \/ transaction'[u] = transaction[u]
                                 \/ ~IsTransaction(u) /\ transaction'[u].account # b
      BY <2>1, <2>2, <2>3
    <3>2. account'[b] = account[b] /\ collected'[b] = collected[b]
      BY <2>1, <2>2, <2>3
    <3> QED BY <2>0, <3>1, <3>2, StaysExplained
  <2>4. CASE b = a
    BY <2>0, <2>1, <2>2, <2>4, OneMoreExplained
  <2> QED BY <2>3, <2>4
<1>4. ASSUME NEW a \in Account, NEW b \in Account, NEW out \in Transaction, NEW in \in Transaction,
             NEW amount \in Amount, NEW date \in Day, Transfer(a, b, out, in, amount, date)
      PROVE  AllExplained'
  <2> SUFFICES ASSUME NEW c \in Account PROVE AccountExplained(c)'
    BY DEF AllExplained
  <2>0. AccountExplained(c)
    BY DEF AllExplained
  <2>1. /\ a # b /\ out # in /\ Live(a) /\ Live(b) /\ ~IsTransaction(out) /\ ~IsTransaction(in)
        /\ amount \in Nat /\ account[a].balance >= amount /\ collected' = collected
        /\ \A d \in Account \ {a, b} : account'[d] = account[d]
        /\ \A d \in {a, b} : account'[d].status = "LIVE" /\ account'[d].opening = account[d].opening
        /\ account'[a].balance = account[a].balance - amount
        /\ account'[b].balance = account[b].balance + amount
        /\ transaction'[out] \in TransactionRow /\ transaction'[out].account = a
        /\ transaction'[in] \in TransactionRow /\ transaction'[in].account = b
        /\ Effect(out)' = -amount /\ Effect(in)' = amount
        /\ \A u \in Transaction \ {out, in} : transaction'[u] = transaction[u]
    BY <1>4, TransferEffect
  <2>2. account[a].balance \in Nat /\ account[b].balance \in Nat
    BY <2>1, Rows DEF AccountRow
  <2>3. CASE c \notin {a, b}
    <3>1. \A u \in Transaction : \/ transaction'[u] = transaction[u]
                                 \/ ~IsTransaction(u) /\ transaction'[u].account # c
      BY <2>1, <2>3
    <3>2. account'[c] = account[c] /\ collected'[c] = collected[c]
      BY <2>1, <2>3
    <3> QED BY <2>0, <3>1, <3>2, StaysExplained
  <2>4. CASE c = a
    <3>1. \A u \in Transaction \ {out} : \/ transaction'[u] = transaction[u]
                                         \/ ~IsTransaction(u) /\ transaction'[u].account # c
      BY <2>1, <2>4
    <3>2. /\ Effect(out)' \in Int /\ account[c].balance + Effect(out)' >= 0
          /\ account'[c].balance = account[c].balance + Effect(out)'
      BY <2>1, <2>2, <2>4
    <3> QED BY <2>0, <2>1, <2>4, <3>1, <3>2, OneMoreExplained
  <2>5. CASE c = b
    <3>1. \A u \in Transaction \ {in} : \/ transaction'[u] = transaction[u]
                                        \/ ~IsTransaction(u) /\ transaction'[u].account # c
      BY <2>1, <2>5
    <3>2. /\ Effect(in)' \in Int /\ account[c].balance + Effect(in)' >= 0
          /\ account'[c].balance = account[c].balance + Effect(in)'
      BY <2>1, <2>2, <2>5
    <3> QED BY <2>0, <2>1, <2>5, <3>1, <3>2, OneMoreExplained
  <2> QED BY <2>3, <2>4, <2>5
<1>5. ASSUME UNCHANGED treasuryVars PROVE AllExplained'
  BY <1>1, <1>5 DEF treasuryVars
<1>6. ASSUME NEW k \in Reconciliation, NEW a \in Account, NEW date \in Day, NEW stated \in Balance,
             Create(k, a, date, stated)
      PROVE  AllExplained'
  BY <1>1, <1>6, CreateEffect
<1>7. ASSUME NEW l \in StatementLine, Unmatch(l) PROVE AllExplained'
  BY <1>1, <1>7, UnmatchEffect
<1>8. ASSUME NEW r \in Request, LocalStep(r) PROVE AllExplained'
  BY <1>1, <1>8, LocalStepIsLocal
<1>9. ASSUME NEW r \in Request, LineStep(r) PROVE AllExplained'
  BY <1>1, <1>9, LineStepEffect
<1>10. ASSUME NEW r \in Request, Complete(r) PROVE AllExplained'
  BY <1>1, <1>10, CompleteEffect
<1>11. ASSUME NEW r \in Request, NEW t \in Transaction, RecordMove(r, t) PROVE AllExplained'
  BY <1>3, <1>11, RecordMoveEffect
<1>12. ASSUME NEW a \in Account, NEW t \in Transaction, NEW type \in {"DEPOSIT", "WITHDRAWAL"},
              NEW amount \in Amount, NEW date \in Day, Move(a, t, type, amount, date)
       PROVE  AllExplained'
  BY <1>3, <1>12 DEF Move, SomeMovement
<1> QED BY <1>2, <1>4, <1>5, <1>6, <1>7, <1>8, <1>9, <1>10, <1>11, <1>12, Steps
-----------------------------------------------------------------------------
\* What a local step may leave in the locals of a request that runs autoMatch ...
AutoStarted(r) ==
  \E k \in Reconciliation :
    /\ Open(k)
    /\ request'[r] = [pc |-> "auto", reconciliation |-> k, todo |-> Unmatched(k), matched |-> {}]

AutoSkipped(r) ==
  LET q == request[r] IN
  /\ q.pc = "auto"
  /\ \E l \in StatementLine :
       request'[r] = [pc |-> "auto", reconciliation |-> q.reconciliation, todo |-> q.todo \ {l},
                      matched |-> q.matched]

AutoFoundOne(r) ==
  LET q == request[r] IN
  /\ q.pc = "auto"
  /\ \E l \in q.todo : \E t \in Candidates(r, q.reconciliation, l) :
       request'[r] = [pc |-> "auto_found", reconciliation |-> q.reconciliation, todo |-> q.todo,
                      matched |-> q.matched, line |-> l, tx |-> t]

AutoMatchedOne(r) ==
  LET q == request[r] IN
  /\ q.pc = "auto_found" /\ NotHeld(r, q.line, q.tx) /\ ~Taken(r, q.line, q.tx)
  /\ request'[r] = [pc |-> "auto", reconciliation |-> q.reconciliation, todo |-> q.todo \ {q.line},
                    matched |-> q.matched \cup {<<q.line, q.tx>>}]

\* ... and in those of a request that does not: rows that are there.
OtherStep(r) ==
  \/ request'[r].pc = "idle"
  \/ /\ request'[r].pc \in {"adding", "book_read", "bank_read", "completing"}
     /\ reconciliation[request'[r].reconciliation] # Absent
  \/ request'[r].pc = "matching" /\ IsLine(request'[r].line) /\ IsTransaction(request'[r].tx)
  \/ request'[r].pc = "recording" /\ IsLine(request'[r].line)

LEMMA LocalStepCases ==
  ASSUME TreasuryTypeOK, RowsExist, NEW r \in Request, LocalStep(r)
  PROVE  AutoStarted(r) \/ AutoSkipped(r) \/ AutoFoundOne(r) \/ AutoMatchedOne(r) \/ OtherStep(r)
<1>1. \A q : request' = [request EXCEPT ![r] = q] => request'[r] = q
  BY DEF TreasuryTypeOK
<1>2. ASSUME Done(r) PROVE OtherStep(r)
  <2>1. request'[r] = AtRest
    BY <1>1, <1>2 DEF Done
  <2>2. request'[r].pc = "idle"
    BY <2>1 DEF AtRest
  <2> QED BY <2>2 DEF OtherStep
<1>3. request[r].pc \in {"adding", "auto", "auto_found", "book_read", "bank_read", "completing"} =>
        reconciliation[request[r].reconciliation] # Absent
  BY DEF RowsExist
<1>4. ASSUME NEW k \in Reconciliation, AddRead(r, k) \/ AutoRead(r, k) \/ ReadBook(r, k)
      PROVE  AutoStarted(r) \/ OtherStep(r)
  <2>1. Open(k) /\ reconciliation[k] # Absent
    BY <1>4, Rows DEF AddRead, AutoRead, ReadBook
  <2>2. CASE AddRead(r, k)
    <3>1. request'[r] = [pc |-> "adding", reconciliation |-> k]
      BY <1>1, <2>2 DEF AddRead
    <3> QED BY <2>1, <3>1 DEF OtherStep
  <2>3. CASE AutoRead(r, k)
    BY <1>1, <2>1, <2>3 DEF AutoRead, AutoStarted
  <2>4. CASE ReadBook(r, k)
    <3>1. request'[r] = [pc |-> "book_read", reconciliation |-> k, book |-> BookBalance(k)]
      BY <1>1, <2>4 DEF ReadBook
    <3> QED BY <2>1, <3>1 DEF OtherStep
  <2> QED BY <1>4, <2>2, <2>3, <2>4
<1>5. ASSUME NEW l \in StatementLine, AutoFind(r, l) PROVE AutoSkipped(r) \/ AutoFoundOne(r)
  <2>1. request[r].pc = "auto" /\ l \in request[r].todo
    BY <1>5 DEF AutoFind
  <2>2. request[r] \in [pc : {"auto"}, reconciliation : Reconciliation, todo : SUBSET StatementLine,
                        matched : SUBSET (StatementLine \X Transaction)]
    BY <2>1 DEF TreasuryTypeOK, RequestStates, AtRest
  <2>3. CASE request' = [request EXCEPT ![r].todo = @ \ {l}]
    <3>1. request'[r] = [request[r] EXCEPT !.todo = @ \ {l}]
      BY <2>3 DEF TreasuryTypeOK
    <3>2. request'[r] = [pc |-> "auto", reconciliation |-> request[r].reconciliation,
                         todo |-> request[r].todo \ {l}, matched |-> request[r].matched]
      BY <2>2, <3>1
    <3> QED BY <2>1, <3>2 DEF AutoSkipped
  <2>4. ASSUME NEW t \in Transaction, Candidates(r, request[r].reconciliation, l) = {t},
               request' = [request EXCEPT ![r] =
                 [pc |-> "auto_found", reconciliation |-> request[r].reconciliation,
                  todo |-> request[r].todo, matched |-> request[r].matched, line |-> l, tx |-> t]]
        PROVE  AutoFoundOne(r)
    <3>1. request'[r] = [pc |-> "auto_found", reconciliation |-> request[r].reconciliation,
                  todo |-> request[r].todo, matched |-> request[r].matched, line |-> l, tx |-> t]
      BY <1>1, <2>4
    <3>2. t \in Candidates(r, request[r].reconciliation, l)
      BY <2>4
    <3> QED BY <2>1, <3>1, <3>2 DEF AutoFoundOne
  <2> QED BY <1>5, <2>3, <2>4 DEF AutoFind
<1>6. ASSUME NEW l \in StatementLine, RecordRead(r, l) PROVE OtherStep(r)
  <2>1. request'[r] = [pc |-> "recording", line |-> l] /\ IsLine(l)
    BY <1>1, <1>6 DEF RecordRead
  <2> QED BY <2>1 DEF OtherStep
<1>7. ASSUME NEW l \in StatementLine, NEW t \in Transaction, MatchRead(r, l, t) PROVE OtherStep(r)
  <2>1. request'[r] = [pc |-> "matching", line |-> l, tx |-> t] /\ IsLine(l) /\ IsTransaction(t)
    BY <1>1, <1>7 DEF MatchRead
  <2> QED BY <2>1 DEF OtherStep
<1>8. ASSUME AutoMatch(r) PROVE AutoMatchedOne(r) \/ OtherStep(r)
  BY <1>1, <1>2, <1>8 DEF AutoMatch, AutoMatchedOne
<1>9. ASSUME ReadBank(r) PROVE OtherStep(r)
  <2>1. request[r].pc = "book_read"
    BY <1>9 DEF ReadBank
  <2>2. request'[r] = [pc |-> "bank_read", reconciliation |-> request[r].reconciliation,
                       book |-> request[r].book, bank |-> UnmatchedBank(request[r].reconciliation)]
    BY <1>1, <1>9 DEF ReadBank
  <2> QED BY <1>3, <2>1, <2>2 DEF OtherStep
<1>10. ASSUME ReadTransit(r) PROVE OtherStep(r)
  <2>1. request[r].pc = "bank_read"
    BY <1>10 DEF ReadTransit
  <2>2. CASE Done(r)
    BY <1>2, <2>2
  <2>3. CASE request'[r] = [pc |-> "completing", reconciliation |-> request[r].reconciliation]
    BY <1>3, <2>1, <2>3 DEF OtherStep
  <2> QED BY <1>1, <1>10, <2>2, <2>3 DEF ReadTransit
<1>11. ASSUME Abort(r) PROVE OtherStep(r)
  BY <1>2, <1>11 DEF Abort
<1> QED BY <1>4, <1>5, <1>6, <1>7, <1>8, <1>9, <1>10, <1>11 DEF LocalStep
-----------------------------------------------------------------------------
\* RowsExist, of one line and of one request.
LineStands(l) ==
  IsLine(l) => /\ reconciliation[line[l].reconciliation] # Absent
               /\ line[l].tx # NoTransaction => IsTransaction(line[l].tx)

RequestStands(x) ==
  LET q == request[x] IN
  /\ q.pc \in {"adding", "auto", "auto_found", "book_read", "bank_read", "completing"} =>
       reconciliation[q.reconciliation] # Absent
  /\ q.pc \in {"matching", "recorded", "recording"} => IsLine(q.line)
  /\ q.pc \in {"matching", "recorded"} => IsTransaction(q.tx)

LEMMA StandsIsRowsExist ==
  RowsExist <=> /\ \A l \in StatementLine : LineStands(l)
                /\ \A x \in Request : RequestStands(x)
BY DEF RowsExist, LineStands, RequestStands

LEMMA LineStillStands ==
  ASSUME TreasuryTypeOK, RowsStay, NEW l \in StatementLine, LineStands(l), line'[l] = line[l]
  PROVE  LineStands(l)'
<1>1. CASE ~IsLine(l)
  BY <1>1 DEF LineStands, IsLine
<1>2. CASE IsLine(l)
  <2>1. line[l] \in LineRow
    BY <1>2, Rows
  <2>2. line[l].reconciliation \in Reconciliation /\ line[l].tx \in Transaction \cup {NoTransaction}
    BY <2>1 DEF LineRow
  <2>3. /\ reconciliation'[line[l].reconciliation] # Absent
        /\ line[l].tx # NoTransaction => IsTransaction(line[l].tx)
                                         /\ transaction'[line[l].tx] = transaction[line[l].tx]
    BY <1>2, <2>2 DEF LineStands, RowsStay
  <2> QED BY <2>3 DEF LineStands, IsTransaction
<1> QED BY <1>1, <1>2

LEMMA RequestStillStands ==
  ASSUME TreasuryTypeOK, RowsStay, NEW x \in Request, RequestStands(x), request'[x] = request[x]
  PROVE  RequestStands(x)'
<1>1. LET q == request[x] IN
         /\ q.pc \in {"adding", "auto", "auto_found", "book_read", "bank_read", "completing"} =>
              q.reconciliation \in Reconciliation
         /\ q.pc \in {"matching", "recorded", "recording", "auto_found"} => q.line \in StatementLine
         /\ q.pc \in {"matching", "recorded", "auto_found"} => q.tx \in Transaction
  BY RequestFields
<1> QED BY <1>1 DEF RequestStands, RowsStay, IsLine, IsTransaction

LEMMA NextRowsExist ==
  ASSUME TreasuryTypeOK, RowsExist, HeldIsSound, RowsStay, [TreasuryNext]_treasuryVars
  PROVE  RowsExist'
<1>0. /\ \A l \in StatementLine : LineStands(l)
      /\ \A x \in Request : RequestStands(x)
  BY StandsIsRowsExist
<1>1. SUFFICES /\ \A l \in StatementLine : LineStands(l)'
               /\ \A x \in Request : RequestStands(x)'
  BY DEF RowsExist, LineStands, RequestStands
<1>2. ASSUME line' = line PROVE \A l \in StatementLine : LineStands(l)'
  BY <1>0, <1>2, LineStillStands
<1>3. ASSUME request' = request PROVE \A x \in Request : RequestStands(x)'
  BY <1>0, <1>3, RequestStillStands
<1>4. ASSUME NEW r \in Request, \A x \in Request \ {r} : request'[x] = request[x],
             RequestStands(r)'
      PROVE  \A x \in Request : RequestStands(x)'
  <2> SUFFICES ASSUME NEW x \in Request PROVE RequestStands(x)'
    OBVIOUS
  <2>1. CASE x = r
    BY <1>4, <2>1
  <2>2. CASE x # r
    BY <1>0, <1>4, <2>2, RequestStillStands
  <2> QED BY <2>1, <2>2
<1>5. ASSUME NEW r \in Request, request'[r] = AtRest PROVE RequestStands(r)'
  BY <1>5 DEF RequestStands, AtRest
<1>6. ASSUME NEW r \in Request, LocalStep(r)
      PROVE  line' = line /\ \A x \in Request : RequestStands(x)'
  <2>1. /\ UNCHANGED <<account, collected, transaction, reconciliation, line>>
        /\ \A x \in Request \ {r} : request'[x] = request[x]
    BY <1>6, LocalStepIsLocal
  <2>2. RequestStands(r)' <=>
          /\ request'[r].pc \in {"adding", "auto", "auto_found", "book_read", "bank_read", "completing"} =>
               reconciliation[request'[r].reconciliation] # Absent
          /\ request'[r].pc \in {"matching", "recorded", "recording"} => IsLine(request'[r].line)
          /\ request'[r].pc \in {"matching", "recorded"} => IsTransaction(request'[r].tx)
    BY <2>1 DEF RequestStands, IsLine, IsTransaction
  <2>3. request[r].pc \in {"auto", "auto_found"} => reconciliation[request[r].reconciliation] # Absent
    BY DEF RowsExist
  <2>4. RequestStands(r)'
    <3>1. CASE AutoStarted(r)
      <4>1. PICK k \in Reconciliation :
              /\ Open(k)
              /\ request'[r] = [pc |-> "auto", reconciliation |-> k, todo |-> Unmatched(k), matched |-> {}]
        BY <3>1 DEF AutoStarted
      <4> QED BY <2>2, <4>1, Rows
    <3>2. CASE AutoSkipped(r)
      BY <2>2, <2>3, <3>2 DEF AutoSkipped
    <3>3. CASE AutoFoundOne(r)
      BY <2>2, <2>3, <3>3 DEF AutoFoundOne
    <3>4. CASE AutoMatchedOne(r)
      BY <2>2, <2>3, <3>4 DEF AutoMatchedOne
    <3>5. CASE OtherStep(r)
      BY <2>2, <3>5 DEF OtherStep
    <3> QED BY <1>6, <3>1, <3>2, <3>3, <3>4, <3>5, LocalStepCases
  <2> QED BY <1>4, <2>1, <2>4
<1>7. ASSUME NEW r \in Request, LineStep(r)
      PROVE  /\ \A l \in StatementLine : LineStands(l)'
             /\ \A x \in Request : RequestStands(x)'
  <2>1. /\ UNCHANGED <<account, collected, transaction, reconciliation>>
        /\ request'[r] = AtRest /\ \A x \in Request \ {r} : request'[x] = request[x]
    BY <1>7, LineStepEffect
  <2>2. \A l \in StatementLine :
              line'[l] = line[l] \/ Added(r, l) \/ MatchedByMachine(r, l) \/ MatchedByHand(r, l)
    BY <1>7, LineStepEffect
  <2>3. ASSUME NEW l \in StatementLine PROVE LineStands(l)'
    <3>0. LineStands(l)' <=>
            (line'[l].status = "LINE" =>
               /\ reconciliation[line'[l].reconciliation] # Absent
               /\ line'[l].tx # NoTransaction => IsTransaction(line'[l].tx))
      BY <2>1 DEF LineStands, IsLine, IsTransaction
    <3>1. CASE line'[l] = line[l]
      BY <1>0, <3>1, LineStillStands
    <3>2. CASE Added(r, l)
      <4>1. reconciliation[request[r].reconciliation] # Absent
        BY <3>2 DEF Added, RowsExist
      <4> QED BY <3>0, <3>2, <4>1 DEF Added
    <3>3. ASSUME NEW t \in Transaction, NEW method \in {"AUTO", "MANUAL"}, IsTransaction(t), IsLine(l),
                 line'[l] = Matched(line[l], t, method)
          PROVE  LineStands(l)'
      <4>0. method \in {"NONE", "AUTO", "MANUAL"}
        OBVIOUS
      <4>1. line[l] \in LineRow /\ reconciliation[line[l].reconciliation] # Absent
        BY <3>3, Rows DEF RowsExist
      <4>2. /\ Matched(line[l], t, method).reconciliation = line[l].reconciliation
            /\ Matched(line[l], t, method).tx = t
        BY ONLY t \in Transaction, <4>0, <4>1, MatchedRow
      <4> QED BY <3>0, <3>3, <4>1, <4>2
    <3>4. CASE MatchedByMachine(r, l)
      <4>1. PICK t \in Transaction : /\ <<l, t>> \in request[r].matched
                                     /\ line'[l] = Matched(line[l], t, "AUTO")
        BY <3>4 DEF MatchedByMachine
      <4>2. IsLine(l) /\ request[r].pc = "auto"
        BY <3>4 DEF MatchedByMachine
      <4>3. \A m \in request[r].matched : Fits(m[1], m[2], request[r].reconciliation)
        BY <4>2 DEF HeldIsSound, InAuto
      <4>4. IsTransaction(t)
        BY <4>1, <4>3 DEF Fits
      <4> QED BY <3>3, <4>1, <4>2, <4>4
    <3>5. CASE MatchedByHand(r, l)
      <4>1. request[r].tx \in Transaction /\ IsTransaction(request[r].tx) /\ IsLine(l)
        BY <3>5, RequestFields DEF MatchedByHand, RowsExist
      <4>2. line'[l] = Matched(line[l], request[r].tx, "MANUAL")
        BY <3>5 DEF MatchedByHand
      <4> QED BY <3>3, <4>1, <4>2
    <3> QED BY <2>2, <3>1, <3>2, <3>4, <3>5
  <2> QED BY <1>4, <1>5, <2>1, <2>3
<1>8. ASSUME NEW l \in StatementLine, Unmatch(l)
      PROVE  request' = request /\ \A b \in StatementLine : LineStands(b)'
  <2>1. /\ IsLine(l) /\ line'[l] = Matched(line[l], NoTransaction, "NONE")
        /\ \A b \in StatementLine \ {l} : line'[b] = line[b]
        /\ request' = request
    BY <1>8, UnmatchEffect
  <2>2. ASSUME NEW b \in StatementLine PROVE LineStands(b)'
    <3>1. CASE b # l
      BY <1>0, <2>1, <3>1, LineStillStands
    <3>2. CASE b = l
      <4>1. line[l] \in LineRow /\ reconciliation[line[l].reconciliation] # Absent
        BY <2>1, Rows DEF RowsExist
      <4>2. /\ Matched(line[l], NoTransaction, "NONE").reconciliation = line[l].reconciliation
            /\ Matched(line[l], NoTransaction, "NONE").tx = NoTransaction
        BY ONLY <4>1, MatchedRow
      <4>3. line[l].reconciliation \in Reconciliation
        BY <4>1 DEF LineRow
      <4>4. reconciliation'[line[l].reconciliation] # Absent
        BY <4>1, <4>3 DEF RowsStay
      <4> QED BY <2>1, <3>2, <4>2, <4>4 DEF LineStands
    <3> QED BY <3>1, <3>2
  <2> QED BY <2>1, <2>2
<1>9. ASSUME NEW r \in Request, Complete(r)
      PROVE  line' = line /\ \A x \in Request : RequestStands(x)'
  BY <1>4, <1>5, <1>9, CompleteEffect
<1>10. ASSUME NEW r \in Request, NEW t \in Transaction, RecordMove(r, t)
       PROVE  line' = line /\ \A x \in Request : RequestStands(x)'
  <2>1. /\ request[r].pc = "recording" /\ request[r].line \in StatementLine
        /\ line' = line
        /\ request'[r] = [pc |-> "recorded", line |-> request[r].line, tx |-> t]
        /\ \A x \in Request \ {r} : request'[x] = request[x]
        /\ SomeMovement(t)
    BY <1>10, RecordMoveEffect
  <2>2. IsLine(request[r].line)
    BY <2>1 DEF RowsExist
  <2>3. transaction'[t].status = "DONE"
    BY <2>1, SomeMovementEffect DEF TransactionRow
  <2>4. RequestStands(r)'
    BY <2>1, <2>2, <2>3 DEF RequestStands, IsLine, IsTransaction
  <2> QED BY <1>4, <2>1, <2>4
<1>11. ASSUME UNCHANGED treasuryVars PROVE line' = line /\ request' = request
  BY <1>11 DEF treasuryVars
<1>12. ASSUME AccountStep PROVE line' = line /\ request' = request
  BY <1>12, AccountStepEffect
<1>13. ASSUME NEW a \in Account, NEW b \in Account, NEW out \in Transaction, NEW in \in Transaction,
              NEW amount \in Amount, NEW date \in Day, Transfer(a, b, out, in, amount, date)
       PROVE  line' = line /\ request' = request
  BY <1>13, TransferEffect
<1>14. ASSUME NEW k \in Reconciliation, NEW a \in Account, NEW date \in Day, NEW stated \in Balance,
              Create(k, a, date, stated)
       PROVE  line' = line /\ request' = request
  BY <1>14, CreateEffect
<1>15. ASSUME NEW a \in Account, NEW t \in Transaction, NEW type \in {"DEPOSIT", "WITHDRAWAL"},
              NEW amount \in Amount, NEW date \in Day, Move(a, t, type, amount, date)
       PROVE  line' = line /\ request' = request
  BY <1>15 DEF Move
<1> QED BY <1>2, <1>3, <1>6, <1>7, <1>8, <1>9, <1>10, <1>11, <1>12, <1>13, <1>14, <1>15, Steps
-----------------------------------------------------------------------------
\* HeldIsSound, of the locals of one request and of two requests.
AutoStands(q) ==
  /\ \A l \in q.todo : IsLine(l) /\ line[l].reconciliation = q.reconciliation
  /\ \A m \in q.matched : Fits(m[1], m[2], q.reconciliation) /\ m[1] \notin q.todo
  /\ \A m, n \in q.matched : m[1] = n[1] \/ m[2] = n[2] => m = n
  /\ \A m \in q.matched, b \in StatementLine :
       IsLine(b) /\ line[b].tx = m[2] => \E n \in q.matched : n[1] = b
  /\ q.pc = "auto_found" => q.line \in q.todo /\ Fits(q.line, q.tx, q.reconciliation)

Apart(x, y) == \A m \in Held(x), n \in Held(y) : m[1] # n[1] /\ m[2] # n[2]

LEMMA HeldIsSoundOfEach ==
  HeldIsSound <=> /\ \A x \in Request : InAuto(x) => AutoStands(request[x])
                  /\ \A x, y \in Request : x # y => Apart(x, y)
BY DEF HeldIsSound, AutoStands, Apart

(* What fits still fits after a step.                                      *)
LEMMA FitsStays ==
  ASSUME TreasuryTypeOK, RowsExist, RowsStay, NEW l \in StatementLine, NEW t \in Transaction,
         NEW k \in Reconciliation, Fits(l, t, k)
  PROVE  Fits(l, t, k)'
<1>1. /\ line'[l].status = "LINE" /\ line'[l].reconciliation = line[l].reconciliation
      /\ line'[l].amount = line[l].amount /\ transaction'[t] = transaction[t]
      /\ line[l].reconciliation = k /\ reconciliation[k] # Absent
  BY DEF Fits, RowsStay, RowsExist
<1>2. reconciliation'[k].account = reconciliation[k].account
  BY <1>1 DEF RowsStay
<1>3. SignedAmount(t)' = SignedAmount(t)
  BY <1>1 DEF SignedAmount
<1>4. SameAmount(t, l)' <=> SameAmount(t, l)
  BY <1>1, <1>3 DEF SameAmount
<1> QED BY <1>1, <1>2, <1>4 DEF Fits, IsLine, IsTransaction

(* A request that holds the same after a step by which no line it does not *)
(* hold was matched to a transaction it holds.                             *)
LEMMA AutoStillStands ==
  ASSUME TreasuryTypeOK, RowsExist, RowsStay, NEW x \in Request, InAuto(x), AutoStands(request[x]),
         request'[x] = request[x],
         \A b \in StatementLine, m \in Held(x) :
           IsLine(b)' /\ line'[b].tx = m[2] => IsLine(b) /\ line[b].tx = m[2]
  PROVE  AutoStands(request[x])'
<1> PICK q : q = request[x]
  OBVIOUS
<1>0. q.reconciliation \in Reconciliation /\ q.todo \subseteq StatementLine
      /\ q.matched \subseteq StatementLine \X Transaction
      /\ (q.pc = "auto_found" => q.line \in StatementLine /\ q.tx \in Transaction)
  BY RequestFields DEF InAuto
<1>1. Held(x) = q.matched
  BY DEF Held, InAuto
<1>2. AutoStands(q) /\ request'[x] = q
  OBVIOUS
<1>3. \A l \in q.todo : line'[l].status = "LINE" /\ line'[l].reconciliation = q.reconciliation
  BY <1>0, <1>2 DEF AutoStands, RowsStay
<1>4. ASSUME NEW m \in q.matched PROVE Fits(m[1], m[2], q.reconciliation)' /\ m[1] \notin q.todo
  <2>1. PICK l \in StatementLine, t \in Transaction : m = <<l, t>>
    BY <1>0
  <2>2. Fits(m[1], m[2], q.reconciliation) /\ m[1] \notin q.todo
    BY <1>2 DEF AutoStands
  <2>3. Fits(l, t, q.reconciliation)
    BY <2>1, <2>2
  <2>4. Fits(l, t, q.reconciliation)'
    BY <1>0, <2>3, FitsStays
  <2> QED BY <2>1, <2>2, <2>4
<1>5. \A m, n \in q.matched : m[1] = n[1] \/ m[2] = n[2] => m = n
  BY <1>2 DEF AutoStands
<1>6. ASSUME NEW m \in q.matched, NEW b \in StatementLine, IsLine(b)', line'[b].tx = m[2]
      PROVE  \E n \in q.matched : n[1] = b
  <2>1. IsLine(b) /\ line[b].tx = m[2]
    BY <1>1, <1>6
  <2> QED BY <1>2, <2>1 DEF AutoStands
<1>7. ASSUME q.pc = "auto_found" PROVE q.line \in q.todo /\ Fits(q.line, q.tx, q.reconciliation)'
  <2>1. q.line \in q.todo /\ Fits(q.line, q.tx, q.reconciliation)
    BY <1>2, <1>7 DEF AutoStands
  <2> QED BY <1>0, <1>7, <2>1, FitsStays
<1>8. AutoStands(q)'
  BY <1>3, <1>4, <1>5, <1>6, <1>7 DEF AutoStands, IsLine
<1> QED BY <1>2, <1>8 DEF AutoStands

(* Two requests that hold the same.                                        *)
LEMMA SameHeld ==
  ASSUME NEW x \in Request, request'[x] = request[x]
  PROVE  Held(x)' = Held(x) /\ (InAuto(x)' <=> InAuto(x))
BY DEF Held, InAuto

(* What request r holds after it has matched one line more.                *)
LEMMA AutoMatchedStands ==
  ASSUME TreasuryTypeOK, RowsExist, HeldIsSound, NEW r \in Request, AutoMatchedOne(r),
         UNCHANGED <<transaction, reconciliation, line>>
  PROVE  AutoStands(request[r])' /\ Held(r)' = Held(r) \cup {<<request[r].line, request[r].tx>>}
<1> PICK q : q = request[r]
  OBVIOUS
<1>1. q.pc = "auto_found" /\ InAuto(r) /\ Held(r) = q.matched
  BY DEF AutoMatchedOne, InAuto, Held
<1>2. q.line \in StatementLine /\ q.tx \in Transaction /\ q.todo \subseteq StatementLine
      /\ q.matched \subseteq StatementLine \X Transaction
  BY <1>1, RequestFields
<1>3. AutoStands(q)
  BY <1>1, HeldIsSoundOfEach
<1>4. ~Taken(r, q.line, q.tx)
  BY DEF AutoMatchedOne
<1>5. q.line \in q.todo /\ Fits(q.line, q.tx, q.reconciliation)
  BY <1>1, <1>3 DEF AutoStands
<1>6. ASSUME NEW m \in q.matched PROVE m[1] # q.line /\ m[2] # q.tx
  <2>1. PICK l \in StatementLine, t \in Transaction : m = <<l, t>>
    BY <1>2
  <2>2. Fits(m[1], m[2], q.reconciliation) /\ m[1] \notin q.todo
    BY <1>3 DEF AutoStands
  <2>3. IsLine(l) /\ l # q.line
    BY <1>5, <2>1, <2>2 DEF Fits
  <2>4. MatchSeen(r, l) = t
    BY <1>1, <2>1, SeenMatch
  <2>5. t # q.tx
    BY <1>4, <2>3, <2>4 DEF Taken
  <2> QED BY <2>1, <2>3, <2>5
<1>7. ASSUME NEW b \in StatementLine, b # q.line, IsLine(b), line[b].tx = q.tx
      PROVE  \E n \in q.matched : n[1] = b
  <2>1. MatchSeen(r, b) # line[b].tx
    BY <1>4, <1>7 DEF Taken
  <2> QED BY <1>1, <2>1 DEF MatchSeen
<1> DEFINE new == <<q.line, q.tx>>
           p == [pc |-> "auto", reconciliation |-> q.reconciliation, todo |-> q.todo \ {q.line},
                 matched |-> q.matched \cup {new}]
<1>8. request'[r] = p
  BY DEF AutoMatchedOne
<1>9. AutoStands(p)
  <2>1. \A l \in p.todo : IsLine(l) /\ line[l].reconciliation = p.reconciliation
    BY <1>3 DEF AutoStands
  <2>2. \A m \in p.matched : Fits(m[1], m[2], p.reconciliation) /\ m[1] \notin p.todo
    BY <1>3, <1>5 DEF AutoStands
  <2>3. \A m, n \in p.matched : m[1] = n[1] \/ m[2] = n[2] => m = n
    BY <1>3, <1>6 DEF AutoStands
  <2>4. \A m \in p.matched, b \in StatementLine :
          IsLine(b) /\ line[b].tx = m[2] => \E n \in p.matched : n[1] = b
    <3> SUFFICES ASSUME NEW m \in p.matched, NEW b \in StatementLine, IsLine(b), line[b].tx = m[2]
                 PROVE  \E n \in p.matched : n[1] = b
      OBVIOUS
    <3>1. CASE m \in q.matched
      BY <1>3, <3>1 DEF AutoStands
    <3>2. CASE m = new /\ b # q.line
      BY <1>7, <3>2
    <3>3. CASE b = q.line
      <4>1. new \in p.matched /\ new[1] = b
        BY <3>3
      <4> QED BY <4>1
    <3> QED BY <3>1, <3>2, <3>3
  <2> QED BY <2>1, <2>2, <2>3, <2>4 DEF AutoStands
<1>10. AutoStands(p)'
  BY <1>9 DEF AutoStands, Fits, IsLine, IsTransaction, SameAmount, SignedAmount
<1>11. AutoStands(request[r])'
  BY <1>8, <1>10 DEF AutoStands
<1>12. Held(r)' = p.matched
  BY <1>8 DEF Held
<1> QED BY <1>1, <1>11, <1>12

LEMMA LocalStepHeld ==
  ASSUME TreasuryTypeOK, RowsExist, HeldIsSound, NEW r \in Request, LocalStep(r)
  PROVE  /\ InAuto(r)' => AutoStands(request[r])'
         /\ \/ Held(r)' \subseteq Held(r)
            \/ /\ NotHeld(r, request[r].line, request[r].tx)
               /\ Held(r)' = Held(r) \cup {<<request[r].line, request[r].tx>>}
<1>1. UNCHANGED <<transaction, reconciliation, line>>
  BY LocalStepIsLocal
<1>2. \A q : AutoStands(q)' <=> AutoStands(q)
  BY <1>1 DEF AutoStands, Fits, IsLine, IsTransaction, SameAmount, SignedAmount
<1>3. ASSUME NEW p, request'[r] = p, AutoStands(p) PROVE AutoStands(request[r])'
  <2>1. AutoStands(p)'
    BY <1>2, <1>3
  <2> QED BY <1>3, <2>1 DEF AutoStands
<1>4. request[r].pc \in {"auto", "auto_found"} => AutoStands(request[r]) /\ Held(r) = request[r].matched
  BY HeldIsSoundOfEach DEF InAuto, Held
<1>5. CASE AutoStarted(r)
  <2>1. PICK k \in Reconciliation :
          request'[r] = [pc |-> "auto", reconciliation |-> k, todo |-> Unmatched(k), matched |-> {}]
    BY <1>5 DEF AutoStarted
  <2> DEFINE p == [pc |-> "auto", reconciliation |-> k, todo |-> Unmatched(k), matched |-> {}]
  <2>2. AutoStands(p)
    BY DEF AutoStands, Unmatched, LinesOf
  <2>3. Held(r)' = {}
    BY <2>1 DEF Held
  <2> QED BY <1>3, <2>1, <2>2, <2>3
<1>6. CASE AutoSkipped(r)
  <2> PICK q : q = request[r]
    OBVIOUS
  <2>1. PICK l \in StatementLine :
          request'[r] = [pc |-> "auto", reconciliation |-> q.reconciliation, todo |-> q.todo \ {l},
                         matched |-> q.matched]
    BY <1>6 DEF AutoSkipped
  <2> DEFINE p == [pc |-> "auto", reconciliation |-> q.reconciliation, todo |-> q.todo \ {l},
                   matched |-> q.matched]
  <2>2. AutoStands(q) /\ Held(r) = q.matched
    BY <1>4, <1>6 DEF AutoSkipped
  <2>3. AutoStands(p)
    BY <2>2 DEF AutoStands
  <2>4. Held(r)' = q.matched
    BY <2>1 DEF Held
  <2> QED BY <1>3, <2>1, <2>2, <2>3, <2>4
<1>7. CASE AutoFoundOne(r)
  <2> PICK q : q = request[r]
    OBVIOUS
  <2>1. q.pc = "auto"
    BY <1>7 DEF AutoFoundOne
  <2>2. PICK l \in q.todo : \E t \in Candidates(r, q.reconciliation, l) :
          request'[r] = [pc |-> "auto_found", reconciliation |-> q.reconciliation, todo |-> q.todo,
                         matched |-> q.matched, line |-> l, tx |-> t]
    BY <1>7 DEF AutoFoundOne
  <2>3. PICK t \in Candidates(r, q.reconciliation, l) :
          request'[r] = [pc |-> "auto_found", reconciliation |-> q.reconciliation, todo |-> q.todo,
                         matched |-> q.matched, line |-> l, tx |-> t]
    BY <2>2
  <2> DEFINE p == [pc |-> "auto_found", reconciliation |-> q.reconciliation, todo |-> q.todo,
                   matched |-> q.matched, line |-> l, tx |-> t]
  <2>4. AutoStands(q) /\ Held(r) = q.matched
    BY <1>4, <2>1
  <2>5. Fits(l, t, q.reconciliation)
    BY <2>4 DEF AutoStands, Candidates, Fits
  <2>6. AutoStands(p)
    BY <2>4, <2>5 DEF AutoStands
  <2>7. Held(r)' = q.matched
    BY <2>3 DEF Held
  <2> QED BY <1>3, <2>3, <2>4, <2>6, <2>7
<1>8. CASE AutoMatchedOne(r)
  <2>1. NotHeld(r, request[r].line, request[r].tx)
    BY <1>8 DEF AutoMatchedOne
  <2> QED BY <1>1, <1>8, <2>1, AutoMatchedStands
<1>9. CASE OtherStep(r)
  BY <1>9 DEF OtherStep, InAuto, Held
<1> QED BY <1>5, <1>6, <1>7, <1>8, <1>9, LocalStepCases

LEMMA NextHeldIsSound ==
  ASSUME TreasuryTypeOK, RowsExist, HeldIsSound, RowsStay, [TreasuryNext]_treasuryVars
  PROVE  HeldIsSound'
<1>0. /\ \A x \in Request : InAuto(x) => AutoStands(request[x])
      /\ \A x, y \in Request : x # y => Apart(x, y)
  BY HeldIsSoundOfEach
<1>1. SUFFICES /\ \A x \in Request : InAuto(x)' => AutoStands(request[x])'
               /\ \A x, y \in Request : x # y => Apart(x, y)'
  BY DEF HeldIsSound, AutoStands, Apart
<1>2. ASSUME NEW x \in Request, request'[x] = request[x], InAuto(x)',
             \A b \in StatementLine, m \in Held(x) :
               IsLine(b)' /\ line'[b].tx = m[2] => IsLine(b) /\ line[b].tx = m[2]
      PROVE  AutoStands(request[x])'
  <2>1. InAuto(x)
    BY <1>2, SameHeld
  <2> QED BY <1>0, <1>2, <2>1, AutoStillStands
<1>3. ASSUME NEW x \in Request, NEW y \in Request, x # y, Held(x)' \subseteq Held(x),
             Held(y)' \subseteq Held(y)
      PROVE  Apart(x, y)'
  <2>1. Apart(x, y)
    BY <1>0, <1>3
  <2> QED BY <1>3, <2>1 DEF Apart
<1>4. ASSUME NEW r \in Request, \A x \in Request \ {r} : request'[x] = request[x], ~InAuto(r)',
             \A x \in Request \ {r} : \A b \in StatementLine, m \in Held(x) :
               IsLine(b)' /\ line'[b].tx = m[2] => IsLine(b) /\ line[b].tx = m[2]
      PROVE  /\ \A x \in Request : InAuto(x)' => AutoStands(request[x])'
             /\ \A x, y \in Request : x # y => Apart(x, y)'
  <2>1. \A x \in Request : Held(x)' \subseteq Held(x)
    <3>1. Held(r)' = {}
      BY <1>4 DEF Held, InAuto
    <3> QED BY <1>4, <3>1, SameHeld
  <2>2. ASSUME NEW x \in Request, InAuto(x)' PROVE AutoStands(request[x])'
    <3>1. x # r
      BY <1>4, <2>2
    <3> QED BY <1>2, <1>4, <2>2, <3>1
  <2> QED BY <1>3, <2>1, <2>2
<1>5. ASSUME request' = request,
             \A x \in Request : \A b \in StatementLine, m \in Held(x) :
               IsLine(b)' /\ line'[b].tx = m[2] => IsLine(b) /\ line[b].tx = m[2]
      PROVE  /\ \A x \in Request : InAuto(x)' => AutoStands(request[x])'
             /\ \A x, y \in Request : x # y => Apart(x, y)'
  <2>1. \A x \in Request : request'[x] = request[x] /\ Held(x)' \subseteq Held(x)
    BY <1>5, SameHeld
  <2> QED BY <1>2, <1>3, <1>5, <2>1
<1>6. ASSUME line' = line
      PROVE  \A b \in StatementLine : \A t : IsLine(b)' /\ line'[b].tx = t => IsLine(b) /\ line[b].tx = t
  BY <1>6 DEF IsLine
<1>7. ASSUME NEW r \in Request, LocalStep(r)
      PROVE  /\ \A x \in Request : InAuto(x)' => AutoStands(request[x])'
             /\ \A x, y \in Request : x # y => Apart(x, y)'
  <2>1. line' = line /\ \A x \in Request \ {r} : request'[x] = request[x]
    BY <1>7, LocalStepIsLocal
  <2>2. InAuto(r)' => AutoStands(request[r])'
    BY <1>7, LocalStepHeld
  <2>3. \A x \in Request : InAuto(x)' => AutoStands(request[x])'
    BY <1>2, <1>6, <2>1, <2>2
  <2>4. \A x \in Request \ {r} : Held(x)' = Held(x)
    BY <2>1, SameHeld
  <2>5. CASE Held(r)' \subseteq Held(r)
    <3>1. \A x \in Request : Held(x)' \subseteq Held(x)
      BY <2>4, <2>5
    <3> QED BY <1>3, <2>3, <3>1
  <2>6. CASE /\ NotHeld(r, request[r].line, request[r].tx)
             /\ Held(r)' = Held(r) \cup {<<request[r].line, request[r].tx>>}
    <3>1. ASSUME NEW y \in Request \ {r}, NEW m \in Held(r)', NEW n \in Held(y)'
          PROVE  m[1] # n[1] /\ m[2] # n[2]
      <4>1. n \in Held(y)
        BY <2>4
      <4>2. CASE m \in Held(r)
        BY <1>0, <4>1, <4>2 DEF Apart
      <4>3. CASE m = <<request[r].line, request[r].tx>>
        BY <2>6, <4>1, <4>3 DEF NotHeld
      <4> QED BY <2>6, <4>2, <4>3
    <3>2. ASSUME NEW x \in Request, NEW y \in Request, x # y PROVE Apart(x, y)'
      <4>1. CASE x = r
        <5>1. y \in Request \ {r}
          BY <3>2, <4>1
        <5> QED BY <3>1, <4>1, <5>1 DEF Apart
      <4>2. CASE y = r
        <5>1. x \in Request \ {r}
          BY <3>2, <4>2
        <5> QED BY <3>1, <4>2, <5>1 DEF Apart
      <4>3. CASE x # r /\ y # r
        <5>1. Held(x)' = Held(x) /\ Held(y)' = Held(y)
          BY <2>4, <4>3
        <5> QED BY <1>3, <3>2, <5>1
      <4> QED BY <4>1, <4>2, <4>3
    <3> QED BY <2>3, <3>2
  <2> QED BY <1>7, <2>5, <2>6, LocalStepHeld
<1>8. ASSUME NEW r \in Request, LineStep(r)
      PROVE  /\ \A x \in Request : InAuto(x)' => AutoStands(request[x])'
             /\ \A x, y \in Request : x # y => Apart(x, y)'
  <2>1. /\ request'[r] = AtRest /\ \A x \in Request \ {r} : request'[x] = request[x]
        /\ line' \in [StatementLine -> LineRow \cup {Absent}]
    BY <1>8, LineStepEffect
  <2>2. \A l \in StatementLine :
          line'[l] = line[l] \/ Added(r, l) \/ MatchedByMachine(r, l) \/ MatchedByHand(r, l)
    BY <1>8, LineStepEffect
  <2>3. ASSUME NEW x \in Request \ {r}, NEW b \in StatementLine, NEW m \in Held(x),
               IsLine(b)', line'[b].tx = m[2]
        PROVE  IsLine(b) /\ line[b].tx = m[2]
    <3>0. InAuto(x) /\ m \in request[x].matched
      BY DEF Held, InAuto
    <3>1. m[2] \in Transaction
      BY <3>0, RequestFields
    <3>2. ~Added(r, b)
      BY <2>3, <3>1 DEF Added
    <3>3. ~MatchedByMachine(r, b)
      <4> SUFFICES ASSUME MatchedByMachine(r, b) PROVE FALSE
        OBVIOUS
      <4>1. PICK t \in Transaction : <<b, t>> \in request[r].matched /\ line'[b] = Matched(line[b], t, "AUTO")
        BY DEF MatchedByMachine
      <4>2. line[b] \in LineRow
        BY Rows DEF MatchedByMachine
      <4>3. line'[b].tx = t
        BY <4>1, <4>2 DEF Matched, LineRow
      <4>4. <<b, t>> \in Held(r)
        BY <4>1 DEF Held, MatchedByMachine
      <4>5. Apart(r, x)
        BY <1>0
      <4>6. <<b, t>>[2] # m[2]
        BY <4>4, <4>5 DEF Apart
      <4> QED BY <2>3, <4>3, <4>6
    <3>4. ~MatchedByHand(r, b)
      <4> SUFFICES ASSUME MatchedByHand(r, b) PROVE FALSE
        OBVIOUS
      <4>1. line'[b] = Matched(line[b], request[r].tx, "MANUAL") /\ NotHeld(r, b, request[r].tx)
        BY DEF MatchedByHand
      <4>2. line[b] \in LineRow
        BY Rows DEF MatchedByHand
      <4>3. line'[b].tx = request[r].tx
        BY <4>1, <4>2 DEF Matched, LineRow
      <4>4. m[2] # request[r].tx
        BY <4>1 DEF NotHeld
      <4> QED BY <2>3, <4>3, <4>4
    <3>5. line'[b] = line[b]
      BY <2>2, <3>2, <3>3, <3>4
    <3> QED BY <2>3, <3>5 DEF IsLine
  <2>4. ~InAuto(r)'
    BY <2>1 DEF InAuto, AtRest
  <2> QED BY <1>4, <2>1, <2>3, <2>4
<1>9. ASSUME NEW l \in StatementLine, Unmatch(l)
      PROVE  /\ \A x \in Request : InAuto(x)' => AutoStands(request[x])'
             /\ \A x, y \in Request : x # y => Apart(x, y)'
  <2>1. /\ request' = request /\ line'[l] = Matched(line[l], NoTransaction, "NONE") /\ IsLine(l)
        /\ \A b \in StatementLine \ {l} : line'[b] = line[b]
    BY <1>9, UnmatchEffect
  <2>2. line'[l].tx = NoTransaction
    BY <2>1, Rows DEF Matched, LineRow
  <2>3. ASSUME NEW x \in Request, NEW b \in StatementLine, NEW m \in Held(x),
               IsLine(b)', line'[b].tx = m[2]
        PROVE  IsLine(b) /\ line[b].tx = m[2]
    <3>0. InAuto(x) /\ m \in request[x].matched
      BY DEF Held, InAuto
    <3>1. m[2] \in Transaction
      BY <3>0, RequestFields
    <3>2. b # l
      BY <2>2, <2>3, <3>1
    <3>3. line'[b] = line[b]
      BY <2>1, <3>2
    <3> QED BY <2>3, <3>3 DEF IsLine
  <2> QED BY <1>5, <2>1, <2>3
<1>10. ASSUME request' = request, line' = line
       PROVE  /\ \A x \in Request : InAuto(x)' => AutoStands(request[x])'
              /\ \A x, y \in Request : x # y => Apart(x, y)'
  BY <1>5, <1>6, <1>10
<1>11. ASSUME NEW r \in Request, Complete(r)
       PROVE  /\ \A x \in Request : InAuto(x)' => AutoStands(request[x])'
              /\ \A x, y \in Request : x # y => Apart(x, y)'
  <2>1. line' = line /\ request'[r] = AtRest /\ \A x \in Request \ {r} : request'[x] = request[x]
    BY <1>11, CompleteEffect
  <2>2. ~InAuto(r)'
    BY <2>1 DEF InAuto, AtRest
  <2> QED BY <1>4, <1>6, <2>1, <2>2
<1>12. ASSUME NEW r \in Request, NEW t \in Transaction, RecordMove(r, t)
       PROVE  /\ \A x \in Request : InAuto(x)' => AutoStands(request[x])'
              /\ \A x, y \in Request : x # y => Apart(x, y)'
  <2>1. /\ line' = line /\ \A x \in Request \ {r} : request'[x] = request[x]
        /\ request'[r] = [pc |-> "recorded", line |-> request[r].line, tx |-> t]
    BY <1>12, RecordMoveEffect
  <2>2. ~InAuto(r)'
    BY <2>1 DEF InAuto
  <2> QED BY <1>4, <1>6, <2>1, <2>2
<1>13. UNCHANGED treasuryVars => line' = line /\ request' = request
  BY DEF treasuryVars
<1>14. AccountStep => line' = line /\ request' = request
  BY AccountStepEffect
<1>15. ASSUME NEW a \in Account, NEW b \in Account, NEW out \in Transaction, NEW in \in Transaction,
              NEW amount \in Amount, NEW date \in Day, Transfer(a, b, out, in, amount, date)
       PROVE  line' = line /\ request' = request
  BY <1>15, TransferEffect
<1>16. ASSUME NEW k \in Reconciliation, NEW a \in Account, NEW date \in Day, NEW stated \in Balance,
              Create(k, a, date, stated)
       PROVE  line' = line /\ request' = request
  BY <1>16, CreateEffect
<1>17. ASSUME NEW a \in Account, NEW t \in Transaction, NEW type \in {"DEPOSIT", "WITHDRAWAL"},
              NEW amount \in Amount, NEW date \in Day, Move(a, t, type, amount, date)
       PROVE  line' = line /\ request' = request
  BY <1>17 DEF Move
<1> QED BY <1>7, <1>8, <1>9, <1>10, <1>11, <1>12, <1>13, <1>14, <1>15, <1>16, <1>17, Steps
-----------------------------------------------------------------------------
\* MatchesAreSound: two lines with one transaction, and what the machine matched.
Twice(l, b) ==
  IsLine(l) /\ IsLine(b) /\ line[l].tx \in Transaction /\ line[b].tx = line[l].tx

MachineIsRight(l) ==
  IsLine(l) /\ line[l].tx \in Transaction /\ line[l].method = "AUTO" =>
    /\ SignedAmount(line[l].tx) = line[l].amount
    /\ transaction[line[l].tx].account = reconciliation[line[l].reconciliation].account

LEMMA MatchesAreSoundOfEach ==
  ASSUME TreasuryTypeOK
  PROVE  MatchesAreSound <=> /\ \A l, b \in StatementLine : l # b => ~Twice(l, b)
                             /\ \A l \in StatementLine : MachineIsRight(l)
<1>1. \A l \in StatementLine : IsLine(l) => (line[l].tx \in Transaction <=> line[l].tx # NoTransaction)
  BY Rows DEF LineRow
<1> QED BY <1>1 DEF MatchesAreSound, Twice, MachineIsRight

(* What the machine matched stays right as long as the line stays.         *)
LEMMA MachineStaysRight ==
  ASSUME TreasuryTypeOK, RowsExist, RowsStay, NEW l \in StatementLine, MachineIsRight(l),
         line'[l] = line[l]
  PROVE  MachineIsRight(l)'
<1> SUFFICES ASSUME IsLine(l), line[l].tx \in Transaction, line[l].method = "AUTO"
             PROVE  /\ SignedAmount(line[l].tx)' = line[l].amount
                    /\ transaction'[line[l].tx].account = reconciliation'[line[l].reconciliation].account
  BY DEF MachineIsRight, IsLine
<1>1. line[l].reconciliation \in Reconciliation
  BY Rows DEF LineRow
<1>2. PICK t \in Transaction : t = line[l].tx /\ line'[l].tx = t
  OBVIOUS
<1>3. IsTransaction(t) /\ reconciliation[line[l].reconciliation] # Absent
  BY <1>2 DEF RowsExist
<1>4. transaction'[t] = transaction[t]
      /\ reconciliation'[line[l].reconciliation].account = reconciliation[line[l].reconciliation].account
  BY <1>1, <1>3 DEF RowsStay
<1>5. SignedAmount(t)' = SignedAmount(t)
  BY <1>4 DEF SignedAmount
<1>6. SignedAmount(t) = line[l].amount
      /\ transaction[t].account = reconciliation[line[l].reconciliation].account
  BY <1>2 DEF MachineIsRight
<1>7. SignedAmount(line[l].tx)' = SignedAmount(t)'
  BY <1>2 DEF SignedAmount
<1> QED BY <1>2, <1>4, <1>5, <1>6, <1>7

LEMMA LineStepMatches ==
  ASSUME TreasuryTypeOK, RowsExist, HeldIsSound, MatchesAreSound, RowsStay, NEW r \in Request,
         LineStep(r)
  PROVE  /\ \A l, b \in StatementLine : l # b => ~Twice(l, b)'
         /\ \A l \in StatementLine : MachineIsRight(l)'
<1>0. /\ \A l, b \in StatementLine : l # b => ~Twice(l, b)
      /\ \A l \in StatementLine : MachineIsRight(l)
  BY MatchesAreSoundOfEach
<1>1. UNCHANGED <<transaction, reconciliation>>
  BY LineStepEffect
<1>2. \A l \in StatementLine :
        line'[l] = line[l] \/ Added(r, l) \/ MatchedByMachine(r, l) \/ MatchedByHand(r, l)
  BY LineStepEffect
<1>3. ASSUME NEW l \in StatementLine, MatchedByMachine(r, l)
      PROVE  /\ IsLine(l) /\ <<l, line'[l].tx>> \in request[r].matched
             /\ line'[l].reconciliation = line[l].reconciliation /\ line'[l].amount = line[l].amount
  <2>1. PICK t \in Transaction : <<l, t>> \in request[r].matched /\ line'[l] = Matched(line[l], t, "AUTO")
    BY <1>3 DEF MatchedByMachine
  <2>2. IsLine(l) /\ line[l] \in LineRow
    BY <1>3, Rows DEF MatchedByMachine
  <2> QED BY <2>1, <2>2 DEF Matched, LineRow
<1>4. ASSUME NEW l \in StatementLine, MatchedByHand(r, l)
      PROVE  /\ IsLine(l) /\ line'[l].tx = request[r].tx /\ line'[l].method = "MANUAL"
             /\ l = request[r].line /\ ~Taken(r, l, request[r].tx)
  <2>1. line[l] \in LineRow
    BY <1>4, Rows DEF MatchedByHand
  <2> QED BY <1>4, <2>1 DEF MatchedByHand, Matched, LineRow
<1>5. request[r].pc = "auto" => /\ AutoStands(request[r])
                                /\ request[r].matched \subseteq StatementLine \X Transaction
  BY HeldIsSoundOfEach, RequestFields DEF InAuto
<1>6. ASSUME NEW l \in StatementLine, NEW b \in StatementLine, l # b, Twice(l, b)' PROVE FALSE
  <2> PICK t \in Transaction : t = line'[l].tx
    BY <1>6 DEF Twice
  <2>1. line'[b].tx = t /\ line'[l].status = "LINE" /\ line'[b].status = "LINE"
    BY <1>6 DEF Twice, IsLine
  <2>2. ~Added(r, l) /\ ~Added(r, b)
    BY <2>1 DEF Added
  <2>3. ASSUME line'[l] = line[l], line'[b] = line[b] PROVE FALSE
    BY <1>0, <1>6, <2>1, <2>3 DEF Twice, IsLine
  <2>4. ASSUME NEW c \in StatementLine, NEW d \in StatementLine, c # d,
               line'[c].tx = t, line'[d].tx = t, line'[c].status = "LINE", line'[d].status = "LINE",
               MatchedByMachine(r, c), line'[d] = line[d] \/ MatchedByMachine(r, d)
        PROVE  FALSE
    <3> PICK q : q = request[r]
      OBVIOUS
    <3>1. AutoStands(q) /\ q.matched \subseteq StatementLine \X Transaction /\ q.pc = "auto"
      BY <1>5, <2>4 DEF MatchedByMachine
    <3>2. <<c, t>> \in q.matched
      BY <1>3, <2>4
    <3>3. ASSUME NEW u \in Transaction, <<d, u>> \in q.matched PROVE u # t
      <4>1. <<d, u>>[2] = <<c, t>>[2] => <<d, u>> = <<c, t>>
        BY <3>1, <3>2, <3>3 DEF AutoStands
      <4> QED BY <2>4, <4>1
    <3>4. CASE MatchedByMachine(r, d)
      <4>1. <<d, t>> \in q.matched
        BY <1>3, <2>4, <3>4
      <4> QED BY <3>3, <4>1
    <3>5. CASE line'[d] = line[d]
      <4>1. IsLine(d) /\ line[d].tx = <<c, t>>[2]
        BY <2>4, <3>5 DEF IsLine
      <4>2. PICK n \in q.matched : n[1] = d
        BY <3>1, <3>2, <4>1 DEF AutoStands
      <4>3. PICK u \in Transaction : n = <<d, u>>
        BY <3>1, <4>2
      <4>4. line'[d] = Matched(line[d], u, "AUTO")
        BY <3>1, <4>2, <4>3, LineStepEffect
      <4>5. line[d] \in LineRow
        BY <4>1, Rows
      <4>6. line'[d].tx = u
        BY <4>4, <4>5 DEF Matched, LineRow
      <4> QED BY <2>4, <3>3, <4>2, <4>3, <4>6
    <3> QED BY <2>4, <3>4, <3>5
  <2>5. ASSUME NEW c \in StatementLine, NEW d \in StatementLine, c # d,
               line'[c].tx = t, line'[d].tx = t, line'[d].status = "LINE",
               MatchedByHand(r, c), line'[d] = line[d]
        PROVE  FALSE
    <3>1. request[r].tx = t /\ ~Taken(r, c, t)
      BY <1>4, <2>5
    <3>2. Held(r) = {}
      BY <2>5 DEF MatchedByHand, Held
    <3>3. MatchSeen(r, d) = line[d].tx
      BY <3>2 DEF MatchSeen
    <3>4. IsLine(d) /\ line[d].tx = t
      BY <2>5 DEF IsLine
    <3> QED BY <2>5, <3>1, <3>3, <3>4 DEF Taken
  <2>6. ~(MatchedByHand(r, l) /\ MatchedByHand(r, b))
    BY <1>4, <1>6
  <2>7. ~(MatchedByHand(r, l) /\ MatchedByMachine(r, b)) /\ ~(MatchedByMachine(r, l) /\ MatchedByHand(r, b))
    BY DEF MatchedByHand, MatchedByMachine
  <2>8. CASE MatchedByMachine(r, l)
    BY <1>2, <1>6, <2>1, <2>2, <2>4, <2>7, <2>8
  <2>9. CASE MatchedByMachine(r, b)
    BY <1>2, <1>6, <2>1, <2>2, <2>4, <2>7, <2>9
  <2>10. CASE MatchedByHand(r, l)
    BY <1>2, <1>6, <2>1, <2>2, <2>5, <2>6, <2>7, <2>10
  <2>11. CASE MatchedByHand(r, b)
    BY <1>2, <1>6, <2>1, <2>2, <2>5, <2>6, <2>7, <2>11
  <2> QED BY <1>2, <2>2, <2>3, <2>8, <2>9, <2>10, <2>11
<1>7. ASSUME NEW l \in StatementLine PROVE MachineIsRight(l)'
  <2>1. CASE line'[l] = line[l]
    BY <1>0, <2>1, MachineStaysRight
  <2>2. CASE Added(r, l)
    BY <2>2 DEF Added, MachineIsRight
  <2>3. CASE MatchedByHand(r, l)
    BY <1>4, <2>3 DEF MachineIsRight
  <2>4. CASE MatchedByMachine(r, l)
    <3>1. PICK t \in Transaction : t = line'[l].tx /\ <<l, t>> \in request[r].matched
      <4>1. request[r].pc = "auto" /\ <<l, line'[l].tx>> \in request[r].matched
        BY <1>3, <2>4 DEF MatchedByMachine
      <4> QED BY <1>5, <4>1
    <3>2. Fits(<<l, t>>[1], <<l, t>>[2], request[r].reconciliation)
      BY <1>5, <2>4, <3>1 DEF AutoStands, MatchedByMachine
    <3>3. SignedAmount(t) = line[l].amount
          /\ transaction[t].account = reconciliation[line[l].reconciliation].account
      BY <3>2 DEF Fits, SameAmount
    <3>4. line'[l].reconciliation = line[l].reconciliation /\ line'[l].amount = line[l].amount
      BY <1>3, <2>4
    <3>5. SignedAmount(t)' = SignedAmount(t)
      BY <1>1 DEF SignedAmount
    <3>6. SignedAmount(line[l].tx)' = SignedAmount(t)'
      BY <3>1 DEF SignedAmount
    <3> QED BY <1>1, <3>1, <3>3, <3>4, <3>5, <3>6 DEF MachineIsRight
  <2> QED BY <1>2, <2>1, <2>2, <2>3, <2>4
<1> QED BY <1>6, <1>7

LEMMA NextMatchesAreSound ==
  ASSUME TreasuryTypeOK, TreasuryTypeOK', RowsExist, HeldIsSound, MatchesAreSound, RowsStay,
         [TreasuryNext]_treasuryVars
  PROVE  MatchesAreSound'
<1>0. /\ \A l, b \in StatementLine : l # b => ~Twice(l, b)
      /\ \A l \in StatementLine : MachineIsRight(l)
  BY MatchesAreSoundOfEach
<1>1. SUFFICES /\ \A l, b \in StatementLine : l # b => ~Twice(l, b)'
               /\ \A l \in StatementLine : MachineIsRight(l)'
  <2>1. \A l \in StatementLine : IsLine(l)' => (line'[l].tx \in Transaction <=> line'[l].tx # NoTransaction)
    BY DEF TreasuryTypeOK, LineRow, IsLine, Absent
  <2> QED BY <2>1 DEF MatchesAreSound, Twice, MachineIsRight
<1>2. ASSUME line' = line
      PROVE  /\ \A l, b \in StatementLine : l # b => ~Twice(l, b)'
             /\ \A l \in StatementLine : MachineIsRight(l)'
  <2>1. \A l \in StatementLine : MachineIsRight(l)'
    BY <1>0, <1>2, MachineStaysRight
  <2>2. \A l, b \in StatementLine : Twice(l, b)' <=> Twice(l, b)
    BY <1>2 DEF Twice, IsLine
  <2> QED BY <1>0, <2>1, <2>2
<1>3. ASSUME NEW l \in StatementLine, Unmatch(l)
      PROVE  /\ \A c, b \in StatementLine : c # b => ~Twice(c, b)'
             /\ \A c \in StatementLine : MachineIsRight(c)'
  <2>1. /\ line'[l] = Matched(line[l], NoTransaction, "NONE") /\ IsLine(l)
        /\ \A b \in StatementLine \ {l} : line'[b] = line[b]
    BY <1>3, UnmatchEffect
  <2>2. line'[l].tx = NoTransaction
    BY <2>1, Rows DEF Matched, LineRow
  <2>3. ASSUME NEW c \in StatementLine, NEW b \in StatementLine, c # b, Twice(c, b)' PROVE FALSE
    <3>1. c # l /\ b # l
      BY <2>2, <2>3 DEF Twice
    <3>2. line'[c] = line[c] /\ line'[b] = line[b]
      BY <2>1, <3>1
    <3> QED BY <1>0, <2>3, <3>2 DEF Twice, IsLine
  <2>4. ASSUME NEW c \in StatementLine PROVE MachineIsRight(c)'
    <3>1. CASE c = l
      BY <2>2, <3>1 DEF MachineIsRight
    <3>2. CASE c # l
      BY <1>0, <2>1, <3>2, MachineStaysRight
    <3> QED BY <3>1, <3>2
  <2> QED BY <2>3, <2>4
<1>4. ASSUME NEW r \in Request, LineStep(r)
      PROVE  /\ \A l, b \in StatementLine : l # b => ~Twice(l, b)'
             /\ \A l \in StatementLine : MachineIsRight(l)'
  BY <1>4, LineStepMatches
<1>5. ASSUME NEW r \in Request, LocalStep(r) PROVE line' = line
  BY <1>5, LocalStepIsLocal
<1>6. ASSUME NEW r \in Request, Complete(r) PROVE line' = line
  BY <1>6, CompleteEffect
<1>7. ASSUME NEW r \in Request, NEW t \in Transaction, RecordMove(r, t) PROVE line' = line
  BY <1>7, RecordMoveEffect
<1>8. UNCHANGED treasuryVars => line' = line
  BY DEF treasuryVars
<1>9. AccountStep => line' = line
  BY AccountStepEffect
<1>10. ASSUME NEW a \in Account, NEW b \in Account, NEW out \in Transaction, NEW in \in Transaction,
              NEW amount \in Amount, NEW date \in Day, Transfer(a, b, out, in, amount, date)
       PROVE  line' = line
  BY <1>10, TransferEffect
<1>11. ASSUME NEW k \in Reconciliation, NEW a \in Account, NEW date \in Day, NEW stated \in Balance,
              Create(k, a, date, stated)
       PROVE  line' = line
  BY <1>11, CreateEffect
<1>12. ASSUME NEW a \in Account, NEW t \in Transaction, NEW type \in {"DEPOSIT", "WITHDRAWAL"},
              NEW amount \in Amount, NEW date \in Day, Move(a, t, type, amount, date)
       PROVE  line' = line
  BY <1>12 DEF Move
<1> QED BY <1>2, <1>3, <1>4, <1>5, <1>6, <1>7, <1>8, <1>9, <1>10, <1>11, <1>12, Steps
-----------------------------------------------------------------------------
(* What is not in transit is what the lines of the statement are matched   *)
(* to, one line to a movement, when the matches fit.                       *)
LEMMA MatchedSum ==
  ASSUME TreasuryTypeOK, MatchesAreSound, NEW k \in Reconciliation, MatchesFit(k)
  PROVE  SumOf(InStatement(k) \ NotMatchedHere(k)) = SumOfLines(LinesOf(k) \ Unmatched(k))
<1> DEFINE L == LinesOf(k) \ Unmatched(k)
           M == InStatement(k) \ NotMatchedHere(k)
           f == [l \in StatementLine |-> line[l].amount]
           h == [l \in L |-> line[l].tx]
           g == [t \in Transaction |-> SignedAmount(t)]
<1>1. IsFiniteSet(L) /\ L \subseteq StatementLine /\ \A l \in L : IsLine(l)
  <2>1. LinesOf(k) \subseteq StatementLine /\ IsFiniteSet(LinesOf(k))
    BY FiniteSets
  <2>2. IsFiniteSet(L)
    BY <2>1, FS_Subset
  <2> QED BY <2>1, <2>2 DEF LinesOf
<1>2. \A l \in L : line[l].tx \in InStatement(k) /\ SignedAmount(line[l].tx) = line[l].amount
  BY DEF MatchesFit
<1>3. \A l \in L : line[l].tx \in M
  BY <1>2 DEF NotMatchedHere
<1>4. \A t \in M : \E l \in L : line[l].tx = t
  <2> SUFFICES ASSUME NEW t \in M PROVE \E l \in L : line[l].tx = t
    OBVIOUS
  <2>1. t \in Transaction /\ \E l \in LinesOf(k) : line[l].tx = t
    BY DEF NotMatchedHere, InStatement
  <2> QED BY <2>1 DEF Unmatched
<1>5. M = {h[l] : l \in L}
  BY <1>3, <1>4
<1>6. \A l \in L : f[l] \in Int /\ g[h[l]] = f[l]
  <2>1. \A l \in L : line[l].tx \in Transaction
    BY <1>2 DEF InStatement
  <2> QED BY <1>1, <1>2, <2>1, Amounts
<1>7. \A l, b \in L : h[l] = h[b] => l = b
  <2> SUFFICES ASSUME NEW l \in L, NEW b \in L, line[l].tx = line[b].tx, l # b PROVE FALSE
    OBVIOUS
  <2>1. line[l].tx # NoTransaction
    BY <1>2 DEF InStatement
  <2> QED BY <1>1, <2>1 DEF MatchesAreSound
<1>8. SumOf(M) = SumFunctionOnSet(g, M) /\ SumOfLines(L) = SumFunctionOnSet(f, L)
  BY DEF SumOf, SumOfLines
<1> HIDE DEF L, M, f, g, h
<1>9. SumFunctionOnSet(g, {h[l] : l \in L}) = SumFunctionOnSet(f, L)
  BY ONLY <1>1, <1>6, <1>7, SumImage
<1>10. SumFunctionOnSet(g, M) = SumFunctionOnSet(f, L)
  BY ONLY <1>5, <1>9, Zenon
<1> QED BY <1>8, <1>10 DEF L, M

(* A sum over transactions, or over lines, falls into two parts.           *)
LEMMA Parts ==
  ASSUME TreasuryTypeOK, NEW k \in Reconciliation
  PROVE  /\ BookBalance(k) = InTransit(k) + SumOf(InStatement(k) \ NotMatchedHere(k))
         /\ SumOfLines(LinesOf(k)) = UnmatchedBank(k) + SumOfLines(LinesOf(k) \ Unmatched(k))
         /\ InTransit(k) \in Int /\ UnmatchedBank(k) \in Int
         /\ SumOfLines(LinesOf(k) \ Unmatched(k)) \in Int
<1>1. ASSUME NEW f, NEW S, NEW T \in SUBSET S, IsFiniteSet(S), \A x \in S : f[x] \in Int
      PROVE  /\ SumFunctionOnSet(f, S) = SumFunctionOnSet(f, T) + SumFunctionOnSet(f, S \ T)
             /\ SumFunctionOnSet(f, T) \in Int /\ SumFunctionOnSet(f, S \ T) \in Int
  <2>1. IsFiniteSet(T) /\ IsFiniteSet(S \ T)
    BY <1>1, FS_Subset
  <2> DEFINE U == S \ T
  <2>2. T \cup U = S /\ T \cap U = {} /\ IsFiniteSet(U) /\ \A x \in T \cup U : f[x] \in Int
    BY <1>1, <2>1
  <2>3. (\A x \in T : f[x] \in Int) /\ (\A x \in U : f[x] \in Int)
    BY <1>1
  <2> HIDE DEF U
  <2>4. SumFunctionOnSet(f, T \cup U) = SumFunctionOnSet(f, T) + SumFunctionOnSet(f, U)
    BY ONLY <2>1, <2>2, SumDisjoint
  <2>5. SumFunctionOnSet(f, S) = SumFunctionOnSet(f, T) + SumFunctionOnSet(f, U)
    BY ONLY <2>2, <2>4, Zenon
  <2>6. SumFunctionOnSet(f, T) \in Int /\ SumFunctionOnSet(f, U) \in Int
    BY <2>1, <2>2, <2>3, SumInt
  <2> QED BY <2>5, <2>6 DEF U
<1> DEFINE S == InStatement(k)
           T == NotMatchedHere(k)
           f == [t \in Transaction |-> SignedAmount(t)]
           X == LinesOf(k)
           Y == Unmatched(k)
           g == [l \in StatementLine |-> line[l].amount]
<1>4. T \in SUBSET S /\ IsFiniteSet(S) /\ Y \in SUBSET X /\ IsFiniteSet(X)
  BY FiniteSets DEF NotMatchedHere, Unmatched
<1>5. \A t \in S : f[t] \in Int
  BY Amounts DEF InStatement
<1>6. \A l \in X : g[l] \in Int
  BY Amounts DEF LinesOf
<1>7. /\ SumOf(S) = SumFunctionOnSet(f, S) /\ SumOf(T) = SumFunctionOnSet(f, T)
      /\ SumOf(S \ T) = SumFunctionOnSet(f, S \ T)
  BY DEF SumOf
<1>8. /\ SumOfLines(X) = SumFunctionOnSet(g, X) /\ SumOfLines(Y) = SumFunctionOnSet(g, Y)
      /\ SumOfLines(X \ Y) = SumFunctionOnSet(g, X \ Y)
  BY DEF SumOfLines
<1>9. BookBalance(k) = SumOf(S) /\ InTransit(k) = SumOf(T) /\ UnmatchedBank(k) = SumOfLines(Y)
  BY DEF BookBalance, InTransit, UnmatchedBank
<1> HIDE DEF S, T, f, X, Y, g
<1>10. /\ SumFunctionOnSet(f, S) = SumFunctionOnSet(f, T) + SumFunctionOnSet(f, S \ T)
       /\ SumFunctionOnSet(f, T) \in Int /\ SumFunctionOnSet(f, S \ T) \in Int
  BY <1>1, <1>4, <1>5
<1>11. /\ SumFunctionOnSet(g, X) = SumFunctionOnSet(g, Y) + SumFunctionOnSet(g, X \ Y)
       /\ SumFunctionOnSet(g, Y) \in Int /\ SumFunctionOnSet(g, X \ Y) \in Int
  BY <1>1, <1>4, <1>6
<1>12. /\ SumOf(S) = SumOf(T) + SumOf(S \ T) /\ SumOf(T) \in Int
       /\ SumOfLines(X) = SumOfLines(Y) + SumOfLines(X \ Y)
       /\ SumOfLines(Y) \in Int /\ SumOfLines(X \ Y) \in Int
  BY <1>7, <1>8, <1>10, <1>11
<1> QED BY <1>9, <1>12 DEF S, T, X, Y

LEMMA SoundMatchesIgnoreBook ==
  ASSUME TreasuryTypeOK, MatchesAreSound
  PROVE  DifferenceIgnoresBook
<1> SUFFICES ASSUME NEW k \in Reconciliation, reconciliation[k] # Absent, MatchesFit(k)
             PROVE  Difference(k) = reconciliation[k].balance - SumOfLines(LinesOf(k))
  BY DEF DifferenceIgnoresBook
<1>1. reconciliation[k].balance \in Int
  BY Rows DEF ReconciliationRow
<1>2. /\ BookBalance(k) = InTransit(k) + SumOf(InStatement(k) \ NotMatchedHere(k))
      /\ SumOfLines(LinesOf(k)) = UnmatchedBank(k) + SumOfLines(LinesOf(k) \ Unmatched(k))
      /\ InTransit(k) \in Int /\ UnmatchedBank(k) \in Int
      /\ SumOfLines(LinesOf(k) \ Unmatched(k)) \in Int
  BY Parts
<1>3. SumOf(InStatement(k) \ NotMatchedHere(k)) = SumOfLines(LinesOf(k) \ Unmatched(k))
  BY MatchedSum
<1> QED BY <1>1, <1>2, <1>3 DEF Difference
-----------------------------------------------------------------------------
LEMMA AllExplainedIs ==
  AllExplained <=> NothingBefore /\ BalanceExplained
BY DEF AllExplained, AccountExplained, NothingBefore, BalanceExplained

LEMMA NextTreasury == TreasuryInv /\ [TreasuryNext]_treasuryVars => TreasuryInv'
<1> SUFFICES ASSUME TreasuryInv, [TreasuryNext]_treasuryVars PROVE TreasuryInv'
  OBVIOUS
<1>1. TreasuryTypeOK /\ NothingBefore /\ BalanceExplained /\ RowsExist /\ HeldIsSound /\ MatchesAreSound
  BY DEF TreasuryInv
<1>2. RowsStay
  BY <1>1, NextRowsStay
<1>3. TreasuryTypeOK'
  BY <1>1, NextTypes
<1>4. AllExplained'
  BY <1>1, AllExplainedIs, NextAllExplained
<1>5. NothingBefore' /\ BalanceExplained'
  BY <1>4 DEF AllExplained, AccountExplained, NothingBefore, BalanceExplained
<1>6. RowsExist'
  BY <1>1, <1>2, NextRowsExist
<1>7. HeldIsSound'
  BY <1>1, <1>2, NextHeldIsSound
<1>8. MatchesAreSound'
  BY <1>1, <1>2, <1>3, NextMatchesAreSound
<1> QED BY <1>3, <1>5, <1>6, <1>7, <1>8 DEF TreasuryInv

(* The books of the bank hold in every state.                              *)
LEMMA TreasuryInvariant == TreasurySpec => []TreasuryInv
<1>1. TreasuryInit => TreasuryInv
  BY InitTreasury
<1>2. TreasuryInv /\ [TreasuryNext]_treasuryVars => TreasuryInv'
  BY NextTreasury
<1> QED BY <1>1, <1>2, PTL DEF TreasurySpec

(* The balance of a treasury account is its opening balance, what was      *)
(* collected into it and what its transactions did to it, and never        *)
(* negative (createTransaction, transfer and recordLine, RevenueService).  *)
THEOREM BalancesAreExplained == TreasurySpec => []BalanceExplained
<1>1. TreasuryInv => BalanceExplained
  BY DEF TreasuryInv
<1> QED BY <1>1, TreasuryInvariant, PTL

(* However autoMatch, match, recordLine and unmatch interleave, no         *)
(* transaction closes two lines, and what the machine matched fits.        *)
THEOREM MatchesAreAlwaysSound == TreasurySpec => []MatchesAreSound
<1>1. TreasuryInv => MatchesAreSound
  BY DEF TreasuryInv
<1> QED BY <1>1, TreasuryInvariant, PTL

(* The difference summary shows is, where the matches fit, the stated      *)
(* balance minus the lines of the statement, whatever the book holds.      *)
THEOREM DifferenceAlwaysIgnoresBook == TreasurySpec => []DifferenceIgnoresBook
<1>1. TreasuryInv => DifferenceIgnoresBook
  BY SoundMatchesIgnoreBook DEF TreasuryInv
<1> QED BY <1>1, TreasuryInvariant, PTL
=============================================================================
