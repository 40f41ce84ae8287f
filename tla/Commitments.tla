---------------------------- MODULE Commitments ----------------------------
(***************************************************************************)
(* Budget commitments (BudgetCommitmentService): a line of a budget has an *)
(* approved amount and perhaps an allocation; commitments reserve it and   *)
(* become expenses or are released.                                        *)
(*                                                                         *)
(* commit locks the line (FOR UPDATE), settle and release lock the         *)
(* commitment and then update its line, allocate locks nothing between its *)
(* read and its write.  A step that updates a line waits for its lock.     *)
(*                                                                         *)
(* Data abstraction: one company; the titles, notes and users are left     *)
(* out; the primary key of a commitment is a fresh member of Commitment.   *)
(***************************************************************************)
EXTENDS FiniteSetsExt, Integers

CONSTANTS Line,       \* ids of budget lines
          Commitment, \* ids of commitments
          Source,     \* the documents that commit (contracts, purchases)
          NoSource,   \* sourceId is null
          Request,    \* concurrent requests
          MaxAmount   \* bound: the largest amount of a request

ASSUME CommitmentsConstants ==
  /\ MaxAmount \in Nat
  /\ NoSource \notin Source
  /\ IsFiniteSet(Commitment)

VARIABLES line,       \* BudgetLine rows
          commitment, \* BudgetCommitment rows
          request     \* the requests and their locals

vars == <<line, commitment, request>>

NoAllocation == -1
Absent == [status |-> "NONE"]
Gone == [status |-> "GONE"]
Idle == [pc |-> "idle"]

LineRow == [status : {"LIVE"}, amount : Nat, allocated : Nat \cup {NoAllocation},
            committed : Nat, spent : Nat]

CommitmentRow == [status : {"OPEN", "SETTLED", "RELEASED"}, line : Line,
                  source : Source \cup {NoSource}, amount : Nat \ {0}]

RequestStates ==
  [pc : {"committing"}, line : Line, amount : Nat \ {0}, source : Source \cup {NoSource}]
  \cup [pc : {"settling", "releasing"}, commitment : Commitment]
  \cup [pc : {"allocating"}, line : Line, value : Nat]
  \cup {Idle}

TypeOK ==
  /\ line \in [Line -> LineRow \cup {Absent, Gone}]
  /\ commitment \in [Commitment -> CommitmentRow \cup {Absent}]
  /\ request \in [Request -> RequestStates]

Init ==
  /\ line = [l \in Line |-> Absent]
  /\ commitment = [c \in Commitment |-> Absent]
  /\ request = [r \in Request |-> Idle]
-----------------------------------------------------------------------------
Live(l) == line[l].status = "LIVE"
Open(c) == commitment[c].status = "OPEN"

Base(row) == IF row.allocated = NoAllocation THEN row.amount ELSE row.allocated
Used(row) == row.committed + row.spent

\* Mutant: what was spent is not subtracted.
AvailableBeforeSpending(row) == Base(row) - row.committed

Available(row) == Base(row) - Used(row)

\* Mutant: the line is read without FOR UPDATE.
LineFreeAlways(r, l) == TRUE

\* FOR UPDATE OF l: no other request is committing on the line.
LineFree(r, l) ==
  \A x \in Request \ {r} : request[x].pc = "committing" => request[x].line # l

\* Mutant: the commitment is read without FOR UPDATE.
CommitmentFreeAlways(r, c) == TRUE

\* FOR UPDATE: no other request is closing the commitment.
CommitmentFree(r, c) ==
  \A x \in Request \ {r} :
    request[x].pc \in {"settling", "releasing"} => request[x].commitment # c

\* Mutant: BudgetCommitment_source_uniq does not exist, nor the check before it.
SourceBusyNever(s) == FALSE

\* BudgetCommitment_source_uniq: a document has one open commitment.
SourceBusy(s) == s # NoSource /\ \E c \in Commitment : Open(c) /\ commitment[c].source = s

Done(r) == request' = [request EXCEPT ![r] = Idle]
-----------------------------------------------------------------------------
CreateLine(l, amount, allocated) ==
  /\ line[l] = Absent
  /\ allocated <= amount
  /\ line' = [line EXCEPT ![l] = [status |-> "LIVE", amount |-> amount,
                                  allocated |-> allocated, committed |-> 0, spent |-> 0]]
  /\ UNCHANGED <<commitment, request>>

(* commit: the line is locked, its availability checked against it, and the *)
(* row is inserted unless the source has an open commitment already.        *)
CommitLock(r, l, amount, source) ==
  /\ request[r] = Idle /\ Live(l) /\ LineFree(r, l)
  /\ amount > 0 /\ amount <= Available(line[l])
  /\ request' = [request EXCEPT ![r] = [pc |-> "committing", line |-> l,
                                        amount |-> amount, source |-> source]]
  /\ UNCHANGED <<line, commitment>>

CommitWrite(r, c) ==
  LET q == request[r] IN
  /\ q.pc = "committing" /\ commitment[c] = Absent
  /\ IF SourceBusy(q.source)
     THEN UNCHANGED <<line, commitment>>
     ELSE /\ commitment' = [commitment EXCEPT ![c] = [status |-> "OPEN", line |-> q.line,
                                                      source |-> q.source, amount |-> q.amount]]
          /\ line' = [line EXCEPT ![q.line].committed = @ + q.amount]
  /\ Done(r)

CloseLock(r, c, pc) ==
  /\ request[r] = Idle /\ Open(c) /\ CommitmentFree(r, c)
  /\ request' = [request EXCEPT ![r] = [pc |-> pc, commitment |-> c]]
  /\ UNCHANGED <<line, commitment>>

\* Mutant: the whole commitment becomes spent.
SpentInFull(actual, committed) == committed

\* What a settlement spends: the actual amount, the rest is free again.
Spent(actual, committed) == actual

\* CHECK (amount > 0) of BudgetCommitment: a settlement of zero fails on it.
Positive(amount) == amount > 0

\* BudgetLine_nonneg, for what a closing commitment takes back.
Covered(row) == line[row.line].committed >= row.amount

Settle(r, actual) ==
  LET c == request[r].commitment  row == commitment[c] IN
  /\ request[r].pc = "settling" /\ actual <= row.amount /\ LineFree(r, row.line)
  /\ IF Positive(actual) /\ Covered(row)
     THEN /\ commitment' = [commitment EXCEPT ![c].status = "SETTLED", ![c].amount = actual]
          /\ line' = [line EXCEPT ![row.line].committed = @ - row.amount,
                                  ![row.line].spent = @ + Spent(actual, row.amount)]
     ELSE UNCHANGED <<line, commitment>>
  /\ Done(r)

Release(r) ==
  LET c == request[r].commitment  row == commitment[c] IN
  /\ request[r].pc = "releasing" /\ LineFree(r, row.line)
  /\ IF Covered(row)
     THEN /\ commitment' = [commitment EXCEPT ![c].status = "RELEASED"]
          /\ line' = [line EXCEPT ![row.line].committed = @ - row.amount]
     ELSE UNCHANGED <<line, commitment>>
  /\ Done(r)

AllocateRead(r, l, value) ==
  /\ request[r] = Idle /\ Live(l)
  /\ value <= line[l].amount /\ value >= Used(line[l])
  /\ request' = [request EXCEPT ![r] = [pc |-> "allocating", line |-> l, value |-> value]]
  /\ UNCHANGED <<line, commitment>>

AllocateWrite(r) ==
  LET q == request[r] IN
  /\ q.pc = "allocating" /\ LineFree(r, q.line)
  /\ line' = IF Live(q.line) THEN [line EXCEPT ![q.line].allocated = q.value] ELSE line
  /\ Done(r)
  /\ UNCHANGED commitment

(* Deleting a budget deletes its lines and their commitments (CASCADE).     *)
RemoveLine(l) ==
  /\ Live(l)
  /\ \A r \in Request :
       /\ request[r].pc = "committing" => request[r].line # l
       /\ request[r].pc \in {"settling", "releasing"}
            => commitment[request[r].commitment].line # l
  /\ line' = [line EXCEPT ![l] = Gone]
  /\ commitment' = [c \in Commitment |->
       IF commitment[c] # Absent /\ commitment[c].line = l THEN Absent ELSE commitment[c]]
  /\ UNCHANGED request
-----------------------------------------------------------------------------
Amounts == 0..MaxAmount

Next ==
  \/ \E l \in Line, a \in Amounts, b \in Amounts \cup {NoAllocation} : CreateLine(l, a, b)
  \/ \E l \in Line : RemoveLine(l)
  \/ \E r \in Request :
       \/ \E l \in Line, a \in Amounts, s \in Source \cup {NoSource} : CommitLock(r, l, a, s)
       \/ \E c \in Commitment : CommitWrite(r, c)
       \/ \E c \in Commitment, pc \in {"settling", "releasing"} : CloseLock(r, c, pc)
       \/ \E a \in Amounts : Settle(r, a)
       \/ Release(r)
       \/ \E l \in Line, a \in Amounts : AllocateRead(r, l, a)
       \/ AllocateWrite(r)

Spec == Init /\ [][Next]_vars
-----------------------------------------------------------------------------
(* Of a line, the part that is approved and not computed.                   *)
Approved(l) ==
  IF Live(l)
  THEN [status |-> "LIVE", amount |-> line[l].amount, allocated |-> line[l].allocated]
  ELSE line[l]

Book == INSTANCE CreditBook WITH credit <- [l \in Line |-> Approved(l)], book <- commitment

(* A commitment that is locked, checked and written in separate steps takes  *)
(* effect in one, against the credit the book leaves at that moment, and is  *)
(* settled or released once: locks and running totals implement the book.    *)
ImplementsBook == Book!Spec

(* The book of commitments explains every line: what it has committed is its *)
(* open commitments, what it has spent its settled ones, however commits,    *)
(* settlements and releases interleave.                                      *)
BookExplainsLine ==
  \A l \in Line : Live(l) =>
    /\ line[l].committed = Book!Total(l, "OPEN")
    /\ line[l].spent = Book!Total(l, "SETTLED")

(* What is committed and spent of a line never exceeds what was approved for *)
(* it: concurrent commitments see each other's reservations, and even an     *)
(* allocation that is written late cannot go beyond the approved amount.     *)
NeverOverApproved == \A l \in Line : Live(l) => Used(line[l]) <= line[l].amount

(* One document has at most one open commitment, on whichever lines the      *)
(* requests that repeat it try to commit.                                    *)
OneOpenPerSource ==
  \A c, d \in Commitment :
    Open(c) /\ Open(d) /\ commitment[c].source = commitment[d].source
      => c = d \/ commitment[c].source = NoSource

(* An allocation cannot fall below what is committed and spent, so the       *)
(* available credit is never negative.                                       *)
AvailableIsNotNegative == \A l \in Line : Live(l) => Available(line[l]) >= 0
=============================================================================
