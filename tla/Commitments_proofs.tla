------------------------- MODULE Commitments_proofs -------------------------
(***************************************************************************)
(* Proofs about Commitments, for any lines, commitments, documents and     *)
(* number of concurrent requests.                                          *)
(*                                                                         *)
(* That a line is never committed beyond its approval is not inductive: a  *)
(* commitment that was checked and not yet written needs the credit it     *)
(* found to be there still (Reserved), which the lock gives it because two *)
(* requests never hold one line (OneHolder), and an allocation on its way  *)
(* has to stay below the approved amount (PendingAllocation).              *)
(***************************************************************************)
EXTENDS Commitments, Lemmas

Closing(r) == request[r].pc \in {"settling", "releasing"}

Reserved ==
  \A r \in Request : request[r].pc = "committing" =>
    /\ Live(request[r].line)
    /\ request[r].amount <= Available(line[request[r].line])

OneHolder ==
  \A r, x \in Request : r # x =>
    /\ request[r].pc = "committing" /\ request[x].pc = "committing"
         => request[r].line # request[x].line
    /\ Closing(r) /\ Closing(x) => request[r].commitment # request[x].commitment

HeldIsOpen == \A r \in Request : Closing(r) => Open(request[r].commitment)

CommitmentsHaveLines == \A c \in Commitment : commitment[c] # Absent => Live(commitment[c].line)

AllocatedIsApproved == \A l \in Line : Live(l) => line[l].allocated <= line[l].amount

PendingAllocation ==
  \A r \in Request : request[r].pc = "allocating" =>
    /\ line[request[r].line] # Absent
    /\ Live(request[r].line) => request[r].value <= line[request[r].line].amount

IInv ==
  /\ TypeOK
  /\ Reserved /\ OneHolder /\ HeldIsOpen /\ CommitmentsHaveLines
  /\ AllocatedIsApproved /\ PendingAllocation /\ NeverOverApproved
-----------------------------------------------------------------------------
(* What the locals of a request are, by where it is.                       *)
LEMMA Locals ==
  ASSUME TypeOK, NEW r \in Request
  PROVE  /\ request[r].pc = "committing" =>
              /\ request[r].line \in Line /\ request[r].amount \in Nat \ {0}
              /\ request[r].source \in Source \cup {NoSource}
         /\ Closing(r) => request[r].commitment \in Commitment
         /\ request[r].pc = "allocating" => request[r].line \in Line /\ request[r].value \in Nat
         /\ request[r] = Idle => request[r].pc = "idle"
<1>1. request[r] \in RequestStates
  BY DEF TypeOK
<1> QED
  BY <1>1 DEF RequestStates, Idle, Closing

(* The rows of lines and commitments.                                      *)
LEMMA Rows ==
  ASSUME TypeOK
  PROVE  /\ \A l \in Line : Live(l) => line[l] \in LineRow
         /\ \A l \in Line : line[l] = Absent => ~Live(l)
         /\ \A c \in Commitment : commitment[c] # Absent => commitment[c] \in CommitmentRow
         /\ \A c \in Commitment : Open(c) => commitment[c] # Absent
BY DEF TypeOK, Live, Open, LineRow, CommitmentRow, Absent, Gone

(* What is known of a line in the numbers the steps compute with.          *)
LEMMA Credit ==
  ASSUME NEW row \in LineRow
  PROVE  /\ row.amount \in Nat /\ row.committed \in Nat /\ row.spent \in Nat
         /\ row.allocated \in Nat \cup {NoAllocation}
         /\ Used(row) = row.committed + row.spent /\ Used(row) \in Nat
         /\ Available(row) \in Int
         /\ row.allocated <= row.amount => Available(row) <= row.amount - Used(row)
BY DEF LineRow, Used, Available, Base, NoAllocation

(* A request that goes back to rest keeps what is said of requests that    *)
(* reserve, hold or allocate, when their rows are left alone.              *)
LEMMA Finishes ==
  ASSUME TypeOK, NEW r \in Request, Done(r)
  PROVE  /\ request' \in [Request -> RequestStates]
         /\ request'[r] = Idle /\ Idle.pc = "idle"
         /\ \A x \in Request : x # r => request'[x] = request[x]
BY DEF TypeOK, Done, RequestStates, Idle

LEMMA Moves ==
  ASSUME TypeOK, NEW r \in Request, NEW s \in RequestStates,
         request' = [request EXCEPT ![r] = s]
  PROVE  /\ request' \in [Request -> RequestStates]
         /\ request'[r] = s
         /\ \A x \in Request : x # r => request'[x] = request[x]
BY DEF TypeOK
-----------------------------------------------------------------------------
LEMMA InitHolds == ASSUME Init PROVE IInv /\ OneOpenPerSource
<1>1. TypeOK
  BY DEF Init, TypeOK, RequestStates
<1>2. \A r \in Request : request[r].pc = "idle"
  BY DEF Init, Idle
<1>3. \A l \in Line : ~Live(l)
  BY DEF Init, Live, Absent
<1>4. \A c \in Commitment : commitment[c] = Absent /\ ~Open(c)
  BY DEF Init, Open, Absent
<1> QED
  BY <1>1, <1>2, <1>3, <1>4 DEF IInv, Reserved, OneHolder, HeldIsOpen, Closing,
     CommitmentsHaveLines, AllocatedIsApproved, PendingAllocation, NeverOverApproved,
     OneOpenPerSource

(* A new line has nothing committed or spent.                              *)
LEMMA CreateLineKeeps ==
  ASSUME IInv, NEW l \in Line, NEW a \in Amounts, NEW b \in Amounts \cup {NoAllocation},
         CreateLine(l, a, b)
  PROVE  IInv'
<1> DEFINE row == [status |-> "LIVE", amount |-> a, allocated |-> b, committed |-> 0, spent |-> 0]
<1>1. TypeOK /\ b <= a /\ line[l] = Absent /\ UNCHANGED <<commitment, request>>
      /\ line' = [line EXCEPT ![l] = row]
  BY DEF IInv, CreateLine
<1>2. a \in Nat /\ b \in Nat \cup {NoAllocation}
  BY CommitmentsConstants DEF Amounts
<1>3. row \in LineRow
  BY <1>2 DEF LineRow
<1>4. TypeOK'
  BY <1>1, <1>3 DEF TypeOK
<1>5. line'[l] = row /\ ~Live(l) /\ \A m \in Line : m # l => line'[m] = line[m]
  BY <1>1, Rows DEF TypeOK
<1>6. Used(row) = 0 /\ Used(row) <= row.amount
  BY <1>2 DEF Used
<1>7. AllocatedIsApproved' /\ NeverOverApproved'
  BY <1>1, <1>2, <1>5, <1>6 DEF IInv, AllocatedIsApproved, NeverOverApproved, Live
<1>8. Reserved' /\ PendingAllocation'
  <2>1. \A r \in Request : request[r].pc \in {"committing", "allocating"} =>
          request[r].line \in Line /\ request[r].line # l
    BY <1>1, <1>5, Locals DEF IInv, Reserved, PendingAllocation
  <2> QED
    BY <1>1, <1>5, <2>1 DEF IInv, Reserved, PendingAllocation, Live, Available, Used, Base
<1>9. CommitmentsHaveLines'
  <2>1. \A c \in Commitment : commitment[c] # Absent =>
          commitment[c].line \in Line /\ commitment[c].line # l
    BY <1>1, <1>5, Rows DEF IInv, CommitmentsHaveLines, CommitmentRow
  <2> QED
    BY <1>1, <1>5, <2>1 DEF IInv, CommitmentsHaveLines, Live
<1>10. OneHolder' /\ HeldIsOpen'
  BY <1>1 DEF IInv, OneHolder, HeldIsOpen, Closing, Open
<1> QED
  BY <1>4, <1>7, <1>8, <1>9, <1>10 DEF IInv

(* The lock is taken on a line with enough credit that nobody else holds.  *)
LEMMA CommitLockKeeps ==
  ASSUME IInv, NEW r \in Request, NEW l \in Line, NEW a \in Amounts,
         NEW s \in Source \cup {NoSource}, CommitLock(r, l, a, s)
  PROVE  IInv'
<1> DEFINE q == [pc |-> "committing", line |-> l, amount |-> a, source |-> s]
<1>1. TypeOK /\ request[r] = Idle /\ Live(l) /\ LineFree(r, l) /\ a > 0
      /\ a <= Available(line[l]) /\ UNCHANGED <<line, commitment>>
      /\ request' = [request EXCEPT ![r] = q]
  BY DEF IInv, CommitLock
<1>2. q \in RequestStates
  BY <1>1, CommitmentsConstants DEF RequestStates, Amounts
<1>3. request' \in [Request -> RequestStates] /\ request'[r] = q
      /\ \A x \in Request : x # r => request'[x] = request[x]
  BY <1>1, <1>2, Moves
<1>4. TypeOK'
  BY <1>1, <1>3 DEF TypeOK
<1>5. Reserved' /\ HeldIsOpen' /\ PendingAllocation'
  BY <1>1, <1>3 DEF IInv, Reserved, HeldIsOpen, PendingAllocation, Closing, Live, Open,
     Available, Used, Base
<1>6. OneHolder'
  BY <1>1, <1>3 DEF IInv, OneHolder, Closing, LineFree
<1> QED
  BY <1>1, <1>4, <1>5, <1>6 DEF IInv, CommitmentsHaveLines, AllocatedIsApproved,
     NeverOverApproved, Live, Used

(* A request that finishes while lines and commitments stay as they are.   *)
LEMMA RestKeeps ==
  ASSUME IInv, NEW r \in Request, Done(r), UNCHANGED <<line, commitment>>
  PROVE  IInv'
<1>1. TypeOK /\ request' \in [Request -> RequestStates] /\ request'[r] = Idle
      /\ Idle.pc = "idle" /\ \A x \in Request : x # r => request'[x] = request[x]
  BY Finishes DEF IInv
<1>2. TypeOK'
  BY <1>1 DEF TypeOK
<1> QED
  BY <1>1, <1>2 DEF IInv, Reserved, OneHolder, HeldIsOpen, Closing, CommitmentsHaveLines,
     AllocatedIsApproved, PendingAllocation, NeverOverApproved, Live, Open, Available, Used, Base

(* A request that finishes with a row of one line replaced: the others     *)
(* keep what they were promised of theirs.                                 *)
LEMMA LineChangeKeeps ==
  ASSUME IInv, NEW r \in Request, Done(r), NEW l \in Line, NEW row \in LineRow,
         Live(l), LineFree(r, l), line' = [line EXCEPT ![l] = row],
         row.amount = line[l].amount, row.allocated <= row.amount, Used(row) <= row.amount
  PROVE  /\ line' \in [Line -> LineRow \cup {Absent, Gone}]
         /\ request' \in [Request -> RequestStates]
         /\ \A m \in Line : Live(m)' <=> Live(m)
         /\ Reserved' /\ AllocatedIsApproved' /\ PendingAllocation' /\ NeverOverApproved'
<1>1. TypeOK /\ request' \in [Request -> RequestStates] /\ request'[r] = Idle
      /\ Idle.pc = "idle" /\ \A x \in Request : x # r => request'[x] = request[x]
  BY Finishes DEF IInv
<1>2. line' \in [Line -> LineRow \cup {Absent, Gone}] /\ line'[l] = row
      /\ \A m \in Line : m # l => line'[m] = line[m]
  BY <1>1 DEF TypeOK
<1>3. \A m \in Line : Live(m)' <=> Live(m)
  BY <1>2 DEF Live, LineRow
<1>4. AllocatedIsApproved' /\ NeverOverApproved'
  BY <1>2, <1>3 DEF IInv, AllocatedIsApproved, NeverOverApproved, Used
<1>5. Reserved'
  <2>1. \A x \in Request : request'[x].pc = "committing" =>
          /\ request'[x] = request[x] /\ request[x].line \in Line
          /\ line'[request[x].line] = line[request[x].line]
    BY <1>1, <1>2, Locals DEF LineFree
  <2> QED
    BY <2>1 DEF IInv, Reserved, Live, Available, Used, Base
<1>6. PendingAllocation'
  <2>1. \A x \in Request : request'[x].pc = "allocating" =>
          /\ request'[x] = request[x] /\ request[x].line \in Line
          /\ line'[request[x].line] # Absent
          /\ Live(request[x].line)' => Live(request[x].line)
          /\ Live(request[x].line) => line'[request[x].line].amount = line[request[x].line].amount
    <3>1. row # Absent
      BY DEF LineRow, Absent
    <3>2. \A x \in Request : request'[x].pc = "allocating" =>
            request'[x] = request[x] /\ request[x].line \in Line
      BY <1>1, Locals
    <3> QED
      BY <1>2, <1>3, <3>1, <3>2 DEF IInv, PendingAllocation
  <2> QED
    BY <2>1 DEF IInv, PendingAllocation, Live
<1> QED
  BY <1>1, <1>2, <1>3, <1>4, <1>5, <1>6

(* The credit found under the lock is there when the commitment is written. *)
LEMMA CommitWriteKeeps ==
  ASSUME IInv, NEW r \in Request, NEW c \in Commitment, CommitWrite(r, c)
  PROVE  IInv'
<1> DEFINE q == request[r]
           new == [status |-> "OPEN", line |-> q.line, source |-> q.source, amount |-> q.amount]
           row == [line[q.line] EXCEPT !.committed = @ + q.amount]
<1>1. TypeOK /\ q.pc = "committing" /\ commitment[c] = Absent /\ Done(r)
  BY DEF IInv, CommitWrite
<1>2. q.line \in Line /\ q.amount \in Nat \ {0} /\ q.source \in Source \cup {NoSource}
      /\ Live(q.line) /\ q.amount <= Available(line[q.line])
  BY <1>1, Locals DEF IInv, Reserved
<1>3. CASE SourceBusy(q.source)
  BY <1>1, <1>3, RestKeeps DEF CommitWrite
<1>4. CASE ~SourceBusy(q.source)
  <2>1. commitment' = [commitment EXCEPT ![c] = new]
        /\ line' = [line EXCEPT ![q.line].committed = @ + q.amount]
    BY <1>4 DEF CommitWrite
  <2>2. line[q.line] \in LineRow
    BY <1>1, <1>2, Rows
  <2>3. row \in LineRow /\ row.amount = line[q.line].amount
        /\ row.allocated = line[q.line].allocated
    BY <1>2, <2>2 DEF LineRow
  <2>4. line' = [line EXCEPT ![q.line] = row]
    BY <1>1, <2>1 DEF TypeOK
  <2>5. Used(row) = Used(line[q.line]) + q.amount
    BY <1>2, <2>2, <2>3 DEF Used, LineRow
  <2>6. line[q.line].allocated <= line[q.line].amount
    BY <1>2 DEF IInv, AllocatedIsApproved
  <2>7. row.allocated <= row.amount /\ Used(row) <= row.amount
    BY <1>2, <2>2, <2>3, <2>5, <2>6, Credit
  <2>8. LineFree(r, q.line)
    BY <1>1 DEF IInv, OneHolder, LineFree
  <2>9. /\ line' \in [Line -> LineRow \cup {Absent, Gone}]
        /\ request' \in [Request -> RequestStates]
        /\ \A m \in Line : Live(m)' <=> Live(m)
        /\ Reserved' /\ AllocatedIsApproved' /\ PendingAllocation' /\ NeverOverApproved'
    BY <1>1, <1>2, <2>3, <2>4, <2>7, <2>8, LineChangeKeeps
  <2>10. new \in CommitmentRow
    BY <1>2 DEF CommitmentRow
  <2>11. commitment' \in [Commitment -> CommitmentRow \cup {Absent}] /\ commitment'[c] = new
         /\ \A d \in Commitment : d # c => commitment'[d] = commitment[d]
    BY <1>1, <2>1, <2>10 DEF TypeOK
  <2>12. CommitmentsHaveLines'
    <3>1. \A d \in Commitment : commitment[d] # Absent => commitment[d].line \in Line
      BY <1>1, Rows DEF CommitmentRow
    <3> QED
      BY <1>2, <2>9, <2>11, <3>1 DEF IInv, CommitmentsHaveLines
  <2>13. OneHolder' /\ HeldIsOpen'
    <3>1. \A x \in Request : Closing(x) => request[x].commitment \in Commitment
      BY <1>1, Locals
    <3>2. request'[r].pc = "idle" /\ \A x \in Request : x # r => request'[x] = request[x]
      BY <1>1, Finishes
    <3> QED
      BY <1>1, <2>11, <3>1, <3>2 DEF IInv, OneHolder, HeldIsOpen, Closing, Open
  <2> QED
    BY <2>9, <2>11, <2>12, <2>13 DEF IInv, TypeOK
<1> QED
  BY <1>3, <1>4

LEMMA CloseLockKeeps ==
  ASSUME IInv, NEW r \in Request, NEW c \in Commitment, NEW pc \in {"settling", "releasing"},
         CloseLock(r, c, pc)
  PROVE  IInv'
<1> DEFINE q == [pc |-> pc, commitment |-> c]
<1>1. TypeOK /\ Open(c) /\ CommitmentFree(r, c) /\ UNCHANGED <<line, commitment>>
      /\ request' = [request EXCEPT ![r] = q]
  BY DEF IInv, CloseLock
<1>2. request' \in [Request -> RequestStates] /\ request'[r] = q
      /\ \A x \in Request : x # r => request'[x] = request[x]
  BY <1>1, Moves DEF RequestStates
<1>3. TypeOK'
  BY <1>1, <1>2 DEF TypeOK
<1>4. Reserved' /\ HeldIsOpen' /\ PendingAllocation'
  BY <1>1, <1>2 DEF IInv, Reserved, HeldIsOpen, PendingAllocation, Closing, Live, Open,
     Available, Used, Base
<1>5. OneHolder'
  BY <1>1, <1>2 DEF IInv, OneHolder, Closing, CommitmentFree
<1> QED
  BY <1>1, <1>3, <1>4, <1>5 DEF IInv, CommitmentsHaveLines, AllocatedIsApproved,
     NeverOverApproved, Live, Used

(* Closing an open commitment uses no more of its line than the commitment *)
(* did, and leaves the row closed.                                         *)
LEMMA ClosingKeeps ==
  ASSUME IInv, NEW r \in Request, Closing(r), Done(r),
         NEW c \in Commitment, NEW l \in Line, NEW new \in CommitmentRow, NEW row \in LineRow,
         c = request[r].commitment, l = commitment[c].line, LineFree(r, l),
         commitment' = [commitment EXCEPT ![c] = new], new.line = l,
         line' = [line EXCEPT ![l] = row],
         row.amount = line[l].amount, row.allocated = line[l].allocated,
         Used(row) <= Used(line[l])
  PROVE  IInv'
<1>1. TypeOK /\ Open(c) /\ commitment[c] # Absent /\ Live(l) /\ line[l] \in LineRow
  BY Rows DEF IInv, HeldIsOpen, CommitmentsHaveLines
<1>2. row.allocated <= row.amount /\ Used(row) <= row.amount
  <2>1. line[l].allocated <= line[l].amount /\ Used(line[l]) <= line[l].amount
    BY <1>1 DEF IInv, AllocatedIsApproved, NeverOverApproved
  <2> QED
    BY <1>1, <2>1, Credit
<1>3. /\ line' \in [Line -> LineRow \cup {Absent, Gone}]
      /\ request' \in [Request -> RequestStates]
      /\ \A m \in Line : Live(m)' <=> Live(m)
      /\ Reserved' /\ AllocatedIsApproved' /\ PendingAllocation' /\ NeverOverApproved'
  BY <1>1, <1>2, LineChangeKeeps
<1>4. commitment' \in [Commitment -> CommitmentRow \cup {Absent}] /\ commitment'[c] = new
      /\ \A d \in Commitment : d # c => commitment'[d] = commitment[d]
  BY <1>1 DEF TypeOK
<1>5. CommitmentsHaveLines'
  <2>1. \A d \in Commitment : commitment[d] # Absent => commitment[d].line \in Line
    BY <1>1, Rows DEF CommitmentRow
  <2> QED
    BY <1>1, <1>3, <1>4, <2>1 DEF IInv, CommitmentsHaveLines
<1>6. OneHolder' /\ HeldIsOpen'
  <2>1. request'[r].pc = "idle" /\ \A x \in Request : x # r => request'[x] = request[x]
    BY <1>1, Finishes DEF Idle
  <2>2. \A x \in Request : x # r /\ Closing(x) =>
          request[x].commitment \in Commitment /\ request[x].commitment # c
    BY <1>1, Locals DEF IInv, OneHolder
  <2> QED
    BY <1>4, <2>1, <2>2 DEF IInv, OneHolder, HeldIsOpen, Closing, Open
<1> QED
  BY <1>3, <1>4, <1>5, <1>6 DEF IInv, TypeOK

(* What a request that closes holds: an open commitment and its line.      *)
LEMMA Held ==
  ASSUME IInv, NEW r \in Request, Closing(r)
  PROVE  LET c == request[r].commitment  row == commitment[c] IN
         /\ c \in Commitment /\ row \in CommitmentRow /\ row.line \in Line
         /\ row.amount \in Nat \ {0} /\ Live(row.line) /\ line[row.line] \in LineRow
<1>1. TypeOK /\ request[r].commitment \in Commitment /\ Open(request[r].commitment)
  BY Locals DEF IInv, HeldIsOpen
<1>2. commitment[request[r].commitment] # Absent
      /\ commitment[request[r].commitment] \in CommitmentRow
  BY <1>1, Rows
<1> QED
  BY <1>1, <1>2, Rows DEF IInv, CommitmentsHaveLines, CommitmentRow

LEMMA SettleKeeps ==
  ASSUME IInv, NEW r \in Request, NEW actual \in Amounts, Settle(r, actual)
  PROVE  IInv'
<1> DEFINE c == request[r].commitment
           old == commitment[c]
           l == old.line
           new == [old EXCEPT !.status = "SETTLED", !.amount = actual]
           row == [line[l] EXCEPT !.committed = @ - old.amount, !.spent = @ + actual]
<1>1. TypeOK /\ Closing(r) /\ Done(r) /\ actual <= old.amount /\ LineFree(r, l)
      /\ actual \in Nat
  <2>1. actual \in Nat
    BY CommitmentsConstants DEF Amounts
  <2>2. request[r].pc = "settling" /\ actual <= old.amount /\ LineFree(r, l) /\ Done(r)
    BY DEF Settle
  <2> QED
    BY <2>1, <2>2 DEF IInv, Closing
<1>2. c \in Commitment /\ old \in CommitmentRow /\ l \in Line /\ old.amount \in Nat \ {0}
      /\ line[l] \in LineRow
  BY <1>1, Held
<1>3. CASE Positive(actual) /\ Covered(old)
  <2>1. /\ commitment' = [commitment EXCEPT ![c].status = "SETTLED", ![c].amount = actual]
        /\ line' = [line EXCEPT ![l].committed = @ - old.amount, ![l].spent = @ + actual]
    BY <1>3 DEF Settle, Spent
  <2>2. commitment' = [commitment EXCEPT ![c] = new]
    BY <1>1, <1>2, <2>1 DEF TypeOK
  <2>3. line' = [line EXCEPT ![l] = row]
    BY <1>1, <1>2, <2>1 DEF TypeOK
  <2>4. new \in CommitmentRow /\ new.line = l
    <3>1. actual \in Nat \ {0}
      BY <1>1, <1>3 DEF Positive
    <3>2. ASSUME NEW x \in CommitmentRow, NEW m \in Nat \ {0}
          PROVE  LET y == [x EXCEPT !.status = "SETTLED", !.amount = m]
                 IN  y \in CommitmentRow /\ y.line = x.line
      BY DEF CommitmentRow
    <3> QED
      BY <1>2, <3>1, <3>2
  <2>5. line[l].committed - old.amount \in Nat /\ line[l].spent + actual \in Nat
    BY <1>1, <1>2, <1>3 DEF LineRow, Covered
  <2>6. row \in LineRow /\ row.amount = line[l].amount /\ row.allocated = line[l].allocated
        /\ row.committed = line[l].committed - old.amount /\ row.spent = line[l].spent + actual
    BY <1>2, <2>5 DEF LineRow
  <2>7. Used(row) <= Used(line[l])
    <3>1. line[l].committed \in Nat /\ line[l].spent \in Nat
      BY <1>2 DEF LineRow
    <3>2. Used(line[l]) = line[l].committed + line[l].spent /\ Used(row) = row.committed + row.spent
      BY DEF Used
    <3>3. old.amount \in Nat /\ actual \in Nat /\ actual <= old.amount
      BY <1>1, <1>2
    <3>4. Used(row) = (line[l].committed - old.amount) + (line[l].spent + actual)
      BY <2>6, <3>2
    <3>5. \A x, y, z, w \in Nat : w <= z => (x - z) + (y + w) <= x + y
      OBVIOUS
    <3> QED
      BY <3>1, <3>2, <3>3, <3>4, <3>5
  <2> HIDE DEF new, row
  <2> QED
    BY <1>1, <1>2, <2>2, <2>3, <2>4, <2>6, <2>7, ClosingKeeps
<1>4. CASE ~(Positive(actual) /\ Covered(old))
  BY <1>1, <1>4, RestKeeps DEF Settle
<1> QED
  BY <1>3, <1>4

LEMMA ReleaseKeeps ==
  ASSUME IInv, NEW r \in Request, Release(r)
  PROVE  IInv'
<1> DEFINE c == request[r].commitment
           old == commitment[c]
           l == old.line
           new == [old EXCEPT !.status = "RELEASED"]
           row == [line[l] EXCEPT !.committed = @ - old.amount]
<1>1. TypeOK /\ Closing(r) /\ Done(r) /\ LineFree(r, l)
  BY DEF IInv, Release, Closing
<1>2. c \in Commitment /\ old \in CommitmentRow /\ l \in Line /\ old.amount \in Nat \ {0}
      /\ line[l] \in LineRow
  BY <1>1, Held
<1>3. CASE Covered(old)
  <2>1. /\ commitment' = [commitment EXCEPT ![c].status = "RELEASED"]
        /\ line' = [line EXCEPT ![l].committed = @ - old.amount]
    BY <1>3 DEF Release
  <2>2. commitment' = [commitment EXCEPT ![c] = new]
    BY <1>1, <1>2, <2>1 DEF TypeOK
  <2>3. line' = [line EXCEPT ![l] = row]
    BY <1>1, <1>2, <2>1 DEF TypeOK
  <2>4. new \in CommitmentRow /\ new.line = l
    BY <1>2 DEF CommitmentRow
  <2>5. line[l].committed - old.amount \in Nat
    BY <1>2, <1>3 DEF LineRow, Covered
  <2>6. row \in LineRow /\ row.amount = line[l].amount /\ row.allocated = line[l].allocated
        /\ row.committed = line[l].committed - old.amount /\ row.spent = line[l].spent
    BY <1>2, <2>5 DEF LineRow
  <2>7. Used(row) <= Used(line[l])
    <3>1. line[l].committed \in Nat /\ line[l].spent \in Nat
      BY <1>2 DEF LineRow
    <3>2. Used(line[l]) = line[l].committed + line[l].spent /\ Used(row) = row.committed + row.spent
      BY DEF Used
    <3>3. old.amount \in Nat
      BY <1>2
    <3>4. Used(row) = (line[l].committed - old.amount) + line[l].spent
      BY <2>6, <3>2
    <3>5. \A x, y, z \in Nat : (x - z) + y <= x + y
      OBVIOUS
    <3> QED
      BY <3>1, <3>2, <3>3, <3>4, <3>5
  <2> HIDE DEF new, row
  <2> QED
    BY <1>1, <1>2, <2>2, <2>3, <2>4, <2>6, <2>7, ClosingKeeps
<1>4. CASE ~Covered(old)
  BY <1>1, <1>4, RestKeeps DEF Release
<1> QED
  BY <1>3, <1>4

LEMMA AllocateReadKeeps ==
  ASSUME IInv, NEW r \in Request, NEW l \in Line, NEW value \in Amounts,
         AllocateRead(r, l, value)
  PROVE  IInv'
<1> DEFINE q == [pc |-> "allocating", line |-> l, value |-> value]
<1>1. TypeOK /\ Live(l) /\ value <= line[l].amount /\ UNCHANGED <<line, commitment>>
      /\ request' = [request EXCEPT ![r] = q]
  BY DEF IInv, AllocateRead
<1>2. q \in RequestStates
  BY CommitmentsConstants DEF RequestStates, Amounts
<1>3. request' \in [Request -> RequestStates] /\ request'[r] = q
      /\ \A x \in Request : x # r => request'[x] = request[x]
  BY <1>1, <1>2, Moves
<1>4. TypeOK'
  BY <1>1, <1>3 DEF TypeOK
<1>5. line[l] # Absent
  BY <1>1, Rows
<1>6. Reserved' /\ HeldIsOpen' /\ PendingAllocation' /\ OneHolder'
  BY <1>1, <1>3, <1>5 DEF IInv, Reserved, HeldIsOpen, PendingAllocation, OneHolder, Closing,
     Live, Open, Available, Used, Base
<1> QED
  BY <1>1, <1>4, <1>6 DEF IInv, CommitmentsHaveLines, AllocatedIsApproved,
     NeverOverApproved, Live, Used

(* An allocation written late may leave less than was promised to a        *)
(* request that holds the line, which is why the write waits for its lock. *)
LEMMA AllocateWriteKeeps ==
  ASSUME IInv, NEW r \in Request, AllocateWrite(r)
  PROVE  IInv'
<1> DEFINE l == request[r].line
           row == [line[l] EXCEPT !.allocated = request[r].value]
<1>1. TypeOK /\ request[r].pc = "allocating" /\ LineFree(r, l) /\ Done(r)
      /\ UNCHANGED commitment
  BY DEF IInv, AllocateWrite
<1>2. l \in Line /\ request[r].value \in Nat
  BY <1>1, Locals
<1>3. CASE Live(l)
  <2>1. line' = [line EXCEPT ![l].allocated = request[r].value]
    BY <1>3 DEF AllocateWrite
  <2>2. line' = [line EXCEPT ![l] = row]
    BY <1>1, <1>2, <2>1 DEF TypeOK
  <2>3. line[l] \in LineRow
    BY <1>1, <1>2, <1>3, Rows
  <2>4. row \in LineRow /\ row.amount = line[l].amount /\ row.allocated = request[r].value
        /\ Used(row) = Used(line[l])
    BY <1>2, <2>3 DEF LineRow, Used
  <2>5. row.allocated <= row.amount /\ Used(row) <= row.amount
    BY <1>1, <1>2, <1>3, <2>4 DEF IInv, PendingAllocation, NeverOverApproved
  <2>6. /\ line' \in [Line -> LineRow \cup {Absent, Gone}]
        /\ request' \in [Request -> RequestStates]
        /\ \A m \in Line : Live(m)' <=> Live(m)
        /\ Reserved' /\ AllocatedIsApproved' /\ PendingAllocation' /\ NeverOverApproved'
    <3> HIDE DEF row
    <3> QED
      BY <1>1, <1>2, <1>3, <2>2, <2>4, <2>5, LineChangeKeeps
  <2>7. request'[r].pc = "idle" /\ \A x \in Request : x # r => request'[x] = request[x]
    BY <1>1, Finishes DEF Idle
  <2>8. OneHolder' /\ HeldIsOpen'
    BY <1>1, <2>7 DEF IInv, OneHolder, HeldIsOpen, Closing, Open
  <2>9. CommitmentsHaveLines'
    <3>1. \A d \in Commitment : commitment[d] # Absent => commitment[d].line \in Line
      BY <1>1, Rows DEF CommitmentRow
    <3> QED
      BY <1>1, <2>6, <3>1 DEF IInv, CommitmentsHaveLines
  <2> QED
    BY <1>1, <2>6, <2>8, <2>9 DEF IInv, TypeOK
<1>4. CASE ~Live(l)
  BY <1>1, <1>4, RestKeeps DEF AllocateWrite
<1> QED
  BY <1>3, <1>4

(* A line goes with its commitments, and no request holds either.          *)
LEMMA RemoveLineKeeps ==
  ASSUME IInv, NEW l \in Line, RemoveLine(l)
  PROVE  IInv'
<1>1. TypeOK /\ Live(l) /\ line' = [line EXCEPT ![l] = Gone] /\ UNCHANGED request
      /\ commitment' = [c \in Commitment |->
           IF commitment[c] # Absent /\ commitment[c].line = l THEN Absent ELSE commitment[c]]
      /\ \A r \in Request :
           /\ request[r].pc = "committing" => request[r].line # l
           /\ Closing(r) => commitment[request[r].commitment].line # l
  BY DEF IInv, RemoveLine, Closing
<1>2. line'[l] = Gone /\ (\A m \in Line : m # l => line'[m] = line[m])
      /\ line' \in [Line -> LineRow \cup {Absent, Gone}]
  BY <1>1 DEF TypeOK
<1>3. commitment' \in [Commitment -> CommitmentRow \cup {Absent}]
  BY <1>1 DEF TypeOK
<1>4. Gone # Absent /\ Gone.status # "LIVE"
  BY DEF Gone, Absent
<1>5. Reserved'
  <2>1. \A r \in Request : request[r].pc = "committing" =>
          request[r].line \in Line /\ line'[request[r].line] = line[request[r].line]
    BY <1>1, <1>2, Locals
  <2> QED
    BY <1>1, <2>1 DEF IInv, Reserved, Live, Available, Used, Base
<1>6. PendingAllocation'
  <2>1. \A r \in Request : request[r].pc = "allocating" => request[r].line \in Line
    BY <1>1, Locals
  <2> QED
    BY <1>1, <1>2, <1>4, <2>1 DEF IInv, PendingAllocation, Live
<1>7. HeldIsOpen'
  <2>1. \A r \in Request : Closing(r) => request[r].commitment \in Commitment
    BY <1>1, Locals
  <2> QED
    BY <1>1, <2>1 DEF IInv, HeldIsOpen, Closing, Open
<1>8. CommitmentsHaveLines'
  <2>1. \A c \in Commitment : commitment'[c] # Absent =>
          commitment'[c] = commitment[c] /\ commitment[c].line \in Line /\ commitment[c].line # l
    BY <1>1, Rows DEF CommitmentRow
  <2> QED
    BY <1>2, <2>1 DEF IInv, CommitmentsHaveLines, Live
<1>9. AllocatedIsApproved' /\ NeverOverApproved'
  BY <1>2, <1>4 DEF IInv, AllocatedIsApproved, NeverOverApproved, Live, Used
<1>10. OneHolder'
  BY <1>1 DEF IInv, OneHolder, Closing
<1> QED
  BY <1>1, <1>2, <1>3, <1>5, <1>6, <1>7, <1>8, <1>9, <1>10 DEF IInv, TypeOK
-----------------------------------------------------------------------------
LEMMA NextKeeps == IInv /\ [Next]_vars => IInv'
<1> SUFFICES ASSUME IInv, [Next]_vars PROVE IInv'
  OBVIOUS
<1>1. CASE \E l \in Line, a \in Amounts, b \in Amounts \cup {NoAllocation} : CreateLine(l, a, b)
  BY <1>1, CreateLineKeeps
<1>2. CASE \E l \in Line : RemoveLine(l)
  BY <1>2, RemoveLineKeeps
<1>3. ASSUME NEW r \in Request,
             \/ \E l \in Line, a \in Amounts, s \in Source \cup {NoSource} : CommitLock(r, l, a, s)
             \/ \E c \in Commitment : CommitWrite(r, c)
             \/ \E c \in Commitment, pc \in {"settling", "releasing"} : CloseLock(r, c, pc)
             \/ \E a \in Amounts : Settle(r, a)
             \/ Release(r)
             \/ \E l \in Line, a \in Amounts : AllocateRead(r, l, a)
             \/ AllocateWrite(r)
      PROVE  IInv'
  BY <1>3, CommitLockKeeps, CommitWriteKeeps, CloseLockKeeps, SettleKeeps, ReleaseKeeps,
     AllocateReadKeeps, AllocateWriteKeeps
<1>4. CASE UNCHANGED vars
  BY <1>4 DEF vars, IInv, TypeOK, Reserved, OneHolder, HeldIsOpen, CommitmentsHaveLines,
     AllocatedIsApproved, PendingAllocation, NeverOverApproved, Closing, Live, Open,
     Available, Used, Base
<1> QED
  BY <1>1, <1>2, <1>3, <1>4 DEF Next

LEMMA Inductive == Spec => []IInv
<1>1. Init => IInv
  BY InitHolds
<1> QED
  BY <1>1, NextKeeps, PTL DEF Spec

(* Every row of a line and of a commitment, and what every request carries *)
(* from one statement to the next, has the shape the tables give it.       *)
THEOREM TypeCorrect == Spec => []TypeOK
<1>1. IInv => TypeOK
  BY DEF IInv
<1> QED
  BY <1>1, Inductive, PTL

(* BudgetCommitmentService never lets the commitments and the expenses of  *)
(* a line exceed the amount approved for it, whatever requests interleave. *)
THEOREM NeverOverApprovedAlways == Spec => []NeverOverApproved
<1>1. IInv => NeverOverApproved
  BY DEF IInv
<1> QED
  BY <1>1, Inductive, PTL

(* A commitment becomes open only in commit, which the unique index stops  *)
(* when its document has an open one already.                              *)
LEMMA SourceKept == TypeOK /\ IInv /\ OneOpenPerSource /\ [Next]_vars => OneOpenPerSource'
<1> SUFFICES ASSUME TypeOK, IInv, OneOpenPerSource, [Next]_vars PROVE OneOpenPerSource'
  OBVIOUS
<1>1. ASSUME \A c \in Commitment : commitment'[c].status = "OPEN" => commitment'[c] = commitment[c]
      PROVE  OneOpenPerSource'
  BY <1>1 DEF OneOpenPerSource, Open
<1>2. CASE UNCHANGED commitment
  BY <1>2 DEF OneOpenPerSource, Open
<1>3. ASSUME NEW l \in Line, RemoveLine(l) PROVE OneOpenPerSource'
  <2>1. \A c \in Commitment : commitment'[c] \in {Absent, commitment[c]}
    BY <1>3 DEF RemoveLine
  <2> QED
    BY <1>1, <2>1 DEF Absent
<1>4. ASSUME NEW r \in Request, NEW a \in Amounts, Settle(r, a) PROVE OneOpenPerSource'
  <2>1. request[r].commitment \in Commitment /\ commitment[request[r].commitment] \in CommitmentRow
    BY <1>4, Held DEF Settle, Closing
  <2>2. CASE UNCHANGED commitment
    BY <1>2, <2>2
  <2>3. CASE commitment' = [commitment EXCEPT ![request[r].commitment].status = "SETTLED",
                                              ![request[r].commitment].amount = a]
    BY <1>1, <2>1, <2>3 DEF TypeOK, CommitmentRow
  <2> QED
    BY <1>4, <2>2, <2>3 DEF Settle
<1>5. ASSUME NEW r \in Request, Release(r) PROVE OneOpenPerSource'
  <2>1. request[r].commitment \in Commitment /\ commitment[request[r].commitment] \in CommitmentRow
    BY <1>5, Held DEF Release, Closing
  <2>2. CASE UNCHANGED commitment
    BY <1>2, <2>2
  <2>3. CASE commitment' = [commitment EXCEPT ![request[r].commitment].status = "RELEASED"]
    BY <1>1, <2>1, <2>3 DEF TypeOK, CommitmentRow
  <2> QED
    BY <1>5, <2>2, <2>3 DEF Release
<1>6. ASSUME NEW r \in Request, NEW c \in Commitment, CommitWrite(r, c) PROVE OneOpenPerSource'
  <2>1. CASE SourceBusy(request[r].source)
    BY <1>2, <1>6, <2>1 DEF CommitWrite
  <2>2. CASE ~SourceBusy(request[r].source)
    <3>1. /\ commitment'[c].source = request[r].source
          /\ \A d \in Commitment \ {c} : commitment'[d] = commitment[d]
      BY <1>6, <2>2 DEF CommitWrite, TypeOK
    <3>2. request[r].source = NoSource
          \/ \A d \in Commitment : Open(d) => commitment[d].source # request[r].source
      BY <2>2 DEF SourceBusy
    <3> QED
      BY <3>1, <3>2 DEF OneOpenPerSource, Open
  <2> QED
    BY <2>1, <2>2
<1> QED
  BY <1>2, <1>3, <1>4, <1>5, <1>6 DEF Next, vars, CreateLine, CommitLock, CloseLock,
     AllocateRead, AllocateWrite

(* However a contract or a purchase is committed, repeated or raced, at    *)
(* most one of its commitments is open.                                    *)
THEOREM OneOpenPerSourceAlways == Spec => []OneOpenPerSource
<1>1. Init => OneOpenPerSource
  BY InitHolds
<1>2. IInv => TypeOK
  BY DEF IInv
<1> QED
  BY <1>1, <1>2, SourceKept, Inductive, PTL DEF Spec
-----------------------------------------------------------------------------
(* What a commitment adds to the totals of a line.                         *)
LEMMA ShareType ==
  ASSUME TypeOK, NEW c \in Commitment, NEW l \in Line, NEW st \in {"OPEN", "SETTLED"}
  PROVE  /\ Book!Share(c, l, st) \in Nat
         /\ commitment[c] = Absent => Book!Share(c, l, st) = 0
BY Rows DEF Book!Share, CommitmentRow, Absent

LEMMA TotalIsSum ==
  ASSUME NEW l, NEW st
  PROVE  Book!Total(l, st)
           = SumFunctionOnSet([c \in Commitment |-> Book!Share(c, l, st)], Commitment)
BY DEF Book!Total, Book!SumFunctionOnSet, Book!FoldFunctionOnSet, Book!MapThenFoldSet,
   SumFunctionOnSet, FoldFunctionOnSet, MapThenFoldSet

LEMMA TotalMoves ==
  ASSUME TypeOK, TypeOK', NEW c \in Commitment, NEW l \in Line, NEW st \in {"OPEN", "SETTLED"},
         \A d \in Commitment \ {c} : commitment'[d] = commitment[d]
  PROVE  /\ Book!Total(l, st)' = Book!Total(l, st) + Book!Share(c, l, st)' - Book!Share(c, l, st)
         /\ Book!Total(l, st) \in Int
<1> DEFINE f == [d \in Commitment |-> Book!Share(d, l, st)]
           g == [d \in Commitment |-> Book!Share(d, l, st)']
<1>1. \A d \in Commitment : f[d] \in Int
  BY ShareType
<1>2. ASSUME NEW d \in Commitment PROVE g[d] \in Int
  <2>1. (commitment[d] \in CommitmentRow \cup {Absent})'
    BY DEF TypeOK
  <2> QED
    BY <2>1 DEF Book!Share, CommitmentRow, Absent
<1>3. \A d \in Commitment \ {c} : f[d] = g[d]
  BY DEF Book!Share
<1>4. SumFunctionOnSet(g, Commitment) = SumFunctionOnSet(f, Commitment) + g[c] - f[c]
  <2> HIDE DEF f, g
  <2> QED
    BY <1>1, <1>2, <1>3, SumChange, CommitmentsConstants
<1>5. SumFunctionOnSet(f, Commitment) \in Int
  BY <1>1, SumInt, CommitmentsConstants
<1>6. Book!Total(l, st) = SumFunctionOnSet(f, Commitment)
  BY TotalIsSum
<1>7. Book!Total(l, st)' = SumFunctionOnSet(g, Commitment)
  BY DEF Book!Total, Book!SumFunctionOnSet, Book!FoldFunctionOnSet, Book!MapThenFoldSet,
     SumFunctionOnSet, FoldFunctionOnSet, MapThenFoldSet
<1> QED
  BY <1>4, <1>5, <1>6, <1>7

LEMMA TotalStays ==
  ASSUME NEW l \in Line, NEW st,
         \A d \in Commitment : Book!Share(d, l, st)' = Book!Share(d, l, st)
  PROVE  Book!Total(l, st)' = Book!Total(l, st)
BY DEF Book!Total

LEMMA TotalOfNothing ==
  ASSUME NEW l \in Line, NEW st, \A d \in Commitment : Book!Share(d, l, st) = 0
  PROVE  Book!Total(l, st) = 0
<1> DEFINE f == [d \in Commitment |-> Book!Share(d, l, st)]
<1>1. SumFunctionOnSet(f, Commitment) = 0
  BY SumZero, CommitmentsConstants
<1> QED
  BY <1>1, TotalIsSum

(* The totals of a line that a step leaves alone with its commitments.     *)
LEMMA LineStaysExplained ==
  ASSUME BookExplainsLine, NEW l \in Line, Live(l),
         line'[l].committed = line[l].committed, line'[l].spent = line[l].spent,
         \A st \in {"OPEN", "SETTLED"} : \A d \in Commitment :
           Book!Share(d, l, st)' = Book!Share(d, l, st)
  PROVE  /\ line'[l].committed = Book!Total(l, "OPEN")'
         /\ line'[l].spent = Book!Total(l, "SETTLED")'
<1>1. line[l].committed = Book!Total(l, "OPEN") /\ line[l].spent = Book!Total(l, "SETTLED")
  BY DEF BookExplainsLine
<1>2. Book!Total(l, "OPEN")' = Book!Total(l, "OPEN")
  BY TotalStays
<1>3. Book!Total(l, "SETTLED")' = Book!Total(l, "SETTLED")
  BY TotalStays
<1> QED
  BY <1>1, <1>2, <1>3

(* One commitment changes: its line takes over what its shares change by.  *)
LEMMA LineFollowsCommitment ==
  ASSUME BookExplainsLine, TypeOK, TypeOK', NEW l \in Line, Live(l), NEW c \in Commitment,
         \A d \in Commitment \ {c} : commitment'[d] = commitment[d],
         line'[l].committed
           = line[l].committed + Book!Share(c, l, "OPEN")' - Book!Share(c, l, "OPEN"),
         line'[l].spent
           = line[l].spent + Book!Share(c, l, "SETTLED")' - Book!Share(c, l, "SETTLED")
  PROVE  /\ line'[l].committed = Book!Total(l, "OPEN")'
         /\ line'[l].spent = Book!Total(l, "SETTLED")'
<1>1. line[l].committed = Book!Total(l, "OPEN") /\ line[l].spent = Book!Total(l, "SETTLED")
  BY DEF BookExplainsLine
<1>2. Book!Total(l, "OPEN")'
        = Book!Total(l, "OPEN") + Book!Share(c, l, "OPEN")' - Book!Share(c, l, "OPEN")
  BY TotalMoves
<1>3. Book!Total(l, "SETTLED")'
        = Book!Total(l, "SETTLED") + Book!Share(c, l, "SETTLED")' - Book!Share(c, l, "SETTLED")
  BY TotalMoves
<1> QED
  BY <1>1, <1>2, <1>3

(* A commitment of line l is entered, settled or released.                 *)
LEMMA CommitmentKeepsExplained ==
  ASSUME BookExplainsLine, TypeOK, TypeOK', NEW l \in Line, Live(l), NEW c \in Commitment,
         \A d \in Commitment \ {c} : commitment'[d] = commitment[d],
         \A m \in Line \ {l} : line'[m] = line[m],
         commitment[c] = Absent \/ commitment[c].line = l, commitment'[c].line = l,
         line'[l].committed
           = line[l].committed + Book!Share(c, l, "OPEN")' - Book!Share(c, l, "OPEN"),
         line'[l].spent
           = line[l].spent + Book!Share(c, l, "SETTLED")' - Book!Share(c, l, "SETTLED")
  PROVE  BookExplainsLine'
<1>1. ASSUME NEW m \in Line, m # l, Live(m)'
      PROVE  /\ line'[m].committed = Book!Total(m, "OPEN")'
             /\ line'[m].spent = Book!Total(m, "SETTLED")'
  <2>1. line'[m] = line[m] /\ Live(m)
    BY <1>1 DEF Live
  <2>2. ASSUME NEW st \in {"OPEN", "SETTLED"}, NEW d \in Commitment
        PROVE  Book!Share(d, m, st)' = Book!Share(d, m, st)
    BY <1>1 DEF Book!Share, Absent
  <2> QED
    BY <2>1, <2>2, LineStaysExplained
<1>2. /\ line'[l].committed = Book!Total(l, "OPEN")'
      /\ line'[l].spent = Book!Total(l, "SETTLED")'
  BY LineFollowsCommitment
<1> QED
  BY <1>1, <1>2 DEF BookExplainsLine

LEMMA CommitWriteKeepsExplained ==
  ASSUME BookExplainsLine, IInv, TypeOK', NEW r \in Request, NEW c \in Commitment,
         CommitWrite(r, c), ~SourceBusy(request[r].source)
  PROVE  BookExplainsLine'
<1> DEFINE q == request[r]
<1>1. /\ q.pc = "committing" /\ commitment[c] = Absent /\ TypeOK
      /\ commitment' = [commitment EXCEPT ![c] = [status |-> "OPEN", line |-> q.line,
                                                  source |-> q.source, amount |-> q.amount]]
      /\ line' = [line EXCEPT ![q.line].committed = @ + q.amount]
  BY DEF CommitWrite, IInv
<1>2. q.line \in Line /\ q.amount \in Nat \ {0} /\ Live(q.line)
  BY <1>1, Locals DEF IInv, Reserved
<1>3. line[q.line] \in LineRow
  BY <1>1, <1>2, Rows
<1>4. /\ line'[q.line].committed = line[q.line].committed + q.amount
      /\ line'[q.line].spent = line[q.line].spent
      /\ line[q.line].committed \in Nat /\ line[q.line].spent \in Nat
      /\ \A m \in Line \ {q.line} : line'[m] = line[m]
  BY <1>1, <1>2, <1>3 DEF TypeOK, LineRow
<1>5. /\ commitment'[c].status = "OPEN" /\ commitment'[c].line = q.line
      /\ commitment'[c].amount = q.amount
      /\ \A d \in Commitment \ {c} : commitment'[d] = commitment[d]
  BY <1>1 DEF TypeOK
<1> SUFFICES ASSUME NEW l \in Line, l = q.line PROVE BookExplainsLine'
  BY <1>2
<1>7. Book!Share(c, l, "OPEN") = 0 /\ Book!Share(c, l, "SETTLED") = 0
  BY <1>1 DEF Book!Share, Absent
<1>8. Book!Share(c, l, "OPEN")' = q.amount /\ Book!Share(c, l, "SETTLED")' = 0
  BY <1>5 DEF Book!Share
<1> HIDE DEF q
<1> QED
  BY <1>1, <1>2, <1>4, <1>5, <1>7, <1>8, CommitmentKeepsExplained

LEMMA SettleKeepsExplained ==
  ASSUME BookExplainsLine, IInv, TypeOK', NEW r \in Request, NEW actual \in Amounts,
         Settle(r, actual), ~UNCHANGED <<line, commitment>>
  PROVE  BookExplainsLine'
<1> DEFINE old == commitment[request[r].commitment]
<1>1. PICK c \in Commitment : c = request[r].commitment /\ Open(c)
  BY Locals DEF Settle, IInv, HeldIsOpen, Closing
<1>2. old \in CommitmentRow /\ old.amount \in Nat /\ Live(old.line) /\ line[old.line] \in LineRow
      /\ old.line \in Line /\ old.status = "OPEN"
  BY <1>1, Held DEF Settle, Closing, Open
<1>3. /\ commitment' = [commitment EXCEPT ![c].status = "SETTLED", ![c].amount = actual]
      /\ line' = [line EXCEPT ![old.line].committed = @ - old.amount,
                              ![old.line].spent = @ + actual]
      /\ TypeOK /\ actual \in Nat
  <2>1. actual \in Nat /\ TypeOK
    BY CommitmentsConstants DEF Amounts, IInv
  <2>2. /\ commitment' = [commitment EXCEPT ![request[r].commitment].status = "SETTLED",
                                            ![request[r].commitment].amount = actual]
        /\ line' = [line EXCEPT ![old.line].committed = @ - old.amount,
                                ![old.line].spent = @ + Spent(actual, old.amount)]
    BY DEF Settle
  <2> HIDE DEF old
  <2> QED
    BY <1>1, <2>1, <2>2 DEF Spent
<1>4. PICK l \in Line : l = old.line
  BY <1>2
<1>5. /\ line'[l].committed = line[l].committed - old.amount
      /\ line'[l].spent = line[l].spent + actual
      /\ line[l].committed \in Nat /\ line[l].spent \in Nat
      /\ \A m \in Line \ {l} : line'[m] = line[m]
  BY <1>2, <1>3, <1>4 DEF TypeOK, LineRow
<1>6. /\ commitment'[c].status = "SETTLED" /\ commitment'[c].line = l
      /\ commitment'[c].amount = actual
      /\ \A d \in Commitment \ {c} : commitment'[d] = commitment[d]
  BY <1>1, <1>2, <1>3, <1>4 DEF TypeOK, CommitmentRow
<1>7. Book!Share(c, l, "OPEN") = old.amount /\ Book!Share(c, l, "SETTLED") = 0
  BY <1>1, <1>2, <1>4 DEF Book!Share
<1>8. Book!Share(c, l, "OPEN")' = 0 /\ Book!Share(c, l, "SETTLED")' = actual
  BY <1>6 DEF Book!Share
<1>9. Live(l) /\ commitment[c].line = l
  BY <1>1, <1>2, <1>4
<1> HIDE DEF old
<1>10. /\ line'[l].committed
            = line[l].committed + Book!Share(c, l, "OPEN")' - Book!Share(c, l, "OPEN")
       /\ line'[l].spent
            = line[l].spent + Book!Share(c, l, "SETTLED")' - Book!Share(c, l, "SETTLED")
  <2>1. \A x, y \in Nat : x - y = x + 0 - y /\ x + y = x + y - 0
    OBVIOUS
  <2>2. line'[l].committed = line[l].committed + 0 - old.amount
    BY <1>2, <1>5, <2>1
  <2>3. line'[l].spent = line[l].spent + actual - 0
    BY <1>3, <1>5, <2>1
  <2> QED
    BY <1>7, <1>8, <2>2, <2>3
<1> QED
  BY <1>3, <1>5, <1>6, <1>9, <1>10, CommitmentKeepsExplained

LEMMA ReleaseKeepsExplained ==
  ASSUME BookExplainsLine, IInv, TypeOK', NEW r \in Request,
         Release(r), ~UNCHANGED <<line, commitment>>
  PROVE  BookExplainsLine'
<1> DEFINE old == commitment[request[r].commitment]
<1>1. PICK c \in Commitment : c = request[r].commitment /\ Open(c)
  BY Locals DEF Release, IInv, HeldIsOpen, Closing
<1>2. old \in CommitmentRow /\ old.amount \in Nat /\ Live(old.line) /\ line[old.line] \in LineRow
      /\ old.line \in Line /\ old.status = "OPEN"
  BY <1>1, Held DEF Release, Closing, Open
<1>3. /\ commitment' = [commitment EXCEPT ![c].status = "RELEASED"]
      /\ line' = [line EXCEPT ![old.line].committed = @ - old.amount]
      /\ TypeOK
  BY <1>1 DEF Release, IInv
<1>4. PICK l \in Line : l = old.line
  BY <1>2
<1>5. /\ line'[l].committed = line[l].committed - old.amount
      /\ line'[l].spent = line[l].spent
      /\ line[l].committed \in Nat /\ line[l].spent \in Nat
      /\ \A m \in Line \ {l} : line'[m] = line[m]
  BY <1>2, <1>3, <1>4 DEF TypeOK, LineRow
<1>6. /\ commitment'[c].status = "RELEASED" /\ commitment'[c].line = l
      /\ \A d \in Commitment \ {c} : commitment'[d] = commitment[d]
  BY <1>1, <1>2, <1>3, <1>4 DEF TypeOK, CommitmentRow
<1>7. Book!Share(c, l, "OPEN") = old.amount /\ Book!Share(c, l, "SETTLED") = 0
  BY <1>1, <1>2, <1>4 DEF Book!Share
<1>8. Book!Share(c, l, "OPEN")' = 0 /\ Book!Share(c, l, "SETTLED")' = 0
  BY <1>6 DEF Book!Share
<1>9. Live(l) /\ commitment[c].line = l
  BY <1>1, <1>2, <1>4
<1> HIDE DEF old
<1>10. /\ line'[l].committed
            = line[l].committed + Book!Share(c, l, "OPEN")' - Book!Share(c, l, "OPEN")
       /\ line'[l].spent
            = line[l].spent + Book!Share(c, l, "SETTLED")' - Book!Share(c, l, "SETTLED")
  BY <1>2, <1>5, <1>7, <1>8
<1> QED
  BY <1>3, <1>5, <1>6, <1>9, <1>10, CommitmentKeepsExplained

LEMMA CreateLineKeepsExplained ==
  ASSUME BookExplainsLine, IInv, NEW l \in Line, NEW a \in Amounts,
         NEW b \in Amounts \cup {NoAllocation}, CreateLine(l, a, b)
  PROVE  BookExplainsLine'
<1>1. /\ TypeOK /\ ~Live(l) /\ UNCHANGED commitment
      /\ line'[l].committed = 0 /\ line'[l].spent = 0
      /\ \A m \in Line \ {l} : line'[m] = line[m]
  BY DEF CreateLine, IInv, TypeOK, Live, Absent
<1>2. ASSUME NEW m \in Line, m # l, Live(m)'
      PROVE  /\ line'[m].committed = Book!Total(m, "OPEN")'
             /\ line'[m].spent = Book!Total(m, "SETTLED")'
  <2>1. line'[m] = line[m] /\ Live(m)
    BY <1>1, <1>2 DEF Live
  <2>2. \A st \in {"OPEN", "SETTLED"} : \A d \in Commitment :
          Book!Share(d, m, st)' = Book!Share(d, m, st)
    BY <1>1 DEF Book!Share
  <2> QED
    BY <2>1, <2>2, LineStaysExplained
<1>3. ASSUME NEW st \in {"OPEN", "SETTLED"} PROVE Book!Total(l, st)' = 0
  <2>1. \A d \in Commitment : Book!Share(d, l, st) = 0
    <3>1. \A d \in Commitment : commitment[d] = Absent \/ commitment[d].line # l
      BY <1>1 DEF IInv, CommitmentsHaveLines
    <3> QED
      BY <3>1 DEF Book!Share, Absent
  <2>2. Book!Total(l, st) = 0
    BY <2>1, TotalOfNothing
  <2>3. \A d \in Commitment : Book!Share(d, l, st)' = Book!Share(d, l, st)
    BY <1>1 DEF Book!Share
  <2> QED
    BY <2>2, <2>3, TotalStays
<1> QED
  BY <1>1, <1>2, <1>3 DEF BookExplainsLine

(* The commitments that go with a line are those of that line only.        *)
LEMMA RemoveLineKeepsExplained ==
  ASSUME BookExplainsLine, IInv, NEW l \in Line, RemoveLine(l)
  PROVE  BookExplainsLine'
<1>1. /\ TypeOK /\ line'[l] = Gone
      /\ \A m \in Line \ {l} : line'[m] = line[m]
      /\ \A c \in Commitment : commitment'[c] =
           IF commitment[c] # Absent /\ commitment[c].line = l THEN Absent ELSE commitment[c]
  BY DEF RemoveLine, IInv, TypeOK
<1>2. ASSUME NEW m \in Line, Live(m)'
      PROVE  /\ line'[m].committed = Book!Total(m, "OPEN")'
             /\ line'[m].spent = Book!Total(m, "SETTLED")'
  <2>1. m # l /\ line'[m] = line[m] /\ Live(m)
    BY <1>1, <1>2 DEF Live, Gone
  <2>2. \A st \in {"OPEN", "SETTLED"} : \A d \in Commitment :
          Book!Share(d, m, st)' = Book!Share(d, m, st)
    BY <1>1, <2>1 DEF Book!Share, Absent
  <2> QED
    BY <2>1, <2>2, LineStaysExplained
<1> QED
  BY <1>2 DEF BookExplainsLine

(* A step that changes no commitment and no running total.                 *)
LEMMA TotalsStayExplained ==
  ASSUME BookExplainsLine, UNCHANGED commitment,
         \A m \in Line : Live(m)' =>
           Live(m) /\ line'[m].committed = line[m].committed /\ line'[m].spent = line[m].spent
  PROVE  BookExplainsLine'
<1>1. ASSUME NEW m \in Line, Live(m)'
      PROVE  /\ line'[m].committed = Book!Total(m, "OPEN")'
             /\ line'[m].spent = Book!Total(m, "SETTLED")'
  <2>1. \A st \in {"OPEN", "SETTLED"} : \A d \in Commitment :
          Book!Share(d, m, st)' = Book!Share(d, m, st)
    BY DEF Book!Share
  <2> QED
    BY <1>1, <2>1, LineStaysExplained
<1> QED
  BY <1>1 DEF BookExplainsLine

LEMMA AllocateWriteKeepsExplained ==
  ASSUME BookExplainsLine, IInv, NEW r \in Request, AllocateWrite(r)
  PROVE  BookExplainsLine'
<1>1. /\ UNCHANGED commitment /\ TypeOK /\ request[r].line \in Line
      /\ line' = IF Live(request[r].line)
                 THEN [line EXCEPT ![request[r].line].allocated = request[r].value] ELSE line
  BY Locals DEF AllocateWrite, IInv
<1>2. ASSUME NEW m \in Line, Live(m)'
      PROVE  /\ Live(m) /\ line'[m].committed = line[m].committed
             /\ line'[m].spent = line[m].spent
  <2>1. CASE line'[m] = line[m]
    BY <1>2, <2>1 DEF Live
  <2>2. CASE line'[m] # line[m]
    <3>1. m = request[r].line /\ Live(m)
          /\ line'[m] = [line[m] EXCEPT !.allocated = request[r].value]
      BY <1>1, <2>2 DEF TypeOK
    <3>2. line[m] \in LineRow
      BY <1>1, <3>1, Rows
    <3> QED
      BY <3>1, <3>2 DEF LineRow
  <2> QED
    BY <2>1, <2>2
<1> QED
  BY <1>1, <1>2, TotalsStayExplained

LEMMA ExplainedKept == IInv /\ BookExplainsLine /\ [Next]_vars => BookExplainsLine'
<1> SUFFICES ASSUME IInv, BookExplainsLine, [Next]_vars PROVE BookExplainsLine'
  OBVIOUS
<1>1. TypeOK'
  BY NextKeeps DEF IInv
<1>2. CASE UNCHANGED <<line, commitment>>
  BY <1>2, TotalsStayExplained DEF Live
<1>3. CASE ~UNCHANGED <<line, commitment>>
  <2>1. CASE \E l \in Line, a \in Amounts, b \in Amounts \cup {NoAllocation} : CreateLine(l, a, b)
    BY <2>1, CreateLineKeepsExplained
  <2>2. CASE \E l \in Line : RemoveLine(l)
    BY <2>2, RemoveLineKeepsExplained
  <2>3. ASSUME NEW r \in Request, NEW c \in Commitment, CommitWrite(r, c)
        PROVE  BookExplainsLine'
    <3>1. ~SourceBusy(request[r].source)
      BY <1>3, <2>3 DEF CommitWrite
    <3> QED
      BY <1>1, <2>3, <3>1, CommitWriteKeepsExplained
  <2>4. ASSUME NEW r \in Request, AllocateWrite(r)
        PROVE  BookExplainsLine'
    BY <2>4, AllocateWriteKeepsExplained
  <2> QED
    BY <1>1, <1>3, <2>1, <2>2, <2>3, <2>4, SettleKeepsExplained, ReleaseKeepsExplained
    DEF Next, vars, CommitLock, CloseLock, AllocateRead
<1> QED
  BY <1>2, <1>3

LEMMA InitExplained == Init => BookExplainsLine
BY DEF Init, BookExplainsLine, Live, Absent

(* What BudgetCommitmentService keeps as a line's committed and spent      *)
(* totals is always the sum of the line's open and settled commitments,    *)
(* however commits, settlements, releases and deletions interleave.        *)
THEOREM BookExplainsLineAlways == Spec => []BookExplainsLine
BY InitExplained, ExplainedKept, Inductive, PTL DEF Spec
-----------------------------------------------------------------------------
(* The running totals of a line are the sums of its commitments, so the    *)
(* credit the code computes is the credit the book leaves.                 *)
LEMMA FreeIsAvailable ==
  ASSUME TypeOK, BookExplainsLine, NEW l \in Line, Live(l)
  PROVE  Book!Free(l) = Available(line[l])
<1>1. [m \in Line |-> Approved(m)][l] =
        [status |-> "LIVE", amount |-> line[l].amount, allocated |-> line[l].allocated]
  BY DEF Approved
<1>2. line[l].committed = Book!Total(l, "OPEN") /\ line[l].spent = Book!Total(l, "SETTLED")
  BY DEF BookExplainsLine
<1> QED
  BY <1>1, <1>2 DEF Book!Free, Book!NoAllocation, NoAllocation, Available, Base, Used

(* A step that leaves the book and the approvals alone is a stutter.       *)
LEMMA Stutter ==
  ASSUME UNCHANGED commitment, \A l \in Line : Approved(l)' = Approved(l)
  PROVE  UNCHANGED Book!vars
BY DEF Book!vars

LEMMA CommitImplements ==
  ASSUME IInv, BookExplainsLine, NEW r \in Request, NEW c \in Commitment, CommitWrite(r, c),
         request[r].amount \in Amounts
  PROVE  [Book!Next]_Book!vars
<1> DEFINE q == request[r]
<1>1. TypeOK /\ q.pc = "committing" /\ commitment[c] = Absent
  BY DEF IInv, CommitWrite
<1>2. q.line \in Line /\ q.amount \in Nat \ {0} /\ q.source \in Source \cup {NoSource}
      /\ Live(q.line) /\ q.amount <= Available(line[q.line])
  BY <1>1, Locals DEF IInv, Reserved
<1>3. CASE SourceBusy(q.source)
  <2>1. UNCHANGED <<line, commitment>>
    BY <1>3 DEF CommitWrite
  <2> QED
    BY <2>1, Stutter DEF Approved, Live
<1>4. CASE ~SourceBusy(q.source)
  <2>1. /\ commitment' = [commitment EXCEPT ![c] = [status |-> "OPEN", line |-> q.line,
                                                    source |-> q.source, amount |-> q.amount]]
        /\ line' = [line EXCEPT ![q.line].committed = @ + q.amount]
    BY <1>4 DEF CommitWrite
  <2>2. \A l \in Line : Approved(l)' = Approved(l)
    <3>1. line[q.line] \in LineRow /\ line \in [Line -> LineRow \cup {Absent, Gone}]
      BY <1>1, <1>2, Rows DEF TypeOK
    <3>2. \A l \in Line : l # q.line => line'[l] = line[l]
      BY <2>1, <3>1
    <3>3. /\ line'[q.line].status = line[q.line].status
          /\ line'[q.line].amount = line[q.line].amount
          /\ line'[q.line].allocated = line[q.line].allocated
      BY <1>2, <2>1, <3>1 DEF LineRow
    <3> QED
      BY <1>2, <3>2, <3>3 DEF Approved, Live
  <2>3. [m \in Line |-> Approved(m)][q.line].status = "LIVE"
    BY <1>2 DEF Approved
  <2>4. q.amount > 0 /\ q.amount <= Book!Free(q.line)
    BY <1>1, <1>2, FreeIsAvailable
  <2>5. q.source = NoSource
        \/ \A d \in Commitment : commitment[d].status = "OPEN" => commitment[d].source # q.source
    BY <1>4 DEF SourceBusy, Open
  <2>6. UNCHANGED [m \in Line |-> Approved(m)]
    BY <2>2
  <2>7. Book!Commit(c, q.line, q.amount, q.source)
    BY <1>1, <2>1, <2>3, <2>4, <2>5, <2>6 DEF Book!Commit, Book!Absent, Absent
  <2>8. q.amount \in Book!Amounts
    BY DEF Amounts, Book!Amounts
  <2> QED
    BY <1>2, <2>7, <2>8 DEF Book!Next
<1> QED
  BY <1>3, <1>4

LEMMA SettleImplements ==
  ASSUME IInv, NEW r \in Request, NEW actual \in Amounts, Settle(r, actual)
  PROVE  [Book!Next]_Book!vars
<1> DEFINE c == request[r].commitment
           old == commitment[c]
           l == old.line
<1>1. TypeOK /\ Closing(r) /\ actual <= old.amount
  BY DEF IInv, Settle, Closing
<1>2. c \in Commitment /\ l \in Line /\ line[l] \in LineRow /\ Open(c)
  BY <1>1, Held DEF IInv, HeldIsOpen
<1>3. CASE Positive(actual) /\ Covered(old)
  <2>1. /\ commitment' = [commitment EXCEPT ![c].status = "SETTLED", ![c].amount = actual]
        /\ line' = [line EXCEPT ![l].committed = @ - old.amount, ![l].spent = @ + actual]
    BY <1>3 DEF Settle, Spent
  <2>2. \A m \in Line : Approved(m)' = Approved(m)
    <3>1. line \in [Line -> LineRow \cup {Absent, Gone}]
      BY <1>1 DEF TypeOK
    <3>2. \A m \in Line : m # l => line'[m] = line[m]
      BY <2>1, <3>1
    <3>3. /\ line'[l].status = line[l].status /\ line'[l].amount = line[l].amount
          /\ line'[l].allocated = line[l].allocated
      BY <1>2, <2>1, <3>1 DEF LineRow
    <3>4. Live(l)
      BY <1>2 DEF Live, LineRow
    <3> QED
      BY <3>2, <3>3, <3>4 DEF Approved, Live
  <2>3. UNCHANGED [m \in Line |-> Approved(m)]
    BY <2>2
  <2>4. actual > 0 /\ commitment[c].status = "OPEN"
    BY <1>2, <1>3 DEF Positive, Open
  <2>5. Book!Settle(c, actual)
    BY <1>1, <2>1, <2>3, <2>4 DEF Book!Settle
  <2>6. actual \in Book!Amounts
    BY DEF Amounts, Book!Amounts
  <2> QED
    BY <1>2, <2>5, <2>6 DEF Book!Next
<1>4. CASE ~(Positive(actual) /\ Covered(old))
  <2>1. UNCHANGED <<line, commitment>>
    BY <1>4 DEF Settle
  <2> QED
    BY <2>1, Stutter DEF Approved, Live
<1> QED
  BY <1>3, <1>4

LEMMA ReleaseImplements ==
  ASSUME IInv, NEW r \in Request, Release(r)
  PROVE  [Book!Next]_Book!vars
<1> DEFINE c == request[r].commitment
           old == commitment[c]
           l == old.line
<1>1. TypeOK /\ Closing(r)
  BY DEF IInv, Release, Closing
<1>2. c \in Commitment /\ l \in Line /\ line[l] \in LineRow /\ Open(c)
  BY <1>1, Held DEF IInv, HeldIsOpen
<1>3. CASE Covered(old)
  <2>1. /\ commitment' = [commitment EXCEPT ![c].status = "RELEASED"]
        /\ line' = [line EXCEPT ![l].committed = @ - old.amount]
    BY <1>3 DEF Release
  <2>2. \A m \in Line : Approved(m)' = Approved(m)
    <3>1. line \in [Line -> LineRow \cup {Absent, Gone}]
      BY <1>1 DEF TypeOK
    <3>2. \A m \in Line : m # l => line'[m] = line[m]
      BY <2>1, <3>1
    <3>3. /\ line'[l].status = line[l].status /\ line'[l].amount = line[l].amount
          /\ line'[l].allocated = line[l].allocated
      BY <1>2, <2>1, <3>1 DEF LineRow
    <3>4. Live(l)
      BY <1>2 DEF Live, LineRow
    <3> QED
      BY <3>2, <3>3, <3>4 DEF Approved, Live
  <2>3. UNCHANGED [m \in Line |-> Approved(m)]
    BY <2>2
  <2>4. Book!Release(c)
    BY <1>2, <2>1, <2>3 DEF Book!Release, Open
  <2> QED
    BY <1>2, <2>4 DEF Book!Next
<1>4. CASE ~Covered(old)
  <2>1. UNCHANGED <<line, commitment>>
    BY <1>4 DEF Release
  <2> QED
    BY <2>1, Stutter DEF Approved, Live
<1> QED
  BY <1>3, <1>4
LEMMA CreateImplements ==
  ASSUME IInv, NEW l \in Line, NEW a \in Amounts, NEW b \in Amounts \cup {NoAllocation},
         CreateLine(l, a, b)
  PROVE  [Book!Next]_Book!vars
<1> DEFINE credit == [m \in Line |-> Approved(m)]
           new == [status |-> "LIVE", amount |-> a, allocated |-> b]
<1>1. /\ line[l] = Absent /\ b <= a /\ UNCHANGED commitment
      /\ line' = [line EXCEPT ![l] = [status |-> "LIVE", amount |-> a, allocated |-> b,
                                      committed |-> 0, spent |-> 0]]
      /\ line \in [Line -> LineRow \cup {Absent, Gone}]
  BY DEF CreateLine, IInv, TypeOK
<1>2. \A m \in Line : m # l => Approved(m)' = Approved(m)
  BY <1>1 DEF Approved, Live
<1>3. Approved(l)' = new
  BY <1>1 DEF Approved, Live
<1>4. credit' = [credit EXCEPT ![l] = new]
  BY <1>2, <1>3
<1>5. credit[l] = Book!Absent
  BY <1>1 DEF Approved, Live, Absent, Book!Absent
<1>6. Book!Approve(l, a, b)
  BY <1>1, <1>4, <1>5 DEF Book!Approve
<1>7. a \in Book!Amounts /\ b \in Book!Amounts \cup {Book!NoAllocation}
  BY DEF Amounts, Book!Amounts, NoAllocation, Book!NoAllocation
<1> QED
  BY <1>6, <1>7 DEF Book!Next

LEMMA AllocateImplements ==
  ASSUME IInv, NEW r \in Request, AllocateWrite(r), NEW l \in Line, NEW value \in Amounts,
         l = request[r].line, value = request[r].value
  PROVE  [Book!Next]_Book!vars
<1> DEFINE credit == [m \in Line |-> Approved(m)]
<1>1. request[r].pc = "allocating" /\ l \in Line /\ UNCHANGED commitment
      /\ line \in [Line -> LineRow \cup {Absent, Gone}]
  BY Locals DEF AllocateWrite, IInv, TypeOK
<1>2. CASE Live(l)
  <2>1. line' = [line EXCEPT ![l].allocated = value]
    BY <1>2 DEF AllocateWrite
  <2>2. line[l] \in LineRow /\ value <= line[l].amount
    BY <1>1, <1>2, Rows DEF IInv, PendingAllocation
  <2>3. \A m \in Line : m # l => Approved(m)' = Approved(m)
    <3>1. \A m \in Line : m # l => line'[m] = line[m]
      BY <1>1, <2>1
    <3> QED
      BY <3>1 DEF Approved, Live
  <2>4. /\ line'[l].status = "LIVE" /\ line'[l].amount = line[l].amount
        /\ line'[l].allocated = value
    BY <1>1, <2>1, <2>2 DEF LineRow
  <2>5. Approved(l)' = [credit[l] EXCEPT !.allocated = value]
    <3>1. Approved(l)' = [status |-> "LIVE", amount |-> line[l].amount, allocated |-> value]
      BY <2>4 DEF Approved, Live
    <3>2. credit[l] = [status |-> "LIVE", amount |-> line[l].amount,
                       allocated |-> line[l].allocated]
      BY <1>1, <1>2 DEF Approved
    <3> QED
      BY <3>1, <3>2
  <2>6. credit' = [credit EXCEPT ![l].allocated = value]
    BY <1>1, <2>3, <2>5
  <2>7. credit[l].status = "LIVE" /\ value <= credit[l].amount
    BY <1>1, <1>2, <2>2 DEF Approved
  <2>8. Book!Allocate(l, value)
    BY <1>1, <2>6, <2>7 DEF Book!Allocate
  <2>9. value \in Book!Amounts
    BY DEF Amounts, Book!Amounts
  <2> QED
    BY <1>1, <2>8, <2>9 DEF Book!Next
<1>3. CASE ~Live(l)
  <2>1. UNCHANGED <<line, commitment>>
    BY <1>3 DEF AllocateWrite
  <2> QED
    BY <2>1, Stutter DEF Approved, Live
<1> QED
  BY <1>2, <1>3

LEMMA RemoveImplements ==
  ASSUME IInv, NEW l \in Line, RemoveLine(l)
  PROVE  [Book!Next]_Book!vars
<1> DEFINE credit == [m \in Line |-> Approved(m)]
<1>1. /\ Live(l) /\ line' = [line EXCEPT ![l] = Gone]
      /\ commitment' = [c \in Commitment |->
           IF commitment[c] # Absent /\ commitment[c].line = l THEN Absent ELSE commitment[c]]
      /\ line \in [Line -> LineRow \cup {Absent, Gone}]
  BY DEF RemoveLine, IInv, TypeOK
<1>2. \A m \in Line : m # l => Approved(m)' = Approved(m)
  BY <1>1 DEF Approved, Live
<1>3. Approved(l)' = Gone /\ credit[l].status = "LIVE"
  BY <1>1 DEF Approved, Live, Gone
<1>4. credit' = [credit EXCEPT ![l] = Gone]
  BY <1>2, <1>3
<1>5. Book!Withdraw(l)
  BY <1>1, <1>3, <1>4 DEF Book!Withdraw, Book!Gone, Gone, Book!Absent, Absent
<1> QED
  BY <1>5 DEF Book!Next

(* What a request carries was asked for, so it stays within the bound.     *)
Asked ==
  \A r \in Request :
    /\ request[r].pc = "committing" => request[r].amount \in Amounts
    /\ request[r].pc = "allocating" => request[r].value \in Amounts

LEMMA AskedKept == TypeOK /\ Asked /\ [Next]_vars => Asked'
<1> SUFFICES ASSUME TypeOK, Asked, [Next]_vars PROVE Asked'
  OBVIOUS
<1>1. ASSUME NEW r \in Request, Done(r) PROVE Asked'
  BY <1>1, Finishes DEF Asked
<1>2. CASE UNCHANGED request
  BY <1>2 DEF Asked
<1>3. ASSUME NEW r \in Request, NEW l \in Line, NEW a \in Amounts, NEW s \in Source \cup {NoSource},
             CommitLock(r, l, a, s)
      PROVE  Asked'
  BY <1>3 DEF CommitLock, Asked, TypeOK
<1>4. ASSUME NEW r \in Request, NEW c \in Commitment, NEW pc \in {"settling", "releasing"},
             CloseLock(r, c, pc)
      PROVE  Asked'
  BY <1>4 DEF CloseLock, Asked, TypeOK
<1>5. ASSUME NEW r \in Request, NEW l \in Line, NEW a \in Amounts, AllocateRead(r, l, a)
      PROVE  Asked'
  BY <1>5 DEF AllocateRead, Asked, TypeOK
<1> QED
  BY <1>1, <1>2, <1>3, <1>4, <1>5 DEF Next, vars, CreateLine, RemoveLine, CommitWrite, Settle,
     Release, AllocateWrite

LEMMA StepImplements ==
  IInv /\ Asked /\ BookExplainsLine /\ [Next]_vars => [Book!Next]_Book!vars
<1> SUFFICES ASSUME IInv, Asked, BookExplainsLine, [Next]_vars
             PROVE  [Book!Next]_Book!vars
  OBVIOUS
<1>1. CASE UNCHANGED <<line, commitment>>
  BY <1>1, Stutter DEF Approved, Live
<1>2. ASSUME NEW r \in Request, NEW c \in Commitment, CommitWrite(r, c)
      PROVE  [Book!Next]_Book!vars
  BY <1>2, CommitImplements DEF Asked, CommitWrite
<1>3. ASSUME NEW r \in Request, AllocateWrite(r)
      PROVE  [Book!Next]_Book!vars
  <2>1. request[r].pc = "allocating" /\ TypeOK
    BY <1>3 DEF AllocateWrite, IInv
  <2>2. request[r].line \in Line /\ request[r].value \in Amounts
    BY <2>1, Locals DEF Asked
  <2> QED
    BY <1>3, <2>2, AllocateImplements
<1> QED
  BY <1>1, <1>2, <1>3, CreateImplements, RemoveImplements, SettleImplements, ReleaseImplements
  DEF Next, vars, CommitLock, CloseLock, AllocateRead

LEMMA InitImplements == Init => Book!Init /\ Asked
<1> SUFFICES ASSUME Init PROVE Book!Init /\ Asked
  OBVIOUS
<1>1. \A l \in Line : Approved(l) = Absent
  BY DEF Init, Approved, Live, Absent
<1> QED
  BY <1>1 DEF Init, Asked, Idle, Book!Init, Book!Absent, Absent

(* BudgetCommitmentService implements the abstract book of commitments:    *)
(* its locks make commit, settle, release and allocate take effect in one  *)
(* step each, against the credit that the commitments themselves leave.    *)
THEOREM BookIsImplemented == Spec => ImplementsBook
<1>1. IInv => TypeOK
  BY DEF IInv
<1>2. Spec => []Asked
  BY <1>1, InitImplements, AskedKept, Inductive, PTL DEF Spec
<1> QED
  BY <1>2, InitImplements, StepImplements, Inductive, BookExplainsLineAlways, PTL
  DEF Spec, ImplementsBook, Book!Spec
=============================================================================
