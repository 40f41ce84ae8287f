----------------------------- MODULE CreditBook -----------------------------
(***************************************************************************)
(* What BudgetCommitmentService promises, without requests, locks and      *)
(* running totals: a book of commitments, every one of them entered and    *)
(* closed in one step, and the credit that is left of a line read from the *)
(* book itself.  Commitments implements it.                                *)
(***************************************************************************)
EXTENDS FiniteSetsExt, Integers

CONSTANTS Line, Commitment, Source, NoSource, MaxAmount

VARIABLES credit, \* what is approved and allocated for each line
          book    \* the commitments

vars == <<credit, book>>

NoAllocation == -1
Absent == [status |-> "NONE"]
Gone == [status |-> "GONE"]

Init ==
  /\ credit = [l \in Line |-> Absent]
  /\ book = [c \in Commitment |-> Absent]
-----------------------------------------------------------------------------
Share(c, l, status) ==
  IF book[c].status = status /\ book[c].line = l THEN book[c].amount ELSE 0

Total(l, status) == SumFunctionOnSet([c \in Commitment |-> Share(c, l, status)], Commitment)

Free(l) ==
  (IF credit[l].allocated = NoAllocation THEN credit[l].amount ELSE credit[l].allocated)
    - (Total(l, "OPEN") + Total(l, "SETTLED"))

Approve(l, amount, allocated) ==
  /\ credit[l] = Absent /\ allocated <= amount
  /\ credit' = [credit EXCEPT ![l] = [status |-> "LIVE", amount |-> amount,
                                      allocated |-> allocated]]
  /\ UNCHANGED book

Commit(c, l, amount, source) ==
  /\ credit[l].status = "LIVE" /\ book[c] = Absent
  /\ amount > 0 /\ amount <= Free(l)
  /\ source = NoSource \/ \A d \in Commitment : book[d].status = "OPEN" => book[d].source # source
  /\ book' = [book EXCEPT ![c] = [status |-> "OPEN", line |-> l,
                                  source |-> source, amount |-> amount]]
  /\ UNCHANGED credit

Settle(c, actual) ==
  /\ book[c].status = "OPEN" /\ actual > 0 /\ actual <= book[c].amount
  /\ book' = [book EXCEPT ![c].status = "SETTLED", ![c].amount = actual]
  /\ UNCHANGED credit

Release(c) ==
  /\ book[c].status = "OPEN"
  /\ book' = [book EXCEPT ![c].status = "RELEASED"]
  /\ UNCHANGED credit

Allocate(l, value) ==
  /\ credit[l].status = "LIVE" /\ value <= credit[l].amount
  /\ credit' = [credit EXCEPT ![l].allocated = value]
  /\ UNCHANGED book

Withdraw(l) ==
  /\ credit[l].status = "LIVE"
  /\ credit' = [credit EXCEPT ![l] = Gone]
  /\ book' = [c \in Commitment |->
                IF book[c] # Absent /\ book[c].line = l THEN Absent ELSE book[c]]
-----------------------------------------------------------------------------
Amounts == 0..MaxAmount

Next ==
  \/ \E l \in Line : Withdraw(l)
  \/ \E l \in Line, a \in Amounts, b \in Amounts \cup {NoAllocation} : Approve(l, a, b)
  \/ \E l \in Line, a \in Amounts : Allocate(l, a)
  \/ \E c \in Commitment :
       \/ \E l \in Line, a \in Amounts, s \in Source \cup {NoSource} : Commit(c, l, a, s)
       \/ \E a \in Amounts : Settle(c, a)
       \/ Release(c)

Spec == Init /\ [][Next]_vars
=============================================================================
