---------------------------- MODULE SerialLedger ----------------------------
(***************************************************************************)
(* What the general ledger promises, without transactions, locks and       *)
(* numbers: every posting, reversal, close and opening takes effect in one *)
(* step, computed from the journal as it is at that step.  GeneralLedger   *)
(* implements it.                                                          *)
(*                                                                         *)
(* It promises no more than the code keeps: a posting may still enter a    *)
(* year that was closed without a closing entry, so `Takes' asks only for  *)
(* a year that exists and has none.                                        *)
(***************************************************************************)
EXTENDS Sequences, FiniteSetsExt, Integers

CONSTANTS Permanent, Temporary, RetainedEarnings, Documents, DocumentLines, Years

VARIABLES entries, \* the journal
          status   \* of the fiscal years

vars == <<entries, status>>

Accounts == Permanent \cup Temporary
NoSource == 0

Init ==
  /\ entries = <<>>
  /\ status = [y \in Years |-> "NONE"]
-----------------------------------------------------------------------------
Net(a, years) ==
  SumFunctionOnSet([i \in DOMAIN entries |-> entries[i].lines[a]],
                   {i \in DOMAIN entries : entries[i].year \in years})

Result(y) == SumFunctionOnSet([b \in Temporary |-> Net(b, {y})], Temporary)

Active(y) == \E a \in Temporary : Net(a, {y}) # 0

Takes(y) ==
  /\ status[y] # "NONE"
  /\ \A i \in DOMAIN entries : entries[i].type = "FiscalYearClose" => entries[i].year # y

Live(i) == entries[i].status = "POSTED"

\* One entry, and the one it voids if i is not 0.
Enter(type, source, y, lines, i) ==
  /\ Takes(y)
  /\ \E a \in Accounts : lines[a] # 0
  /\ source # NoSource =>
       \A k \in DOMAIN entries :
         entries[k].type = type /\ entries[k].source = source => ~Live(k)
  /\ entries' =
       Append([k \in DOMAIN entries |->
                 IF k = i THEN [entries[k] EXCEPT !.status = "REVERSED"] ELSE entries[k]],
              [type |-> type, source |-> source, year |-> y, status |-> "POSTED",
               lines |-> lines])

Create(y) ==
  /\ status[y] = "NONE"
  /\ status' = [status EXCEPT ![y] = "OPEN"]
  /\ UNCHANGED entries

Document(d, y, lines) == Enter("DOCUMENT", d, y, lines, 0) /\ UNCHANGED status

Manual(y, lines) == Enter("MANUAL", NoSource, y, lines, 0) /\ UNCHANGED status

(* The mirror of a live entry of an open year, which it voids.             *)
Reverse(i, y) ==
  /\ Live(i) /\ status[entries[i].year] = "OPEN"
  /\ Enter("REVERSAL", i, y, [a \in Accounts |-> -entries[i].lines[a]], i)
  /\ UNCHANGED status

(* Everything the year's temporary accounts hold goes to retained earnings *)
(* and the year is closed, both at once.                                   *)
Close(y) ==
  /\ status[y] = "OPEN" /\ Active(y) /\ Result(y) # 0
  /\ Enter("FiscalYearClose", y, y,
           [a \in Accounts |->
              IF a \in Temporary THEN -Net(a, {y})
              ELSE IF a = RetainedEarnings THEN Result(y) ELSE 0], 0)
  /\ status' = [status EXCEPT ![y] = "CLOSED"]

CloseEmpty(y) ==
  /\ status[y] = "OPEN" /\ ~Active(y)
  /\ status' = [status EXCEPT ![y] = "CLOSED"]
  /\ UNCHANGED entries

(* What the years up to a closed one, p, left on the permanent accounts.   *)
Open(y, p) ==
  LET carried == [a \in Accounts |->
                    IF a \in Permanent THEN Net(a, {x \in Years : x <= p}) ELSE 0]
  IN /\ p < y /\ status[p] = "CLOSED"
     /\ SumFunctionOnSet(carried, Accounts) = 0
     /\ Enter("FiscalYearOpen", y, y, carried, 0)
     /\ UNCHANGED status
-----------------------------------------------------------------------------
Next ==
  \E y \in Years :
    \/ Create(y) \/ Close(y) \/ CloseEmpty(y)
    \/ \E lines \in DocumentLines :
         Manual(y, lines) \/ \E d \in Documents : Document(d, y, lines)
    \/ \E i \in DOMAIN entries : Reverse(i, y)
    \/ \E p \in Years : Open(y, p)

Spec == Init /\ [][Next]_vars
=============================================================================
