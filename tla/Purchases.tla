----------------------------- MODULE Purchases -----------------------------
(***************************************************************************)
(* Purchase invoices: PurchasesService (create with its idempotency key,   *)
(* receive, cancel).  A client repeats a create until it is answered, with *)
(* the key that belongs to the form; every repetition is a request of its  *)
(* own and may overlap the one it repeats.                                 *)
(*                                                                         *)
(* create is not one transaction: claiming the key, inserting the invoice, *)
(* receiving its goods, storing the answer and freeing the key of a failed *)
(* run commit one after the other, and any of them may fail, or the server *)
(* stop, in between.  cancel reads the invoice before its transaction, and *)
(* in it looks for the entry to reverse before it waits for the row.       *)
(*                                                                         *)
(* Data abstraction: every form orders the same goods, so stock is counted *)
(* in consignments; the journal of an invoice is the number of its live    *)
(* entries of the types Purchase and PurchaseFreight.                      *)
(***************************************************************************)
EXTENDS Sequences, FiniteSetsExt, Integers

CONSTANTS Keys,           \* forms, named by their idempotency keys
          ReceivedAtOnce, \* the forms that are to be received, too
          Requests,       \* concurrent requests
          Free,           \* a key without an IdempotencyKey row
          MaxPurchases,   \* bound: invoices
          MaxFailures,    \* bound: operations that fail
          MaxCrashes      \* bound: restarts of the server, keys it could not free

ASSUME PurchasesConstants ==
  /\ ReceivedAtOnce \subseteq Keys /\ Free \notin Nat
  /\ MaxPurchases \in Nat /\ MaxFailures \in Nat /\ MaxCrashes \in Nat

VARIABLES key,       \* the IdempotencyKey row of a form: 0 as long as its response
                     \* is null, then the invoice in the response
          purchases, \* the invoices; an invoice's id is its index
          stock,     \* consignments in the warehouse
          answers,   \* the invoices a form was answered with
          request,   \* the requests and their locals
          failures, crashes

vars == <<key, purchases, stock, answers, request, failures, crashes>>

Idle == [pc |-> "idle"]

Invoice == [key : Keys, status : {"PENDING", "RECEIVED", "CANCELLED"},
            entries : Nat, freight : Nat]

RequestStates ==
  [pc : {"creating", "failed"}, key : Keys]
  \cup [pc : {"created", "storing"}, key : Keys, id : Nat]
  \cup [pc : {"cancelling"}, id : Nat]
  \cup [pc : {"reversing"}, id : Nat, entry : BOOLEAN]
  \cup {Idle}

TypeOK ==
  /\ key \in [Keys -> Nat \cup {Free}]
  /\ purchases \in Seq(Invoice) /\ stock \in Nat
  /\ answers \in [Keys -> SUBSET Nat]
  /\ request \in [Requests -> RequestStates]
  /\ failures \in 0..MaxFailures /\ crashes \in 0..MaxCrashes

Init ==
  /\ key = [k \in Keys |-> Free]
  /\ purchases = <<>> /\ stock = 0
  /\ answers = [k \in Keys |-> {}]
  /\ request = [r \in Requests |-> Idle]
  /\ failures = 0 /\ crashes = 0
-----------------------------------------------------------------------------
Goes(r, state) == request' = [request EXCEPT ![r] = state]

\* Mutant: a key whose response is null may be claimed again.
ClaimableUnanswered(k) == key[k] \in {Free, 0}

\* INSERT ... ON CONFLICT DO NOTHING returns a row.
Claimable(k) == key[k] = Free

\* The bound: every create under way may still insert its invoice.
Room == Len(purchases) + Cardinality({r \in Requests : request[r].pc = "creating"})
          < MaxPurchases

(* create: the key is claimed before anything else.                        *)
Claim(r, k) ==
  /\ request[r] = Idle /\ Claimable(k) /\ Room
  /\ key' = [key EXCEPT ![k] = 0]
  /\ Goes(r, [pc |-> "creating", key |-> k])
  /\ UNCHANGED <<purchases, stock, answers, failures, crashes>>

(* create of a key that has a response: the same answer again.  (If it has *)
(* none the answer is 409 and nothing changes.)                            *)
Repeat(k) ==
  /\ key[k] \in Nat \ {0}
  /\ answers' = [answers EXCEPT ![k] = @ \cup {key[k]}]
  /\ UNCHANGED <<key, purchases, stock, request, failures, crashes>>

(* createInner: the invoice and its items, in one transaction.             *)
CreateInner(r) ==
  LET k == request[r].key
      id == Len(purchases) + 1 IN
  /\ request[r].pc = "creating"
  /\ purchases' = Append(purchases,
       [key |-> k, status |-> "PENDING", entries |-> 0, freight |-> 0])
  /\ Goes(r, [pc |-> IF k \in ReceivedAtOnce THEN "created" ELSE "storing",
              key |-> k, id |-> id])
  /\ UNCHANGED <<key, stock, answers, failures, crashes>>

\* Mutant: the status is not looked at.
ReceivableAlways(i) == TRUE

Receivable(i) == purchases[i].status = "PENDING"

\* The invoice with its entries: receiving adds one of each type.
WithEntries(p) ==
  [key |-> p.key, status |-> "RECEIVED", entries |-> p.entries + 1, freight |-> p.freight + 1]

(* receive: the invoice is locked; goods in, both entries, RECEIVED.       *)
Received(i) ==
  /\ i \in DOMAIN purchases /\ Receivable(i)
  /\ stock' = stock + 1
  /\ purchases' = [purchases EXCEPT ![i] = WithEntries(purchases[i])]

(* The receiving of create ...                                             *)
ReceiveCreated(r) ==
  /\ request[r].pc = "created" /\ Received(request[r].id)
  /\ Goes(r, [request[r] EXCEPT !.pc = "storing"])
  /\ UNCHANGED <<key, answers, failures, crashes>>

(* ... refused because others were faster with the new invoice ...         *)
ReceiveRefused(r) ==
  /\ request[r].pc = "created" /\ ~Receivable(request[r].id)
  /\ Goes(r, [pc |-> "failed", key |-> request[r].key])
  /\ UNCHANGED <<key, purchases, stock, answers, failures, crashes>>

(* ... and the one of the list of invoices.                                *)
Receive(i) ==
  /\ Received(i)
  /\ UNCHANGED <<key, answers, request, failures, crashes>>

(* create: the response is stored; the answer may be lost on its way.      *)
Store(r) ==
  LET q == request[r] IN
  /\ q.pc = "storing"
  /\ key' = [key EXCEPT ![q.key] = q.id]
  /\ UNCHANGED answers \/ answers' = [answers EXCEPT ![q.key] = @ \cup {q.id}]
  /\ Goes(r, Idle)
  /\ UNCHANGED <<purchases, stock, failures, crashes>>

(* A step of create fails and has no effect: unknown goods, a taken entry  *)
(* number, no connection.  What was committed before stays.                *)
Fail(r) ==
  /\ request[r].pc \in {"creating", "created", "storing"} /\ failures < MaxFailures
  /\ Goes(r, [pc |-> "failed", key |-> request[r].key])
  /\ failures' = failures + 1
  /\ UNCHANGED <<key, purchases, stock, answers, crashes>>

\* Mutant: the failed key keeps its row.
FreedNever(k) == key

\* DELETE FROM "IdempotencyKey".
Freed(k) == [key EXCEPT ![k] = Free]

(* create: the key of a failed run is freed, the error goes to the client. *)
FreeKey(r) ==
  /\ request[r].pc = "failed"
  /\ key' = Freed(request[r].key)
  /\ Goes(r, Idle)
  /\ UNCHANGED <<purchases, stock, answers, failures, crashes>>

(* ... unless that fails as well, which is ignored.                        *)
FreeKeyFails(r) ==
  /\ request[r].pc = "failed" /\ crashes < MaxCrashes
  /\ crashes' = crashes + 1
  /\ Goes(r, Idle)
  /\ UNCHANGED <<key, purchases, stock, answers, failures>>

(* The server is restarted: no request goes on.                            *)
Crash ==
  /\ crashes < MaxCrashes
  /\ crashes' = crashes + 1
  /\ request' = [r \in Requests |-> Idle]
  /\ UNCHANGED <<key, purchases, stock, answers, failures>>
-----------------------------------------------------------------------------
(* cancel: a received invoice is refused, outside the transaction ...      *)
CancelRead(r, i) ==
  /\ request[r] = Idle
  /\ i \in DOMAIN purchases /\ purchases[i].status # "RECEIVED"
  /\ Goes(r, [pc |-> "cancelling", id |-> i])
  /\ UNCHANGED <<key, purchases, stock, answers, failures, crashes>>

(* ... in it the entry of the invoice, if there is one, is reversed ...    *)
CancelReverse(r) ==
  /\ request[r].pc = "cancelling"
  /\ Goes(r, [pc |-> "reversing", id |-> request[r].id,
              entry |-> purchases[request[r].id].entries > 0])
  /\ UNCHANGED <<key, purchases, stock, answers, failures, crashes>>

\* Mutant: an entry may be reversed twice.
ReversibleAgain(i) == TRUE

\* postIn of the reversal: the unique key on the source lets one entry through.
Reversible(i) == purchases[i].entries > 0

\* The invoice without the entry that was found; the freight keeps its own.
Cancelled(p, entry) ==
  [key |-> p.key, status |-> "CANCELLED",
   entries |-> IF entry THEN p.entries - 1 ELSE p.entries, freight |-> p.freight]

(* ... and the status is set, whatever it is by now; the commit.           *)
CancelMark(r) ==
  LET q == request[r] IN
  /\ q.pc = "reversing"
  /\ q.entry => Reversible(q.id)
  /\ purchases' = [purchases EXCEPT ![q.id] = Cancelled(purchases[q.id], q.entry)]
  /\ Goes(r, Idle)
  /\ UNCHANGED <<key, stock, answers, failures, crashes>>

(* The transaction fails: another one reversed the entry, or any reason.   *)
CancelFails(r) ==
  /\ request[r].pc \in {"cancelling", "reversing"}
  /\ Goes(r, Idle)
  /\ UNCHANGED <<key, purchases, stock, answers, failures, crashes>>

\* A create goes on by itself.
CreateStep(r) ==
  \/ CreateInner(r) \/ ReceiveCreated(r) \/ ReceiveRefused(r) \/ Store(r)
  \/ Fail(r) \/ FreeKey(r)

Next ==
  \/ \E r \in Requests :
       \/ \E k \in Keys : Claim(r, k)
       \/ CreateStep(r) \/ FreeKeyFails(r)
       \/ \E i \in DOMAIN purchases : CancelRead(r, i)
       \/ CancelReverse(r) \/ CancelMark(r) \/ CancelFails(r)
  \/ \E k \in Keys : Repeat(k)
  \/ \E i \in DOMAIN purchases : Receive(i)
  \/ Crash

Spec == Init /\ [][Next]_vars

(* The steps of a create follow each other by themselves: each awaits one  *)
(* statement of the database, which answers or fails.                      *)
FairSpec == Spec /\ \A r \in Requests : WF_vars(CreateStep(r))
-----------------------------------------------------------------------------
(* Migration 045: whatever fails and is repeated, in whatever overlap, a   *)
(* form is never answered with two different invoices.                     *)
AnswersAgree == \A k \in Keys : \A i, j \in answers[k] : i = j

(* receive: the goods of an invoice come in at most once, whether by the   *)
(* create itself, from the list or around a cancellation; what is in stock *)
(* has its freight entries.                                                *)
GoodsComeInOnce ==
  /\ \A i \in DOMAIN purchases : purchases[i].freight <= 1
  /\ stock = Cardinality({i \in DOMAIN purchases : purchases[i].freight = 1})

(* create: as long as the server stays up and can free keys, a claimed key *)
(* gets a response or is freed; the form is not answered 409 for ever.     *)
KeyIsSettled ==
  \A k \in Keys : key[k] = 0 /\ crashes = 0 ~> key[k] # 0 \/ crashes > 0

(* create: the key keeps a repeated form from becoming a second invoice.   *)
OneInvoicePerForm ==
  \A i, j \in DOMAIN purchases : purchases[i].key = purchases[j].key => i = j

(* Migration 045: a null response means that the request is still running. *)
NullMeansRunning ==
  \A k \in Keys : key[k] = 0 =>
    \E r \in Requests :
      /\ request[r].pc \in {"creating", "created", "storing", "failed"}
      /\ request[r].key = k

(* cancel: a received invoice cannot be cancelled; the goods of a          *)
(* cancelled one are not in stock.                                         *)
CancelledHasNoGoods ==
  \A i \in DOMAIN purchases : purchases[i].status = "CANCELLED" => purchases[i].freight = 0
=============================================================================
