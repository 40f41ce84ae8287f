---------------------------- MODULE OnlineOrder ----------------------------
(***************************************************************************)
(* A web shop order: its payment through the gateway (PaymentService       *)
(* .start and .verify over ZarinpalGateway) and its handling by the staff  *)
(* (ShopService.confirm and .setStatus).                                   *)
(*                                                                         *)
(* Both payment operations read the order, wait for the gateway (up to 15  *)
(* seconds, with no lock and no transaction) and then write the order with *)
(* an unconditional UPDATE.  Requests of one order may overlap: the back   *)
(* button, a second tab, a reloaded callback page.                         *)
(*                                                                         *)
(* The gateway is external, modelled by what the code expects of it: a     *)
(* started payment has a reference, the customer pays it once at the       *)
(* address of the redirect, the first verification captures it (code 100), *)
(* later ones say so again (101), and any answer may be lost.  It counts   *)
(* in tomans, the order in rials.                                          *)
(***************************************************************************)
EXTENDS Sequences, Integers

CONSTANTS Orders,      \* orders of the shop, all placed
          Total,       \* their totals, in rials
          Requests,    \* concurrent requests of customers
          NoRef,       \* paymentRef is null
          MaxPayments, \* bound: payments started at the gateway
          MaxConfirms  \* bound: confirmations of an order

ASSUME OnlineOrderConstants ==
  /\ Total \in [Orders -> Nat]
  /\ NoRef \notin Nat /\ MaxPayments \in Nat /\ MaxConfirms \in Nat

VARIABLES paymentStatus, \* OnlineOrder.paymentStatus
          paymentRef,    \* OnlineOrder.paymentRef
          status,        \* OnlineOrder.status
          salesOrders,   \* how many SalesOrders were made from the order
          gateway,       \* payments at the gateway; the reference is the index
          request        \* the requests and their locals

vars == <<paymentStatus, paymentRef, status, salesOrders, gateway, request>>

Statuses == {"PLACED", "CONFIRMED", "PREPARING", "SHIPPED", "DELIVERED", "CANCELLED"}
Idle == [pc |-> "idle"]

NoAmount == -1

\* What PaymentGateway.verify returns: not ok (refused, or no answer in time),
\* or ok, with the amount said to be paid if the gateway told it.
Answers == [ok : BOOLEAN, paidAmount : Nat \cup {NoAmount}]
Failed == [ok |-> FALSE, paidAmount |-> NoAmount]

RequestStates ==
  [pc : {"starting"}, order : Orders]
  \cup [pc : {"started", "verifying"}, order : Orders, ref : 1..MaxPayments]
  \cup [pc : {"verified"}, order : Orders, ref : 1..MaxPayments, answer : Answers]
  \cup {Idle}

Payment == [order : Orders, amount : Nat,
            state : {"requested", "offered", "paid", "captured"}]

TypeOK ==
  /\ paymentStatus \in [Orders -> {"PENDING", "PAID", "FAILED"}]
  /\ paymentRef \in [Orders -> 1..MaxPayments \cup {NoRef}]
  /\ status \in [Orders -> Statuses]
  /\ salesOrders \in [Orders -> 0..MaxConfirms]
  /\ gateway \in Seq(Payment) /\ Len(gateway) <= MaxPayments
  /\ request \in [Requests -> RequestStates]

Init ==
  /\ paymentStatus = [o \in Orders |-> "PENDING"]
  /\ paymentRef = [o \in Orders |-> NoRef]
  /\ status = [o \in Orders |-> "PLACED"]
  /\ salesOrders = [o \in Orders |-> 0]
  /\ gateway = <<>>
  /\ request = [r \in Requests |-> Idle]
-----------------------------------------------------------------------------
Goes(r, state) == request' = [request EXCEPT ![r] = state]

\* Rials to whole tomans, half up, as Math.round does.
Toman(rials) == (rials + 5) \div 10

(* start: an order already paid is refused.                                *)
Start(r, o) ==
  /\ request[r] = Idle
  /\ paymentStatus[o] # "PAID"
  /\ Goes(r, [pc |-> "starting", order |-> o])
  /\ UNCHANGED <<paymentStatus, paymentRef, status, salesOrders, gateway>>

(* The gateway registers the payment.                                      *)
GatewayStart(r) ==
  LET q == request[r] IN
  /\ q.pc = "starting" /\ Len(gateway) < MaxPayments
  /\ gateway' = Append(gateway,
       [order |-> q.order, amount |-> Toman(Total[q.order]), state |-> "requested"])
  /\ Goes(r, [pc |-> "started", order |-> q.order, ref |-> Len(gateway) + 1])
  /\ UNCHANGED <<paymentStatus, paymentRef, status, salesOrders>>

(* start: the reference is stored, then the customer gets the redirect.    *)
StartStore(r) ==
  LET q == request[r] IN
  /\ q.pc = "started"
  /\ paymentRef' = [paymentRef EXCEPT ![q.order] = q.ref]
  /\ paymentStatus' = [paymentStatus EXCEPT ![q.order] = "PENDING"]
  /\ gateway' = [gateway EXCEPT ![q.ref].state = "offered"]
  /\ Goes(r, Idle)
  /\ UNCHANGED <<status, salesOrders>>

(* The customer pays at the gateway.                                       *)
CustomerPays(i) ==
  /\ i \in DOMAIN gateway /\ gateway[i].state = "offered"
  /\ gateway' = [gateway EXCEPT ![i].state = "paid"]
  /\ UNCHANGED <<paymentStatus, paymentRef, status, salesOrders, request>>

\* Mutant: an order that never went to the gateway is verified, too.
VerifiableUnstarted(o) == paymentStatus[o] # "PAID"

Verifiable(o) == paymentStatus[o] # "PAID" /\ paymentRef[o] # NoRef

(* verify: the order is read; one already paid is answered at once.        *)
Verify(r, o) ==
  /\ request[r] = Idle /\ Verifiable(o)
  /\ Goes(r, [pc |-> "verifying", order |-> o, ref |-> paymentRef[o]])
  /\ UNCHANGED <<paymentStatus, paymentRef, status, salesOrders, gateway>>

(* The gateway captures a paid payment and answers; any answer may fail to *)
(* arrive, and a success may come without its amount.                      *)
GatewayVerify(r) ==
  LET q == request[r]
      payment == gateway[q.ref]
      Told(answer) == Goes(r, [pc |-> "verified", order |-> q.order, ref |-> q.ref,
                               answer |-> answer]) IN
  /\ q.pc = "verifying"
  /\ UNCHANGED <<paymentStatus, paymentRef, status, salesOrders>>
  /\ \/ /\ payment.state \in {"paid", "captured"}
        /\ gateway' = [gateway EXCEPT ![q.ref].state = "captured"]
        /\ \/ Told(Failed)
           \/ \E amount \in {10 * payment.amount, NoAmount} :
                Told([ok |-> TRUE, paidAmount |-> amount])
     \/ Told(Failed) /\ UNCHANGED gateway

\* Mutant: every success counts, the amount is not compared.
CoversWithoutAmount(answer, o) == answer.ok

\* verify: a success counts only with an amount that covers the order.
Covers(answer, o) ==
  answer.ok /\ answer.paidAmount # NoAmount /\ answer.paidAmount >= Total[o]

(* verify: the order is marked, whatever happened to it meanwhile.         *)
VerifyStore(r) ==
  LET q == request[r] IN
  /\ q.pc = "verified"
  /\ IF Covers(q.answer, q.order)
     THEN /\ paymentStatus' = [paymentStatus EXCEPT ![q.order] = "PAID"]
          /\ paymentRef' = [paymentRef EXCEPT ![q.order] = q.ref]
     ELSE /\ paymentStatus' = [paymentStatus EXCEPT ![q.order] = "FAILED"]
          /\ UNCHANGED paymentRef
  /\ Goes(r, Idle)
  /\ UNCHANGED <<status, salesOrders, gateway>>

(* The gateway does not answer a start, or the server restarts while a     *)
(* request waits: it ends without its write.                               *)
Lost(r) ==
  /\ request[r] # Idle
  /\ Goes(r, Idle)
  /\ UNCHANGED <<paymentStatus, paymentRef, status, salesOrders, gateway>>

(* confirm: a placed order becomes a sales order, under FOR UPDATE.        *)
Confirm(o) ==
  /\ status[o] = "PLACED" /\ salesOrders[o] < MaxConfirms
  /\ status' = [status EXCEPT ![o] = "CONFIRMED"]
  /\ salesOrders' = [salesOrders EXCEPT ![o] = @ + 1]
  /\ UNCHANGED <<paymentStatus, paymentRef, gateway, request>>

(* setStatus: any status, unless the order is delivered or cancelled.      *)
SetStatus(o, new) ==
  /\ status[o] \notin {"DELIVERED", "CANCELLED"}
  /\ status' = [status EXCEPT ![o] = new]
  /\ UNCHANGED <<paymentStatus, paymentRef, salesOrders, gateway, request>>

Next ==
  \/ \E r \in Requests :
       \/ \E o \in Orders : Start(r, o) \/ Verify(r, o)
       \/ GatewayStart(r) \/ StartStore(r)
       \/ GatewayVerify(r) \/ VerifyStore(r)
       \/ Lost(r)
  \/ \E i \in 1..MaxPayments : CustomerPays(i)
  \/ \E o \in Orders : Confirm(o) \/ \E new \in Statuses : SetStatus(o, new)

Spec == Init /\ [][Next]_vars
-----------------------------------------------------------------------------
(* verify: an order shown as paid has a reference whose payment was        *)
(* captured, was started for this very order, and covers its total,        *)
(* whichever requests overlapped.                                          *)
PaidIsCaptured ==
  \A o \in Orders : paymentStatus[o] = "PAID" =>
    /\ paymentRef[o] # NoRef
    /\ gateway[paymentRef[o]].order = o
    /\ gateway[paymentRef[o]].state = "captured"
    /\ 10 * gateway[paymentRef[o]].amount >= Total[o]

(* start: a paid order does not go to the gateway again; a customer cannot *)
(* pay it twice.                                                           *)
PaidOnlyOnce ==
  \A i, j \in DOMAIN gateway :
    /\ gateway[i].state = "captured" /\ gateway[j].state = "captured"
    /\ gateway[i].order = gateway[j].order
    => i = j

(* start: the reference is stored before the customer pays, so that every  *)
(* payment can be matched: one that was paid but not captured yet is the   *)
(* one the order refers to.                                                *)
PaymentsCanBeMatched ==
  \A i \in DOMAIN gateway : gateway[i].state = "paid" => paymentRef[gateway[i].order] = i

(* verify: reloading the callback page never marks a paid order as failed. *)
PaidIsNotMarkedFailed ==
  [][\A o \in Orders : paymentStatus[o] = "PAID" => paymentStatus'[o] # "FAILED"]_vars

(* ZarinpalGateway: a payment the gateway reports as made, with its        *)
(* amount, is not marked as failed: what it charged was the order's total. *)
SuccessIsNotFailure ==
  [][\A r \in Requests :
       request[r].pc = "verified" /\ request'[r] # request[r]
       /\ request[r].answer.paidAmount # NoAmount =>
         LET o == request[r].order IN
         paymentStatus'[o] = "FAILED" => paymentStatus[o] = "FAILED"]_vars

(* confirm: an order is confirmed once, into one sales order.              *)
ConfirmedOnce == \A o \in Orders : salesOrders[o] <= 1
=============================================================================
