------------------------- MODULE OnlineOrder_proofs -------------------------
(***************************************************************************)
(* Proofs about OnlineOrder, for any orders and totals and any number of   *)
(* overlapping requests: whatever they do, an order shown as paid was      *)
(* captured in full.  And, below, about Restaurant: the orders at the      *)
(* tables, their drawer and its shifts.                                    *)
(*                                                                         *)
(* PaidIsCaptured is not inductive alone: the write that marks an order as *)
(* paid relies on what the request learnt before it waited.  IInv adds     *)
(* that references are never mixed up between orders, that an answer kept  *)
(* by a request is still true, and that a payment whose redirect is not    *)
(* stored yet is owned by one request.                                     *)
(*                                                                         *)
(* RestaurantInv adds to the restaurant's properties what a call relies on *)
(* between two steps, that charges are at a rate, and that every order     *)
(* has one shift its money came in under.                                  *)
(***************************************************************************)
EXTENDS OnlineOrder, Restaurant, SequenceTheorems, Lemmas

RefersTo(i, o) == i \in DOMAIN gateway /\ gateway[i].order = o

StoredRefsMatch ==
  \A o \in Orders : paymentRef[o] # NoRef => RefersTo(paymentRef[o], o)

HeldRefsMatch ==
  \A r \in Requests : request[r].pc \in {"started", "verifying", "verified"} =>
    RefersTo(request[r].ref, request[r].order)

AnswersAreTrue ==
  \A r \in Requests : request[r].pc = "verified" /\ request[r].answer.ok =>
    /\ gateway[request[r].ref].state = "captured"
    /\ request[r].answer.paidAmount \in {NoAmount, 10 * gateway[request[r].ref].amount}

StartsAreOwned ==
  \A r \in Requests : request[r].pc = "started" =>
    /\ gateway[request[r].ref].state = "requested"
    /\ \A x \in Requests \ {r} : request[x].pc = "started" => request[x].ref # request[r].ref

IInv ==
  /\ TypeOK
  /\ StoredRefsMatch /\ HeldRefsMatch
  /\ AnswersAreTrue /\ StartsAreOwned
  /\ PaidIsCaptured
-----------------------------------------------------------------------------
WithState(i, st) == [gateway EXCEPT ![i].state = st]

(* Changing the state of a payment keeps the sequence, its references and  *)
(* what each payment is for.                                               *)
LEMMA StateChange ==
  ASSUME TypeOK, NEW i \in DOMAIN gateway,
         NEW st \in {"requested", "offered", "paid", "captured"},
         NEW g, g = WithState(i, st)
  PROVE  /\ g \in Seq(Payment) /\ Len(g) = Len(gateway) /\ DOMAIN g = DOMAIN gateway
         /\ g[i].state = st
         /\ \A j \in DOMAIN gateway : /\ g[j].order = gateway[j].order
                                      /\ g[j].amount = gateway[j].amount
                                      /\ j # i => g[j] = gateway[j]
<1>1. gateway \in Seq(Payment)
  BY DEF TypeOK
<1>2. gateway \in [1..Len(gateway) -> Payment] /\ Len(gateway) \in Nat
  BY <1>1
<1>3. \A j \in 1..Len(gateway) : g[j] \in Payment
  BY <1>2 DEF Payment, WithState
<1>4. g \in [1..Len(gateway) -> Payment]
  BY <1>2, <1>3 DEF WithState
<1>5. g \in Seq(Payment) /\ Len(g) = Len(gateway)
  BY <1>2, <1>4, SeqDef
<1>6. i \in 1..Len(gateway)
  BY <1>2
<1>7. \A j \in DOMAIN gateway : gateway[j] \in Payment
  BY <1>2
<1> QED
  BY <1>2, <1>5, <1>6, <1>7 DEF Payment, WithState

(* What the locals of a waiting request are.                               *)
LEMMA Locals ==
  ASSUME TypeOK, NEW r \in Requests
  PROVE  /\ request[r].pc # "idle" => request[r].order \in Orders
         /\ request[r].pc \in {"started", "verifying", "verified"} =>
              request[r].ref \in 1..MaxPayments
         /\ request[r].pc = "verified" => request[r].answer \in Answers
         /\ request[r] # Idle => request[r].pc # "idle"
<1>1. request[r] \in RequestStates
  BY DEF TypeOK
<1> QED
  BY <1>1 DEF RequestStates, Idle

LEMMA Initially == Init => IInv
<1> SUFFICES ASSUME Init PROVE IInv
  OBVIOUS
<1>1. gateway \in Seq(Payment) /\ Len(gateway) = 0
  BY DEF Init
<1>2. TypeOK
  BY <1>1, OnlineOrderConstants DEF Init, TypeOK, Statuses, RequestStates
<1> QED
  BY <1>2 DEF Init, IInv, Idle, StoredRefsMatch, HeldRefsMatch, AnswersAreTrue,
              StartsAreOwned, PaidIsCaptured

(* What a request that only changes its own locals must establish, when    *)
(* gateway, orders and the other requests stay as they are.                *)
LEMMA OnlyLocals ==
  ASSUME IInv, NEW r \in Requests, NEW q \in RequestStates, Goes(r, q),
         UNCHANGED <<paymentStatus, paymentRef, status, salesOrders, gateway>>,
         q.pc = "verifying" => RefersTo(q.ref, q.order),
         q.pc \notin {"started", "verified"}
  PROVE  IInv'
<1>1. TypeOK'
  BY DEF IInv, TypeOK, Goes
<1>2. request \in [Requests -> RequestStates]
  BY DEF IInv, TypeOK
<1>3. \A x \in Requests : request'[x] = IF x = r THEN q ELSE request[x]
  BY <1>2 DEF Goes
<1>4. StoredRefsMatch' /\ PaidIsCaptured'
  BY DEF IInv, StoredRefsMatch, PaidIsCaptured, RefersTo
<1>5. HeldRefsMatch'
  BY <1>3 DEF IInv, HeldRefsMatch, RefersTo
<1>6. AnswersAreTrue'
  BY <1>3 DEF IInv, AnswersAreTrue
<1>7. StartsAreOwned'
  BY <1>3 DEF IInv, StartsAreOwned
<1> QED
  BY <1>1, <1>4, <1>5, <1>6, <1>7 DEF IInv

(* Changing the state of a payment that was not captured disturbs neither  *)
(* the references nor the answers, nor the orders already paid.            *)
LEMMA OnlyState ==
  ASSUME IInv, NEW i \in DOMAIN gateway,
         NEW st \in {"requested", "offered", "paid", "captured"},
         gateway[i].state # "captured" \/ st = "captured",
         gateway' = WithState(i, st),
         UNCHANGED <<paymentStatus, paymentRef>>
  PROVE  /\ gateway' \in Seq(Payment) /\ Len(gateway') = Len(gateway)
         /\ \A k, o : RefersTo(k, o)' <=> RefersTo(k, o)
         /\ StoredRefsMatch' /\ PaidIsCaptured'
         /\ \A k \in DOMAIN gateway :
              /\ gateway'[k].amount = gateway[k].amount
              /\ gateway[k].state = "captured" => gateway'[k].state = "captured"
              /\ k # i => gateway'[k] = gateway[k]
         /\ gateway'[i].state = st
<1>1. TypeOK
  BY DEF IInv
<1>2. /\ gateway' \in Seq(Payment) /\ Len(gateway') = Len(gateway)
      /\ DOMAIN gateway' = DOMAIN gateway
      /\ gateway'[i].state = st
      /\ \A j \in DOMAIN gateway : /\ gateway'[j].order = gateway[j].order
                                   /\ gateway'[j].amount = gateway[j].amount
                                   /\ j # i => gateway'[j] = gateway[j]
  BY <1>1, StateChange
<1>3. \A k, o : RefersTo(k, o)' <=> RefersTo(k, o)
  BY <1>2 DEF RefersTo
<1>4. StoredRefsMatch'
  BY <1>3 DEF IInv, StoredRefsMatch
<1>5. \A k \in DOMAIN gateway : gateway[k].state = "captured" => gateway'[k].state = "captured"
  BY <1>2
<1>6. \A o \in Orders : paymentStatus[o] = "PAID" => paymentRef[o] \in DOMAIN gateway
  BY DEF IInv, PaidIsCaptured, StoredRefsMatch, RefersTo
<1>7. PaidIsCaptured'
  BY <1>2, <1>5, <1>6 DEF IInv, PaidIsCaptured
<1> QED
  BY <1>2, <1>3, <1>4, <1>5, <1>7

(* Every step keeps the invariant.                                         *)
LEMMA Preserved == IInv /\ [Next]_vars => IInv'
<1> SUFFICES ASSUME IInv, [Next]_vars PROVE IInv'
  OBVIOUS
<1> USE OnlineOrderConstants
<1>0. TypeOK
  BY DEF IInv
<1>a. request \in [Requests -> RequestStates] /\ gateway \in Seq(Payment)
      /\ paymentStatus \in [Orders -> {"PENDING", "PAID", "FAILED"}]
      /\ paymentRef \in [Orders -> 1..MaxPayments \cup {NoRef}]
  BY <1>0 DEF TypeOK
<1>b. gateway \in [1..Len(gateway) -> Payment] /\ Len(gateway) \in Nat
      /\ DOMAIN gateway = 1..Len(gateway)
  BY <1>a
<1>1. ASSUME NEW r \in Requests, NEW o \in Orders, Start(r, o) PROVE IInv'
  <2>1. [pc |-> "starting", order |-> o] \in RequestStates
    BY DEF RequestStates
  <2> QED
    BY <1>1, <2>1, OnlyLocals DEF Start
<1>2. ASSUME NEW r \in Requests, NEW o \in Orders, Verify(r, o) PROVE IInv'
  <2>1. paymentRef[o] \in 1..MaxPayments
    BY <1>2, <1>a DEF Verify, Verifiable
  <2>2. [pc |-> "verifying", order |-> o, ref |-> paymentRef[o]] \in RequestStates
    BY <2>1 DEF RequestStates
  <2>3. RefersTo(paymentRef[o], o)
    BY <1>2 DEF IInv, StoredRefsMatch, Verify, Verifiable
  <2> QED
    BY <1>2, <2>2, <2>3, OnlyLocals DEF Verify
<1>3. ASSUME NEW r \in Requests, GatewayStart(r) PROVE IInv'
  <2> DEFINE o == request[r].order
             p == [order |-> o, amount |-> Toman(Total[o]), state |-> "requested"]
             n == Len(gateway) + 1
  <2>1. o \in Orders
    BY <1>0, <1>3, Locals DEF GatewayStart
  <2>2. Toman(Total[o]) \in Nat
    BY <2>1 DEF Toman
  <2>3. p \in Payment
    BY <2>1, <2>2 DEF Payment
  <2>4. gateway' = Append(gateway, p)
    BY <1>3 DEF GatewayStart
  <2>5. /\ gateway' \in Seq(Payment) /\ Len(gateway') = n /\ gateway'[n] = p
        /\ \A k \in 1..Len(gateway) : gateway'[k] = gateway[k]
    BY <1>a, <2>3, <2>4, AppendProperties
  <2>6. n \in 1..MaxPayments /\ n \notin DOMAIN gateway /\ DOMAIN gateway' = 1..n
    BY <1>3, <1>b, <2>5 DEF GatewayStart
  <2>7. \A x \in Requests : request'[x] =
          IF x = r THEN [pc |-> "started", order |-> o, ref |-> n] ELSE request[x]
    BY <1>3, <1>a DEF GatewayStart, Goes
  <2>8. [pc |-> "started", order |-> o, ref |-> n] \in RequestStates
    BY <2>1, <2>6 DEF RequestStates
  <2>9. TypeOK'
    <3>1. request' \in [Requests -> RequestStates]
      BY <1>3, <1>a, <2>8 DEF GatewayStart, Goes
    <3>2. Len(gateway') <= MaxPayments
      BY <2>5, <2>6
    <3> QED
      BY <1>0, <1>3, <2>5, <3>1, <3>2 DEF TypeOK, GatewayStart
  <2>10. \A k, x : RefersTo(k, x) => RefersTo(k, x)' /\ gateway'[k] = gateway[k] /\ k # n
    BY <1>b, <2>5, <2>6 DEF RefersTo
  <2>11. n \in DOMAIN gateway' /\ gateway'[n].order = o
    BY <2>5, <2>6
  <2>u. UNCHANGED <<paymentStatus, paymentRef>>
    BY <1>3 DEF GatewayStart
  <2> HIDE DEF p, n, o
  <2>12. StoredRefsMatch'
    BY <2>u, <2>10 DEF IInv, StoredRefsMatch
  <2>13. HeldRefsMatch'
    BY <2>7, <2>10, <2>11 DEF IInv, HeldRefsMatch, RefersTo
  <2>14. AnswersAreTrue'
    BY <2>7, <2>10 DEF IInv, HeldRefsMatch, AnswersAreTrue
  <2>15. StartsAreOwned'
    BY <2>5, <2>7, <2>10 DEF IInv, HeldRefsMatch, StartsAreOwned, p
  <2>16. PaidIsCaptured'
    BY <2>u, <2>10 DEF IInv, StoredRefsMatch, PaidIsCaptured
  <2> QED
    BY <2>9, <2>12, <2>13, <2>14, <2>15, <2>16 DEF IInv
<1>4. ASSUME NEW r \in Requests, StartStore(r) PROVE IInv'
  <2> DEFINE i == request[r].ref
             o == request[r].order
  <2>1. request[r].pc = "started" /\ o \in Orders /\ i \in 1..MaxPayments
    BY <1>0, <1>4, Locals DEF StartStore
  <2>2. i \in DOMAIN gateway /\ gateway[i].order = o /\ gateway[i].state = "requested"
    BY <2>1 DEF IInv, HeldRefsMatch, RefersTo, StartsAreOwned
  <2>3. /\ \A x \in Orders : paymentRef'[x] = IF x = o THEN i ELSE paymentRef[x]
        /\ \A x \in Orders : paymentStatus'[x] = IF x = o THEN "PENDING" ELSE paymentStatus[x]
        /\ gateway' = WithState(i, "offered")
        /\ \A x \in Requests : request'[x] = IF x = r THEN Idle ELSE request[x]
    BY <1>4, <1>a DEF StartStore, Goes, WithState
  <2>s. gateway' \in Seq(Payment) /\ Len(gateway') = Len(gateway)
    BY <1>0, <2>2, <2>3, StateChange
  <2>4. /\ DOMAIN gateway' = DOMAIN gateway /\ gateway'[i].state = "offered"
        /\ \A j \in DOMAIN gateway : /\ gateway'[j].order = gateway[j].order
                                     /\ gateway'[j].amount = gateway[j].amount
                                     /\ j # i => gateway'[j] = gateway[j]
    BY <1>0, <2>2, <2>3, StateChange
  <2>5. TypeOK'
    <3>1. /\ paymentStatus' \in [Orders -> {"PENDING", "PAID", "FAILED"}]
          /\ paymentRef' \in [Orders -> 1..MaxPayments \cup {NoRef}]
      BY <1>4, <1>a, <2>1 DEF StartStore
    <3>2. request' \in [Requests -> RequestStates]
      BY <1>4, <1>a DEF StartStore, Goes, RequestStates
    <3> QED
      BY <1>0, <1>4, <2>s, <3>1, <3>2 DEF TypeOK, StartStore
  <2>7. RefersTo(i, o)
    BY <2>2 DEF RefersTo
  <2>r. \A x \in Requests \ {r} : request[x].pc = "started" =>
          request[x].ref \in DOMAIN gateway /\ request[x].ref # i
    BY <2>1 DEF IInv, HeldRefsMatch, RefersTo, StartsAreOwned
  <2> HIDE DEF i, o
  <2>o. /\ DOMAIN gateway' = DOMAIN gateway
        /\ \A j \in DOMAIN gateway : gateway'[j].order = gateway[j].order
    BY <2>4
  <2>6. \A k, x : RefersTo(k, x)' <=> RefersTo(k, x)
    BY <2>o DEF RefersTo
  <2>8. StoredRefsMatch'
    BY <2>3, <2>6, <2>7 DEF IInv, StoredRefsMatch
  <2>9. HeldRefsMatch'
    BY <2>3, <2>6 DEF IInv, HeldRefsMatch, Idle
  <2>10. AnswersAreTrue'
    <3>1. \A x \in Requests : request'[x].pc = "verified" =>
            /\ request'[x] = request[x] /\ request[x].pc = "verified"
            /\ request[x].ref \in DOMAIN gateway
      BY <2>3 DEF IInv, HeldRefsMatch, RefersTo, Idle
    <3>2. \A x \in Requests : request[x].pc = "verified" /\ request[x].answer.ok =>
            request[x].ref # i
      BY <2>2 DEF IInv, AnswersAreTrue
    <3>3. \A x \in Requests : request'[x].pc = "verified" /\ request[x].answer.ok =>
            gateway'[request[x].ref] = gateway[request[x].ref]
      BY <2>4, <3>1, <3>2
    <3> QED
      BY <3>1, <3>3 DEF IInv, AnswersAreTrue
  <2>11. StartsAreOwned'
    <3>1. \A x \in Requests : request'[x].pc = "started" =>
            x # r /\ request'[x] = request[x] /\ gateway'[request[x].ref] = gateway[request[x].ref]
      BY <2>3, <2>4, <2>r DEF Idle
    <3> QED
      BY <3>1 DEF IInv, StartsAreOwned
  <2>12. PaidIsCaptured'
    <3>1. \A x \in Orders \ {o} : paymentStatus[x] = "PAID" =>
            paymentRef[x] \in DOMAIN gateway /\ paymentRef[x] # i
      BY <2>2 DEF IInv, PaidIsCaptured, StoredRefsMatch, RefersTo
    <3> QED
      BY <2>3, <2>4, <3>1 DEF IInv, PaidIsCaptured
  <2> QED
    BY <2>5, <2>8, <2>9, <2>10, <2>11, <2>12 DEF IInv
<1>5. ASSUME NEW i \in 1..MaxPayments, CustomerPays(i) PROVE IInv'
  <2>1. /\ i \in DOMAIN gateway /\ gateway[i].state = "offered"
        /\ gateway' = WithState(i, "paid")
        /\ UNCHANGED <<paymentStatus, paymentRef, request>>
    BY <1>5 DEF CustomerPays, WithState
  <2>2. /\ gateway' \in Seq(Payment) /\ Len(gateway') = Len(gateway)
        /\ \A k, o : RefersTo(k, o)' <=> RefersTo(k, o)
        /\ StoredRefsMatch' /\ PaidIsCaptured'
        /\ \A k \in DOMAIN gateway :
             /\ gateway'[k].amount = gateway[k].amount
             /\ gateway[k].state = "captured" => gateway'[k].state = "captured"
             /\ k # i => gateway'[k] = gateway[k]
    BY <2>1, OnlyState
  <2>3. TypeOK'
    BY <1>0, <1>5, <2>2 DEF TypeOK, CustomerPays
  <2>4. HeldRefsMatch'
    BY <2>1, <2>2 DEF IInv, HeldRefsMatch
  <2>5. AnswersAreTrue'
    BY <2>1, <2>2 DEF IInv, HeldRefsMatch, RefersTo, AnswersAreTrue
  <2>6. StartsAreOwned'
    BY <2>1, <2>2 DEF IInv, HeldRefsMatch, RefersTo, StartsAreOwned
  <2> QED
    BY <2>2, <2>3, <2>4, <2>5, <2>6 DEF IInv
<1>6. ASSUME NEW r \in Requests, GatewayVerify(r) PROVE IInv'
  <2> DEFINE i == request[r].ref
             o == request[r].order
             Told(a) == [pc |-> "verified", order |-> o, ref |-> i, answer |-> a]
  <2>1. request[r].pc = "verifying" /\ o \in Orders /\ i \in 1..MaxPayments
    BY <1>0, <1>6, Locals DEF GatewayVerify
  <2>2. i \in DOMAIN gateway /\ gateway[i].order = o /\ gateway[i].amount \in Nat
    <3>1. i \in DOMAIN gateway /\ gateway[i].order = o
      BY <2>1 DEF IInv, HeldRefsMatch, RefersTo
    <3> QED
      BY <1>b, <3>1 DEF Payment
  <2>3. PICK a \in Answers :
          /\ Goes(r, Told(a))
          /\ a.ok => a.paidAmount \in {NoAmount, 10 * gateway[i].amount}
          /\ \/ /\ gateway' = WithState(i, "captured")
                /\ gateway[i].state # "requested"
             \/ UNCHANGED gateway /\ ~a.ok
    <3>1. Failed \in Answers /\ ~Failed.ok
      BY DEF Failed, Answers
    <3>2. \A n \in {10 * gateway[i].amount, NoAmount} :
            [ok |-> TRUE, paidAmount |-> n] \in Answers
      BY <2>2 DEF Answers
    <3>3. CASE UNCHANGED gateway /\ Goes(r, Told(Failed))
      BY <3>1, <3>3
    <3>4. CASE /\ gateway' = WithState(i, "captured")
               /\ gateway[i].state # "requested" /\ Goes(r, Told(Failed))
      BY <3>1, <3>4
    <3>5. ASSUME gateway' = WithState(i, "captured"),
                 gateway[i].state # "requested",
                 NEW n \in {10 * gateway[i].amount, NoAmount},
                 Goes(r, Told([ok |-> TRUE, paidAmount |-> n]))
          PROVE  \E a \in Answers :
                   /\ Goes(r, Told(a))
                   /\ a.ok => a.paidAmount \in {NoAmount, 10 * gateway[i].amount}
                   /\ \/ /\ gateway' = WithState(i, "captured")
                         /\ gateway[i].state # "requested"
                      \/ UNCHANGED gateway /\ ~a.ok
      <4>1. [ok |-> TRUE, paidAmount |-> n] \in Answers
        BY <3>2, <3>5
      <4> WITNESS [ok |-> TRUE, paidAmount |-> n] \in Answers
      <4> QED
        BY <3>5
    <3> QED
      BY <1>6, <3>3, <3>4, <3>5 DEF GatewayVerify, WithState
  <2>4. /\ gateway' \in Seq(Payment) /\ Len(gateway') = Len(gateway)
        /\ \A k, x : RefersTo(k, x)' <=> RefersTo(k, x)
        /\ StoredRefsMatch' /\ PaidIsCaptured'
        /\ \A k \in DOMAIN gateway :
             /\ gateway'[k].amount = gateway[k].amount
             /\ gateway[k].state = "captured" => gateway'[k].state = "captured"
             /\ k # i => gateway'[k] = gateway[k]
        /\ a.ok => gateway'[i].state = "captured"
    <3>1. UNCHANGED <<paymentStatus, paymentRef>>
      BY <1>6 DEF GatewayVerify
    <3>2. CASE gateway' = WithState(i, "captured")
      BY <2>2, <3>1, <3>2, OnlyState
    <3>3. CASE UNCHANGED gateway /\ ~a.ok
      BY <1>a, <3>1, <3>3 DEF IInv, StoredRefsMatch, PaidIsCaptured, RefersTo
    <3> QED
      BY <2>3, <3>2, <3>3
  <2>5. Told(a) \in RequestStates
    BY <2>1 DEF RequestStates
  <2>6. TypeOK'
    <3>1. request' \in [Requests -> RequestStates]
      BY <1>a, <2>3, <2>5 DEF Goes
    <3> QED
      BY <1>0, <1>6, <2>4, <3>1 DEF TypeOK, GatewayVerify
  <2>7. \A x \in Requests : request'[x] = IF x = r THEN Told(a) ELSE request[x]
    BY <1>a, <2>3 DEF Goes
  <2>8. HeldRefsMatch'
    BY <2>1, <2>4, <2>7 DEF IInv, HeldRefsMatch
  <2>9. AnswersAreTrue'
    <3>1. \A x \in Requests : request[x].pc = "verified" =>
            request[x].ref \in DOMAIN gateway
      BY DEF IInv, HeldRefsMatch, RefersTo
    <3>2. ASSUME NEW x \in Requests \ {r}, request'[x].pc = "verified", request'[x].answer.ok
          PROVE  /\ gateway'[request'[x].ref].state = "captured"
                 /\ request'[x].answer.paidAmount \in
                      {NoAmount, 10 * gateway'[request'[x].ref].amount}
      <4>1. request'[x] = request[x]
        BY <2>7
      <4> QED
        BY <2>4, <3>1, <3>2, <4>1 DEF IInv, AnswersAreTrue
    <3>3. /\ request'[r].ref = i /\ request'[r].answer = a
          /\ gateway'[i].amount = gateway[i].amount
      BY <2>2, <2>4, <2>7
    <3>4. a.ok => /\ gateway'[request'[r].ref].state = "captured"
                  /\ request'[r].answer.paidAmount \in
                       {NoAmount, 10 * gateway'[request'[r].ref].amount}
      BY <2>3, <2>4, <3>3
    <3> QED
      BY <3>2, <3>3, <3>4 DEF AnswersAreTrue
  <2>10. StartsAreOwned'
    <3>1. \A x \in Requests : request[x].pc = "started" =>
            /\ request[x].ref \in DOMAIN gateway
            /\ gateway[request[x].ref].state = "requested"
      BY DEF IInv, HeldRefsMatch, RefersTo, StartsAreOwned
    <3>2. \A x \in Requests : request[x].pc = "started" =>
            gateway'[request[x].ref] = gateway[request[x].ref]
      BY <2>3, <2>4, <3>1
    <3> QED
      BY <2>7, <3>2 DEF IInv, StartsAreOwned
  <2> QED
    BY <2>4, <2>6, <2>8, <2>9, <2>10 DEF IInv
<1>7. ASSUME NEW r \in Requests, VerifyStore(r) PROVE IInv'
  <2> DEFINE i == request[r].ref
             o == request[r].order
             a == request[r].answer
  <2>1. request[r].pc = "verified" /\ o \in Orders /\ i \in 1..MaxPayments /\ a \in Answers
    BY <1>0, <1>7, Locals DEF VerifyStore
  <2>2. i \in DOMAIN gateway /\ gateway[i].order = o /\ RefersTo(i, o)
    BY <2>1 DEF IInv, HeldRefsMatch, RefersTo
  <2>3. Covers(a, o) => /\ gateway[i].state = "captured"
                        /\ 10 * gateway[i].amount >= Total[o]
    BY <2>1 DEF IInv, AnswersAreTrue, Covers
  <2>4. /\ \A x \in Orders : paymentStatus'[x] =
              IF x = o THEN IF Covers(a, o) THEN "PAID" ELSE "FAILED" ELSE paymentStatus[x]
        /\ \A x \in Orders : paymentRef'[x] =
              IF x = o /\ Covers(a, o) THEN i ELSE paymentRef[x]
        /\ \A x \in Requests : request'[x] = IF x = r THEN Idle ELSE request[x]
        /\ UNCHANGED gateway
    BY <1>7, <1>a DEF VerifyStore, Goes
  <2>5. TypeOK'
    <3>1. /\ paymentStatus' \in [Orders -> {"PENDING", "PAID", "FAILED"}]
          /\ paymentRef' \in [Orders -> 1..MaxPayments \cup {NoRef}]
      BY <1>7, <1>a, <2>1 DEF VerifyStore
    <3>2. request' \in [Requests -> RequestStates]
      BY <1>7, <1>a DEF VerifyStore, Goes, RequestStates
    <3> QED
      BY <1>0, <1>7, <3>1, <3>2 DEF TypeOK, VerifyStore
  <2>c. i # NoRef
    BY <2>1
  <2> HIDE DEF i, o, a
  <2>6. \A k, x : RefersTo(k, x)' <=> RefersTo(k, x)
    BY <2>4 DEF RefersTo
  <2>7. StoredRefsMatch'
    BY <2>2, <2>4, <2>6 DEF IInv, StoredRefsMatch
  <2>8. HeldRefsMatch'
    BY <2>4, <2>6 DEF IInv, HeldRefsMatch, Idle
  <2>9. AnswersAreTrue' /\ StartsAreOwned'
    BY <2>4 DEF IInv, AnswersAreTrue, StartsAreOwned, Idle
  <2>10. PaidIsCaptured'
    BY <2>2, <2>3, <2>4, <2>c DEF IInv, PaidIsCaptured
  <2> QED
    BY <2>5, <2>7, <2>8, <2>9, <2>10 DEF IInv
<1>8. ASSUME NEW r \in Requests, Lost(r) PROVE IInv'
  <2>1. Idle \in RequestStates /\ Idle.pc \notin {"started", "verifying", "verified"}
    BY DEF RequestStates, Idle
  <2> QED
    BY <1>8, <2>1, OnlyLocals DEF Lost
<1>9. ASSUME NEW o \in Orders, Confirm(o) PROVE IInv'
  <2>1. TypeOK'
    BY <1>0, <1>9 DEF TypeOK, Confirm, Statuses
  <2> QED
    BY <1>9, <2>1 DEF Confirm, IInv, StoredRefsMatch, HeldRefsMatch, AnswersAreTrue,
                      StartsAreOwned, PaidIsCaptured, RefersTo
<1>10. ASSUME NEW o \in Orders, NEW new \in Statuses, SetStatus(o, new) PROVE IInv'
  <2>1. TypeOK'
    BY <1>0, <1>10 DEF TypeOK, SetStatus
  <2> QED
    BY <1>10, <2>1 DEF SetStatus, IInv, StoredRefsMatch, HeldRefsMatch, AnswersAreTrue,
                       StartsAreOwned, PaidIsCaptured, RefersTo
<1>11. CASE UNCHANGED vars
  <2>1. TypeOK'
    BY <1>0, <1>11 DEF TypeOK, vars
  <2> QED
    BY <1>11, <2>1 DEF vars, IInv, StoredRefsMatch, HeldRefsMatch, AnswersAreTrue,
                       StartsAreOwned, PaidIsCaptured, RefersTo
<1> QED
  BY <1>1, <1>2, <1>3, <1>4, <1>5, <1>6, <1>7, <1>8, <1>9, <1>10, <1>11 DEF Next

(* The inductive invariant holds in every behaviour.                       *)
THEOREM Invariant == Spec => []IInv
  BY Initially, Preserved, PTL DEF Spec

(* Orders, payments and the locals of requests keep their types.           *)
THEOREM OnlineOrderTypeCorrect == Spec => []TypeOK
<1>1. IInv => TypeOK
  BY DEF IInv
<1> QED
  BY <1>1, Invariant, PTL

(* PaymentService.verify, for any number of orders and overlapping         *)
(* requests: a paid order's money was captured for it and covers it.       *)
THEOREM PaidIsAlwaysCaptured == Spec => []PaidIsCaptured
<1>1. IInv => PaidIsCaptured
  BY DEF IInv
<1> QED
  BY <1>1, Invariant, PTL
-----------------------------------------------------------------------------
(* The restaurant.                                                         *)

(* What the locals of a call are.                                          *)
LEMMA CallLocals ==
  ASSUME RestaurantTypeOK, NEW r \in Calls
  PROVE  LET q == call[r] IN
         /\ q \in CallStates
         /\ q.pc \notin {"idle", "counted"} => q.order \in RestaurantOrders
         /\ q.pc = "creating" =>
              q.table \in Tables /\ q.service \in Rates /\ q.self \in BOOLEAN
         /\ q.pc \in {"adding", "removing"} => q.slot \in Slots
         /\ q.pc \in {"recalcWrite", "settling"} => q.subtotal \in Amounts /\ q.service \in Charges
         /\ q.pc = "syncWrite" => q.status \in OrderStatuses
         /\ q.pc = "settling" => q.used \in Amounts /\ q.shift \in Shifts \cup {NoShift}
         /\ q.pc = "counted" => q.shift \in Shifts /\ q.cash \in Nat
<1>1. call[r] \in CallStates
  BY DEF RestaurantTypeOK
<1> QED BY <1>1 DEF CallStates, NoCall

(* Charges are money, and so are the amounts of an order.                  *)
LEMMA AmountsAreNat == Amounts \subseteq Nat /\ Charges \subseteq Nat /\ Rates \subseteq Nat
<1>1. Cardinality(Slots) \in Nat
  BY RestaurantConstants, FS_CardinalityType
<1>2. Amounts \subseteq Nat
  BY <1>1 DEF Amounts
<1>3. Rates \subseteq Nat
  BY RestaurantConstants DEF Rates
<1>4. \A k \in Nat, rate \in Nat : k * rate \in Nat
  OBVIOUS
<1> QED BY <1>2, <1>3, <1>4 DEF Charges

LEMMA SlotsCounted == \A U \in SUBSET Slots : IsFiniteSet(U) /\ Cardinality(U) \in Amounts
<1> SUFFICES ASSUME NEW U \in SUBSET Slots PROVE IsFiniteSet(U) /\ Cardinality(U) \in Amounts
  OBVIOUS
<1>1. IsFiniteSet(U) /\ Cardinality(U) <= Cardinality(Slots)
  BY RestaurantConstants, FS_Subset
<1>2. Cardinality(U) \in Nat /\ Cardinality(Slots) \in Nat
  BY <1>1, RestaurantConstants, FS_CardinalityType
<1> QED BY <1>1, <1>2 DEF Amounts

LEMMA ProductDiv ==
  ASSUME NEW k \in Nat, k > 0, NEW rate \in Nat PROVE (k * rate) \div k = rate
OBVIOUS

(* An order row, of an order that exists.                                  *)
LEMMA RowOfOrder ==
  ASSUME RestaurantTypeOK, NEW o \in RestaurantOrders
  PROVE  /\ order[o] = Absent \/ order[o] \in OrderRow
         /\ Exists(o) <=> order[o] \in OrderRow
         /\ Exists(o) => /\ order[o].subtotal \in Amounts /\ order[o].service \in Charges
                         /\ order[o].paid \in Nat /\ order[o].table \in Tables
                         /\ order[o].shift \in Shifts \cup {NoShift}
                         /\ order[o].self \in BOOLEAN /\ order[o].status \in OrderStatuses
<1>1. order[o] = Absent \/ order[o] \in OrderRow
  BY DEF RestaurantTypeOK
<1>2. Absent \notin OrderRow
  <2>1. "none" \notin OrderStatuses
    BY DEF OrderStatuses, Closed
  <2> QED BY <2>1 DEF Absent, OrderRow
<1> QED BY <1>1, <1>2 DEF Exists, OrderRow

LEMMA RowChanges ==
  ASSUME NEW row \in OrderRow
  PROVE  /\ \A st \in OrderStatuses : /\ [row EXCEPT !.status = st] \in OrderRow
                                      /\ [row EXCEPT !.status = st].subtotal = row.subtotal
                                      /\ [row EXCEPT !.status = st].service = row.service
                                      /\ [row EXCEPT !.status = st].paid = row.paid
                                      /\ [row EXCEPT !.status = st].shift = row.shift
                                      /\ [row EXCEPT !.status = st].self = row.self
                                      /\ [row EXCEPT !.status = st].table = row.table
                                      /\ [row EXCEPT !.status = st].status = st
         /\ \A a \in Amounts, c \in Charges :
              [row EXCEPT !.subtotal = a, !.service = c] \in OrderRow
         /\ \A n \in Nat, s \in Shifts \cup {NoShift} :
              [row EXCEPT !.status = "PAID", !.paid = n, !.shift = s] \in OrderRow
BY DEF OrderRow, OrderStatuses, Closed
-----------------------------------------------------------------------------
(* Types, what the calls rely on, and the rows of dishes and charges.      *)
Structure == RestaurantTypeOK /\ CallsHold /\ DishesHaveOrders /\ ServiceIsAtRate

LEMMA CallTyped ==
  ASSUME RestaurantTypeOK, NEW r \in Calls, NEW q \in CallStates, Goto(r, q)
  PROVE  /\ call' \in [Calls -> CallStates]
         /\ call'[r] = q /\ \A x \in Calls : x # r => call'[x] = call[x]
BY DEF RestaurantTypeOK, Goto

LEMMA OrderTyped ==
  ASSUME RestaurantTypeOK, NEW o \in RestaurantOrders, NEW row \in OrderRow,
         order' = [order EXCEPT ![o] = row]
  PROVE  /\ order' \in [RestaurantOrders -> OrderRow \cup {Absent}]
         /\ order'[o] = row /\ \A x \in RestaurantOrders : x # o => order'[x] = order[x]
BY DEF RestaurantTypeOK

(* A call moves on, and no order but the one it creates begins to exist.   *)
LEMMA CallsKeepHolding ==
  ASSUME CallsHold, RestaurantTypeOK, NEW r \in Calls, NEW q \in CallStates, Goto(r, q),
         CallHolds(q)',
         q.pc = "creating" => \A x \in Calls : At(x, "creating") => call[x].order # q.order,
         \A o \in RestaurantOrders : Exists(o) =>
           Exists(o)' /\ order'[o].self = order[o].self,
         \A o \in RestaurantOrders : Exists(o)' /\ ~Exists(o) =>
           At(r, "creating") /\ call[r].order = o
  PROVE  CallsHold'
<1>1. call'[r] = q /\ \A x \in Calls : x # r => call'[x] = call[x]
  BY CallTyped
<1>2. ASSUME NEW x \in Calls PROVE CallHolds(call[x])'
  <2>1. CASE x = r
    BY <1>1, <2>1 DEF CallHolds
  <2>2. CASE x # r
    <3>1. call'[x] = call[x] /\ CallHolds(call[x])
      BY <1>1, <2>2 DEF CallsHold
    <3>2. call[x].pc = "creating" => call[x].order \in RestaurantOrders
      BY CallLocals
    <3>3. call[x].pc \notin {"idle", "creating", "counted"} => call[x].order \in RestaurantOrders
      BY CallLocals
    <3>4. call[x].pc = "creating" => ~Exists(call[x].order)'
      BY <2>2, <3>1, <3>2 DEF CallHolds, CallsHold, At
    <3>5. call[x].pc \notin {"idle", "creating", "counted"} => Exists(call[x].order)'
      BY <3>1, <3>3 DEF CallHolds
    <3>6. call[x].pc = "voiding" => order'[call[x].order].self
      BY <3>1, <3>3 DEF CallHolds
    <3> QED BY <3>1, <3>4, <3>5, <3>6 DEF CallHolds, AtRate, Exists
  <2> QED BY <2>1, <2>2
<1>3. ASSUME NEW x \in Calls, NEW y \in Calls, At(x, "creating")', At(y, "creating")', x # y
      PROVE  call'[x].order # call'[y].order
  BY <1>1, <1>3 DEF CallsHold, At
<1> QED BY <1>2, <1>3 DEF CallsHold

(* A call moves on and nothing else does.                                  *)
LEMMA OnlyTheCall ==
  ASSUME Structure, NEW r \in Calls, NEW q \in CallStates, Goto(r, q),
         UNCHANGED <<order, dish, table, shift, money>>, CallHolds(q),
         q.pc = "creating" => \A x \in Calls : At(x, "creating") => call[x].order # q.order
  PROVE  Structure'
<1>1. RestaurantTypeOK'
  <2>1. call' \in [Calls -> CallStates]
    BY CallTyped DEF Structure
  <2> QED BY <2>1 DEF Structure, RestaurantTypeOK, money
<1>2. CallHolds(q)'
  BY DEF CallHolds, Exists, AtRate
<1>3. \A o \in RestaurantOrders : Exists(o)' <=> Exists(o)
  BY DEF Exists
<1>4. CallsHold'
  BY <1>2, <1>3, CallsKeepHolding DEF Structure
<1>5. DishesHaveOrders' /\ ServiceIsAtRate'
  BY DEF Structure, DishesHaveOrders, ServiceIsAtRate, Dishes, AtRate, Exists
<1> QED BY <1>1, <1>4, <1>5 DEF Structure

LEMMA NoCallHolds == NoCall \in CallStates /\ CallHolds(NoCall) /\ NoCall.pc = "idle"
BY DEF NoCall, CallStates, CallHolds

LEMMA DoingIsCall ==
  ASSUME NEW pc \in {"voiding", "recalc", "sending", "sent", "sync", "cancelling"},
         NEW o \in RestaurantOrders
  PROVE  /\ Doing(pc, o) \in CallStates /\ Doing(pc, o).pc = pc /\ Doing(pc, o).order = o
         /\ pc # "voiding" /\ Exists(o) => CallHolds(Doing(pc, o))
BY DEF Doing, CallStates, CallHolds

LEMMA ChargeKept ==
  ASSUME Structure, NEW o \in RestaurantOrders, Exists(o), NEW sum \in Amounts
  PROVE  /\ KeepRatio(order[o], sum) \in Charges
         /\ \E rate \in Rates : KeepRatio(order[o], sum) = sum * rate
<1>1. order[o].subtotal \in Nat /\ order[o].service \in Nat /\ sum \in Nat
  BY RowOfOrder, AmountsAreNat DEF Structure
<1>2. PICK rate \in Rates : order[o].service = order[o].subtotal * rate
  BY DEF Structure, ServiceIsAtRate, AtRate
<1>3. rate \in Nat /\ 0 \in Rates
  BY AmountsAreNat DEF Rates
<1>4. CASE order[o].subtotal > 0
  <2>1. order[o].service \div order[o].subtotal = rate
    BY <1>1, <1>2, <1>3, <1>4, ProductDiv
  <2>2. KeepRatio(order[o], sum) = sum * rate
    BY <1>4, <2>1 DEF KeepRatio
  <2> QED BY <2>2 DEF Charges
<1>5. CASE ~(order[o].subtotal > 0)
  <2>1. KeepRatio(order[o], sum) = 0
    BY <1>5 DEF KeepRatio
  <2>2. sum * 0 = 0
    BY <1>1
  <2> QED BY <1>3, <2>1, <2>2 DEF Charges
<1> QED BY <1>4, <1>5

(* The steps that only read: a call keeps what it read, or gives up.       *)
ReadStep(r) ==
  \/ \E o \in RestaurantOrders, t \in Tables :
       \/ \E service \in Services : CreateRead(r, o, t, service, FALSE)
       \/ SelfOrderRead(r, o, t)
  \/ \E o \in RestaurantOrders, i \in Slots : AddRead(r, o, i) \/ RemoveRead(r, o, i)
  \/ \E o \in RestaurantOrders : SendRead(r, o) \/ SettleRead(r, o) \/ CancelRead(r, o)
  \/ RecalcRead(r) \/ SyncRead(r) \/ SettleRefused(r)

LEMMA CurrentShiftType == CurrentShift \in Shifts \cup {NoShift}
BY DEF CurrentShift

LEMMA UsedType == \A o \in RestaurantOrders : Used(o) \in Amounts
BY SlotsCounted DEF Used, Active, Dishes

LEMMA StatusOfDishesOpen == \A o \in RestaurantOrders : StatusOfDishes(o) \in OrderStatuses \ Closed
BY DEF StatusOfDishes, OrderStatuses, Closed

LEMMA ReadStructure ==
  ASSUME Structure, NEW r \in Calls, ReadStep(r)
  PROVE  /\ Structure' /\ UNCHANGED <<order, dish, table, shift, money>>
         /\ \A x \in Calls : At(x, "counted")' => At(x, "counted") /\ call'[x] = call[x]
<1>0. RestaurantTypeOK /\ CallsHold
  BY DEF Structure
<1> DEFINE Fine(q) == /\ q \in CallStates /\ Goto(r, q) /\ CallHolds(q) /\ q.pc # "counted"
                      /\ q.pc = "creating" =>
                           \A x \in Calls : At(x, "creating") => call[x].order # q.order
                      /\ UNCHANGED <<order, dish, table, shift, money>>
<1>1. ASSUME NEW q, Fine(q) PROVE
         /\ Structure' /\ UNCHANGED <<order, dish, table, shift, money>>
         /\ \A x \in Calls : At(x, "counted")' => At(x, "counted") /\ call'[x] = call[x]
  <2>1. Structure'
    BY <1>1, OnlyTheCall
  <2>2. call'[r] = q /\ \A x \in Calls : x # r => call'[x] = call[x]
    BY <1>0, <1>1, CallTyped
  <2> QED BY <1>1, <2>1, <2>2 DEF At
<1>2. ASSUME NEW o \in RestaurantOrders, NEW t \in Tables,
             NEW service \in Rates, NEW self \in BOOLEAN,
             CreateRead(r, o, t, service, self)
      PROVE  \E q : Fine(q)
  <2> DEFINE q == [pc |-> "creating", order |-> o, table |-> t, service |-> service, self |-> self]
  <2>1. q \in CallStates
    BY DEF CallStates
  <2>2. Fine(q)
    BY <1>2, <2>1 DEF CreateRead, CallHolds
  <2> QED BY <2>2
<1>3. ASSUME NEW o \in RestaurantOrders, NEW i \in Slots, AddRead(r, o, i) \/ RemoveRead(r, o, i)
      PROVE  \E q : Fine(q)
  <2> DEFINE q(pc) == [pc |-> pc, order |-> o, slot |-> i]
  <2>1. q("adding") \in CallStates /\ q("removing") \in CallStates
    BY DEF CallStates
  <2>2. Exists(o)
    BY <1>3 DEF AddRead, RemoveRead, IsOpen
  <2>3. CallHolds(q("adding")) /\ CallHolds(q("removing"))
    BY <2>2 DEF CallHolds
  <2>4. Fine(q("adding")) \/ Fine(q("removing"))
    BY <1>3, <2>1, <2>3 DEF AddRead, RemoveRead
  <2> QED BY <2>4
<1>4. ASSUME NEW o \in RestaurantOrders, SendRead(r, o) \/ CancelRead(r, o)
      PROVE  \E q : Fine(q)
  <2>1. Exists(o)
    BY <1>4 DEF SendRead, CancelRead, IsOpen
  <2>2. \A pc \in {"sending", "cancelling"} :
          /\ Doing(pc, o) \in CallStates /\ Doing(pc, o).pc = pc
          /\ CallHolds(Doing(pc, o))
    BY <2>1, DoingIsCall
  <2>3. Fine(Doing("sending", o)) \/ Fine(Doing("cancelling", o))
    BY <1>4, <2>2 DEF SendRead, CancelRead
  <2> QED BY <2>3
<1>5. ASSUME NEW o \in RestaurantOrders, SettleRead(r, o)
      PROVE  \E q : Fine(q)
  <2> DEFINE q == [pc |-> "settling", order |-> o, subtotal |-> order[o].subtotal,
                   service |-> order[o].service, used |-> Used(o), shift |-> CurrentShift]
  <2>1. Exists(o)
    BY <1>5 DEF SettleRead, IsOpen
  <2>2. order[o].subtotal \in Amounts /\ order[o].service \in Charges
    BY <1>0, <2>1, RowOfOrder
  <2>3. q \in CallStates
    BY <2>2, UsedType, CurrentShiftType DEF CallStates
  <2>4. AtRate(order[o])
    BY <2>1 DEF Structure, ServiceIsAtRate
  <2>5. CallHolds(q)
    BY <2>1, <2>4 DEF CallHolds, AtRate
  <2>6. Fine(q)
    BY <1>5, <2>3, <2>5 DEF SettleRead
  <2> QED BY <2>6
<1>6. ASSUME RecalcRead(r) PROVE \E q : Fine(q)
  <2> DEFINE o == call[r].order
             sum == Cardinality(Active(o))
             q == [pc |-> "recalcWrite", order |-> o, subtotal |-> sum,
                   service |-> KeepRatio(order[o], sum)]
  <2>1. call[r].pc = "recalc"
    BY <1>6 DEF RecalcRead, At
  <2>2. o \in RestaurantOrders /\ Exists(o)
    BY <1>0, <2>1, CallLocals DEF CallsHold, CallHolds
  <2>3. sum \in Amounts
    BY SlotsCounted DEF Active, Dishes
  <2>4. KeepRatio(order[o], sum) \in Charges
        /\ \E rate \in Rates : KeepRatio(order[o], sum) = sum * rate
    BY <2>2, <2>3, ChargeKept
  <2>5. Goto(r, q) /\ UNCHANGED <<order, dish, table, shift, money>>
    BY <1>6 DEF RecalcRead
  <2>6. q \in CallStates
    BY <2>2, <2>3, <2>4 DEF CallStates
  <2>7. CallHolds(q)
    BY <2>2, <2>4 DEF CallHolds, AtRate
  <2>8. Fine(q)
    BY <2>5, <2>6, <2>7
  <2> QED BY <2>8
<1>7. ASSUME SyncRead(r) PROVE \E q : Fine(q)
  <2> DEFINE o == call[r].order
             q == [pc |-> "syncWrite", order |-> o, status |-> StatusOfDishes(o)]
  <2>1. call[r].pc = "sync"
    BY <1>7 DEF SyncRead, At
  <2>2. o \in RestaurantOrders /\ Exists(o)
    BY <1>0, <2>1, CallLocals DEF CallsHold, CallHolds
  <2>3. StatusOfDishes(o) \in OrderStatuses \ Closed
    BY <2>2, StatusOfDishesOpen
  <2>4. q \in CallStates
    BY <2>2, <2>3 DEF CallStates
  <2>5. CallHolds(q)
    BY <2>2, <2>3 DEF CallHolds
  <2>6. Goto(r, q) \/ Goto(r, NoCall)
    BY <1>7 DEF SyncRead, Done
  <2>7. UNCHANGED <<order, dish, table, shift, money>>
    BY <1>7 DEF SyncRead
  <2>8. Fine(q) \/ Fine(NoCall)
    BY <2>4, <2>5, <2>6, <2>7, NoCallHolds
  <2> QED BY <2>8
<1>8. ASSUME SettleRefused(r) PROVE \E q : Fine(q)
  <2>1. Fine(NoCall)
    BY <1>8, NoCallHolds DEF SettleRefused, Done
  <2> QED BY <2>1
<1>9. \E q : Fine(q)
  <2>1. Services \subseteq Rates /\ SelfService \in Rates
    BY DEF Rates
  <2> QED BY <1>2, <1>3, <1>4, <1>5, <1>6, <1>7, <1>8, <2>1 DEF ReadStep, SelfOrderRead
<1> QED BY <1>1, <1>9

(* The steps that change the dishes of an order and nothing else.          *)
DishStep(r) ==
  \/ AddItem(r) \/ RemoveItem(r) \/ SendItems(r)
  \/ \E o \in RestaurantOrders, i \in Slots, mark \in Marks : SetItemStatus(r, o, i, mark)

(* One order's dishes change, and the order exists.                        *)
LEMMA DishesOfOne ==
  ASSUME RestaurantTypeOK, DishesHaveOrders, NEW o \in RestaurantOrders, Exists(o),
         NEW row \in [Slots -> DishStatuses \cup {"none"}], dish' = [dish EXCEPT ![o] = row],
         order' = order
  PROVE  /\ dish' \in [RestaurantOrders -> [Slots -> DishStatuses \cup {"none"}]]
         /\ DishesHaveOrders'
<1>1. dish \in [RestaurantOrders -> [Slots -> DishStatuses \cup {"none"}]]
  BY DEF RestaurantTypeOK
<1>2. \A x \in RestaurantOrders : dish'[x] = IF x = o THEN row ELSE dish[x]
  BY <1>1
<1>3. dish' \in [RestaurantOrders -> [Slots -> DishStatuses \cup {"none"}]]
  BY <1>1
<1>4. DishesHaveOrders'
  BY <1>2 DEF DishesHaveOrders, Dishes, Exists
<1> QED BY <1>3, <1>4

LEMMA DishStructure ==
  ASSUME Structure, NEW r \in Calls, DishStep(r)
  PROVE  /\ Structure' /\ UNCHANGED <<order, table, shift, money>>
         /\ \A x \in Calls : At(x, "counted")' => At(x, "counted") /\ call'[x] = call[x]
<1>0. RestaurantTypeOK /\ CallsHold /\ DishesHaveOrders /\ ServiceIsAtRate
  BY DEF Structure
<1>1. dish \in [RestaurantOrders -> [Slots -> DishStatuses \cup {"none"}]]
  BY <1>0 DEF RestaurantTypeOK
<1>2. PICK o \in RestaurantOrders, row \in [Slots -> DishStatuses \cup {"none"}], q \in CallStates :
        /\ Exists(o) /\ dish' = [dish EXCEPT ![o] = row]
        /\ Goto(r, q) /\ CallHolds(q) /\ q.pc \notin {"counted", "creating"}
        /\ UNCHANGED <<order, table, shift, money>>
  <2>1. CASE AddItem(r) \/ RemoveItem(r)
    <3> DEFINE o == call[r].order
               i == call[r].slot
               row(st) == [dish[o] EXCEPT ![i] = st]
    <3>1. call[r].pc \in {"adding", "removing"}
      BY <2>1 DEF AddItem, RemoveItem, At
    <3>2. o \in RestaurantOrders /\ Exists(o) /\ i \in Slots
      BY <1>0, <3>1, CallLocals DEF CallsHold, CallHolds
    <3>3. Doing("recalc", o) \in CallStates /\ CallHolds(Doing("recalc", o))
          /\ Doing("recalc", o).pc = "recalc"
      BY <3>2, DoingIsCall
    <3>4. \A st \in {"PENDING", "none"} : row(st) \in [Slots -> DishStatuses \cup {"none"}]
      BY <1>1, <3>2 DEF DishStatuses
    <3>5. dish' = [dish EXCEPT ![o] = row("PENDING")] \/ dish' = [dish EXCEPT ![o] = row("none")]
      BY <2>1 DEF AddItem, RemoveItem
    <3>6. Goto(r, Doing("recalc", o)) /\ UNCHANGED <<order, table, shift, money>>
      BY <2>1 DEF AddItem, RemoveItem
    <3> QED BY <3>2, <3>3, <3>4, <3>5, <3>6
  <2>2. CASE SendItems(r)
    <3> DEFINE o == call[r].order
               pending == {i \in Slots : dish[o][i] = "PENDING"}
               row == [i \in Slots |-> IF i \in pending THEN "PREPARING" ELSE dish[o][i]]
    <3>1. call[r].pc = "sending"
      BY <2>2 DEF SendItems, At
    <3>2. o \in RestaurantOrders /\ Exists(o)
      BY <1>0, <3>1, CallLocals DEF CallsHold, CallHolds
    <3>3. Doing("sent", o) \in CallStates /\ CallHolds(Doing("sent", o))
          /\ Doing("sent", o).pc = "sent"
      BY <3>2, DoingIsCall
    <3>4. row \in [Slots -> DishStatuses \cup {"none"}]
      BY <1>1, <3>2 DEF DishStatuses
    <3>5. dish' = [dish EXCEPT ![o] = row]
      BY <1>1, <2>2, <3>2 DEF SendItems
    <3>6. Goto(r, Doing("sent", o)) \/ Goto(r, NoCall)
      BY <2>2 DEF SendItems, Done
    <3>7. UNCHANGED <<order, table, shift, money>>
      BY <2>2 DEF SendItems
    <3> HIDE DEF row
    <3> QED BY <3>2, <3>3, <3>4, <3>5, <3>6, <3>7, NoCallHolds
  <2>3. ASSUME NEW o \in RestaurantOrders, NEW i \in Slots, NEW mark \in Marks,
               SetItemStatus(r, o, i, mark)
        PROVE  \E row \in [Slots -> DishStatuses \cup {"none"}], q \in CallStates :
                 /\ Exists(o) /\ dish' = [dish EXCEPT ![o] = row]
                 /\ Goto(r, q) /\ CallHolds(q) /\ q.pc \notin {"counted", "creating"}
                 /\ UNCHANGED <<order, table, shift, money>>
    <3> DEFINE row == [dish[o] EXCEPT ![i] = mark]
    <3>1. Exists(o)
      BY <1>0, <2>3 DEF SetItemStatus, DishesHaveOrders, Dishes
    <3>2. Doing("sync", o) \in CallStates /\ CallHolds(Doing("sync", o))
          /\ Doing("sync", o).pc = "sync"
      BY <3>1, DoingIsCall
    <3>3. row \in [Slots -> DishStatuses \cup {"none"}]
      BY <1>1, RestaurantConstants
    <3>4. /\ dish' = [dish EXCEPT ![o] = row] /\ Goto(r, Doing("sync", o))
          /\ UNCHANGED <<order, table, shift, money>>
      BY <2>3 DEF SetItemStatus
    <3> QED BY <3>1, <3>2, <3>3, <3>4
  <2> QED BY <2>1, <2>2, <2>3 DEF DishStep
<1>3. /\ dish' \in [RestaurantOrders -> [Slots -> DishStatuses \cup {"none"}]]
      /\ DishesHaveOrders'
  BY <1>0, <1>2, DishesOfOne
<1>4. /\ call' \in [Calls -> CallStates]
      /\ call'[r] = q /\ \A x \in Calls : x # r => call'[x] = call[x]
  BY <1>0, <1>2, CallTyped
<1>5. RestaurantTypeOK'
  BY <1>0, <1>2, <1>3, <1>4 DEF RestaurantTypeOK, money
<1>6. CallHolds(q)' /\ \A x \in RestaurantOrders : Exists(x)' <=> Exists(x)
  BY <1>2 DEF CallHolds, Exists, AtRate
<1>7. CallsHold'
  BY <1>0, <1>2, <1>6, CallsKeepHolding
<1>8. ServiceIsAtRate'
  BY <1>0, <1>2 DEF ServiceIsAtRate, Exists, AtRate
<1> QED BY <1>2, <1>3, <1>4, <1>5, <1>7, <1>8 DEF Structure, At

(* The steps that change the row of an order that exists, and move no      *)
(* money.                                                                  *)
RowStep(r) == VoidOverCap(r) \/ RecalcWrite(r) \/ MarkInKitchen(r) \/ SyncWrite(r) \/ CancelOrder(r)

(* A row that keeps its table, its money and its guest.                    *)
SameMoney(row, old) ==
  /\ row.self = old.self /\ row.table = old.table /\ row.paid = old.paid /\ row.shift = old.shift

LEMMA RowOfStep ==
  ASSUME Structure, NEW r \in Calls, RowStep(r)
  PROVE  LET o == call[r].order IN
         \E row \in OrderRow :
           /\ o \in RestaurantOrders /\ Exists(o) /\ ~At(r, "creating")
           /\ order' = [order EXCEPT ![o] = row] /\ SameMoney(row, order[o]) /\ AtRate(row)
           /\ Goto(r, NoCall) /\ UNCHANGED <<shift, money>>
           /\ \/ CancelOrder(r)
              \/ /\ UNCHANGED <<dish, table>>
                 /\ row.status \notin Closed \/ row.status = order[o].status \/ row.self
<1> DEFINE o == call[r].order
<1>0. RestaurantTypeOK /\ CallsHold /\ ServiceIsAtRate
  BY DEF Structure
<1>1. call[r].pc \in {"voiding", "recalcWrite", "sent", "syncWrite", "cancelling"}
  BY DEF RowStep, VoidOverCap, RecalcWrite, MarkInKitchen, SyncWrite, CancelOrder, At
<1>2. o \in RestaurantOrders /\ Exists(o) /\ ~At(r, "creating")
  BY <1>0, <1>1, CallLocals DEF CallsHold, CallHolds, At
<1>3. order[o] \in OrderRow /\ AtRate(order[o])
  BY <1>0, <1>2, RowOfOrder DEF ServiceIsAtRate
<1>4. Goto(r, NoCall) /\ UNCHANGED <<shift, money>>
  BY DEF RowStep, VoidOverCap, RecalcWrite, MarkInKitchen, SyncWrite, CancelOrder, Done
<1>5. CASE RecalcWrite(r)
  <2> DEFINE row == [order[o] EXCEPT !.subtotal = call[r].subtotal, !.service = call[r].service]
  <2>1. call[r].pc = "recalcWrite"
    BY <1>5 DEF RecalcWrite, At
  <2>2. call[r].subtotal \in Amounts /\ call[r].service \in Charges /\ AtRate(call[r])
    BY <1>0, <2>1, CallLocals DEF CallsHold, CallHolds
  <2>3. row \in OrderRow
    BY <1>3, <2>2, RowChanges
  <2>4. SameMoney(row, order[o]) /\ AtRate(row) /\ row.status = order[o].status
    BY <1>3, <2>2 DEF SameMoney, AtRate, OrderRow
  <2>5. order' = [order EXCEPT ![o] = row] /\ UNCHANGED <<dish, table>>
    BY <1>5 DEF RecalcWrite
  <2> HIDE DEF row
  <2> QED BY <1>2, <1>4, <2>3, <2>4, <2>5
<1>6. ASSUME NEW st \in OrderStatuses, SetOrder(o, st),
             CancelOrder(r) \/ (UNCHANGED <<dish, table>> /\ (st \notin Closed \/ order[o].self))
      PROVE  \E row \in OrderRow :
               /\ order' = [order EXCEPT ![o] = row] /\ SameMoney(row, order[o]) /\ AtRate(row)
               /\ \/ CancelOrder(r)
                  \/ (UNCHANGED <<dish, table>> /\ (row.status \notin Closed \/ row.self))
  <2> DEFINE row == [order[o] EXCEPT !.status = st]
  <2>1. /\ row \in OrderRow /\ row.status = st
        /\ SameMoney(row, order[o]) /\ row.subtotal = order[o].subtotal
        /\ row.service = order[o].service
    BY <1>3, RowChanges DEF SameMoney
  <2>2. AtRate(row)
    BY <1>3, <2>1 DEF AtRate
  <2>3. order' = [order EXCEPT ![o] = row]
    BY <1>6 DEF SetOrder
  <2>4. row.self = order[o].self
    BY <2>1 DEF SameMoney
  <2> HIDE DEF row
  <2> QED BY <1>6, <2>1, <2>2, <2>3, <2>4
<1>7. CASE VoidOverCap(r)
  <2>1. order[o].self
    BY <1>0, <1>7 DEF VoidOverCap, At, CallsHold, CallHolds
  <2>2. SetOrder(o, "CANCELLED") /\ UNCHANGED <<dish, table>> /\ "CANCELLED" \in OrderStatuses
    BY <1>7 DEF VoidOverCap, OrderStatuses, Closed
  <2> QED BY <1>2, <1>4, <1>6, <2>1, <2>2
<1>8. CASE MarkInKitchen(r)
  <2>1. SetOrder(o, "IN_KITCHEN") /\ UNCHANGED <<dish, table>>
        /\ "IN_KITCHEN" \in OrderStatuses /\ "IN_KITCHEN" \notin Closed
    BY <1>8 DEF MarkInKitchen, OrderStatuses, Closed
  <2> QED BY <1>2, <1>4, <1>6, <2>1
<1>9. CASE SyncWrite(r)
  <2>1. call[r].pc = "syncWrite"
    BY <1>9 DEF SyncWrite, At
  <2>2. call[r].status \in OrderStatuses /\ call[r].status \notin Closed
    BY <1>0, <2>1, CallLocals DEF CallsHold, CallHolds
  <2>3. SetOrder(o, call[r].status) /\ UNCHANGED <<dish, table>>
    BY <1>9 DEF SyncWrite
  <2> QED BY <1>2, <1>4, <1>6, <2>2, <2>3
<1>10. CASE CancelOrder(r)
  <2>1. SetOrder(o, "CANCELLED") /\ "CANCELLED" \in OrderStatuses
    BY <1>10 DEF CancelOrder, OrderStatuses, Closed
  <2> QED BY <1>2, <1>4, <1>6, <1>10, <2>1
<1> QED BY <1>5, <1>7, <1>8, <1>9, <1>10 DEF RowStep

LEMMA TableTyped ==
  ASSUME RestaurantTypeOK, NEW t \in Tables,
         NEW st \in {"FREE", "OCCUPIED", "CLEANING", "OUT_OF_SERVICE"}
  PROVE  [table EXCEPT ![t] = st] \in [Tables -> {"FREE", "OCCUPIED", "CLEANING", "OUT_OF_SERVICE"}]
BY DEF RestaurantTypeOK

LEMMA RowStructure ==
  ASSUME Structure, NEW r \in Calls, RowStep(r)
  PROVE  Structure'
<1> DEFINE o == call[r].order
<1>0. RestaurantTypeOK /\ CallsHold /\ DishesHaveOrders /\ ServiceIsAtRate
  BY DEF Structure
<1>1. PICK row \in OrderRow :
        /\ o \in RestaurantOrders /\ Exists(o) /\ ~At(r, "creating")
        /\ order' = [order EXCEPT ![o] = row] /\ SameMoney(row, order[o]) /\ AtRate(row)
        /\ Goto(r, NoCall) /\ UNCHANGED <<shift, money>>
        /\ \/ CancelOrder(r)
           \/ UNCHANGED <<dish, table>>
  BY RowOfStep
<1> HIDE DEF o
<1>2. /\ order' \in [RestaurantOrders -> OrderRow \cup {Absent}]
      /\ order'[o] = row /\ \A x \in RestaurantOrders : x # o => order'[x] = order[x]
  BY <1>0, <1>1, OrderTyped
<1>3. row # Absent
  BY DEF OrderRow, Absent, OrderStatuses, Closed
<1>4. \A x \in RestaurantOrders : Exists(x)' <=> Exists(x)
  BY <1>1, <1>2, <1>3 DEF Exists
<1>5. /\ call' \in [Calls -> CallStates]
      /\ call'[r] = NoCall /\ \A x \in Calls : x # r => call'[x] = call[x]
  BY <1>0, <1>1, NoCallHolds, CallTyped
<1>6. /\ dish' \in [RestaurantOrders -> [Slots -> DishStatuses \cup {"none"}]]
      /\ \A x \in RestaurantOrders, i \in Slots : dish'[x][i] = "none" <=> dish[x][i] = "none"
      /\ table' \in [Tables -> {"FREE", "OCCUPIED", "CLEANING", "OUT_OF_SERVICE"}]
  <2>1. CASE UNCHANGED <<dish, table>>
    BY <1>0, <2>1 DEF RestaurantTypeOK
  <2>2. CASE CancelOrder(r)
    <3> DEFINE cancelled == [i \in Slots |-> IF dish[o][i] = "none" THEN "none" ELSE "CANCELLED"]
    <3>1. dish \in [RestaurantOrders -> [Slots -> DishStatuses \cup {"none"}]]
      BY <1>0 DEF RestaurantTypeOK
    <3>2. dish' = [dish EXCEPT ![o] = cancelled]
          /\ table' = [table EXCEPT ![order[o].table] = "FREE"]
      BY <1>1, <2>2, <3>1 DEF CancelOrder, Leave, o
    <3>3. cancelled \in [Slots -> DishStatuses \cup {"none"}]
      BY DEF DishStatuses
    <3>4. \A i \in Slots : cancelled[i] = "none" <=> dish[o][i] = "none"
      OBVIOUS
    <3> HIDE DEF cancelled
    <3>5. \A x \in RestaurantOrders : dish'[x] = IF x = o THEN cancelled ELSE dish[x]
      BY <1>1, <3>1, <3>2
    <3>6. dish' \in [RestaurantOrders -> [Slots -> DishStatuses \cup {"none"}]]
      BY <3>1, <3>2, <3>3
    <3>7. \A x \in RestaurantOrders, i \in Slots : dish'[x][i] = "none" <=> dish[x][i] = "none"
      BY <3>4, <3>5
    <3>8. order[o].table \in Tables
      BY <1>0, <1>1, RowOfOrder
    <3> QED BY <1>0, <3>2, <3>6, <3>7, <3>8, TableTyped
  <2> QED BY <1>1, <2>1, <2>2
<1>7. RestaurantTypeOK'
  BY <1>0, <1>1, <1>2, <1>5, <1>6 DEF RestaurantTypeOK, money
<1>8. CallsHold'
  <2>1. CallHolds(NoCall)'
    BY DEF CallHolds, NoCall
  <2>2. \A x \in RestaurantOrders : Exists(x) => order'[x].self = order[x].self
    BY <1>1, <1>2 DEF SameMoney
  <2> QED BY <1>0, <1>1, <1>4, <2>1, <2>2, NoCallHolds, CallsKeepHolding
<1>9. DishesHaveOrders'
  BY <1>0, <1>4, <1>6 DEF DishesHaveOrders, Dishes
<1>10. ServiceIsAtRate'
  <2> SUFFICES ASSUME NEW x \in RestaurantOrders, Exists(x)' PROVE AtRate(order'[x])
    BY DEF ServiceIsAtRate, AtRate
  <2>1. CASE x = o
    BY <1>1, <1>2, <2>1
  <2>2. CASE x # o
    BY <1>0, <1>2, <1>4, <2>2 DEF ServiceIsAtRate
  <2> QED BY <2>1, <2>2
<1> QED BY <1>7, <1>8, <1>9, <1>10 DEF Structure

LEMMA CreateStructure ==
  ASSUME Structure, NEW r \in Calls, NEW slots \in SUBSET Slots, CreateOrder(r, slots)
  PROVE  LET o == call[r].order IN
         /\ Structure' /\ o \in RestaurantOrders /\ ~Exists(o)
         /\ \A x \in RestaurantOrders : x # o => order'[x] = order[x]
         /\ order'[o] \in OrderRow /\ order'[o].paid = 0
         /\ order'[o].status = "OPEN" /\ order'[o].table = call[r].table /\ call[r].table \in Tables
         /\ order'[o] # Absent
         /\ table' = [table EXCEPT ![call[r].table] = "OCCUPIED"]
         /\ call'[r].pc \in {"voiding", "idle"}
         /\ \A x \in Calls : x # r => call'[x] = call[x]
<1>0. RestaurantTypeOK /\ CallsHold /\ DishesHaveOrders /\ ServiceIsAtRate
  BY DEF Structure
<1>q. PICK q \in CallStates : q = call[r]
  BY <1>0, CallLocals
<1> DEFINE o == q.order
           row == [status |-> "OPEN", self |-> q.self, table |-> q.table,
                   subtotal |-> Cardinality(slots),
                   service |-> Cardinality(slots) * q.service, paid |-> 0, shift |-> NoShift]
           dishes == [i \in Slots |-> IF i \in slots THEN "PENDING" ELSE "none"]
<1>1. q.pc = "creating"
  BY <1>q DEF CreateOrder, At
<1>2. /\ o \in RestaurantOrders /\ q.table \in Tables /\ q.service \in Rates /\ q.self \in BOOLEAN
      /\ ~Exists(o)
  BY <1>0, <1>1, <1>q, CallLocals DEF CallsHold, CallHolds
<1>3. Cardinality(slots) \in Amounts
  BY SlotsCounted
<1>4. Cardinality(slots) * q.service \in Charges
  BY <1>2, <1>3 DEF Charges
<1>5. row \in OrderRow /\ row # Absent
  BY <1>2, <1>3, <1>4, AmountsAreNat DEF OrderRow, OrderStatuses, Absent
<1>6. AtRate(row)
  BY <1>2 DEF AtRate
<1>7. /\ order' = [order EXCEPT ![o] = row] /\ dish' = [dish EXCEPT ![o] = dishes]
      /\ table' = [table EXCEPT ![q.table] = "OCCUPIED"]
      /\ UNCHANGED <<shift, money>>
      /\ (row.self /\ Goto(r, Doing("voiding", o))) \/ Goto(r, NoCall)
  BY <1>q DEF CreateOrder, Done
<1>8. row.paid = 0 /\ row.status = "OPEN" /\ row.table = q.table
  OBVIOUS
<1>9. dishes \in [Slots -> DishStatuses \cup {"none"}]
  BY DEF DishStatuses
<1> HIDE DEF row, dishes
<1>10. /\ order' \in [RestaurantOrders -> OrderRow \cup {Absent}]
       /\ order'[o] = row /\ \A x \in RestaurantOrders : x # o => order'[x] = order[x]
  BY <1>0, <1>2, <1>5, <1>7, OrderTyped
<1>11. Exists(o)' /\ \A x \in RestaurantOrders : x # o => (Exists(x)' <=> Exists(x))
  BY <1>5, <1>10 DEF Exists
<1>12. PICK p \in CallStates : Goto(r, p) /\ CallHolds(p)' /\ p.pc \in {"voiding", "idle"}
  <2>1. CallHolds(NoCall)'
    BY DEF CallHolds, NoCall
  <2>2. row.self => CallHolds(Doing("voiding", o))'
    BY <1>10, <1>11 DEF CallHolds, Doing
  <2> QED BY <1>2, <1>7, <2>1, <2>2, NoCallHolds, DoingIsCall
<1>13. /\ call' \in [Calls -> CallStates]
       /\ call'[r] = p /\ \A x \in Calls : x # r => call'[x] = call[x]
  BY <1>0, <1>12, CallTyped
<1>14. dish' \in [RestaurantOrders -> [Slots -> DishStatuses \cup {"none"}]]
  BY <1>0, <1>7, <1>9 DEF RestaurantTypeOK
<1>15. table' \in [Tables -> {"FREE", "OCCUPIED", "CLEANING", "OUT_OF_SERVICE"}]
  BY <1>0, <1>2, <1>7, TableTyped
<1>16. RestaurantTypeOK'
  BY <1>0, <1>7, <1>10, <1>13, <1>14, <1>15 DEF RestaurantTypeOK, money
<1>17. CallsHold'
  <2>1. \A x \in RestaurantOrders : Exists(x) => Exists(x)' /\ order'[x].self = order[x].self
    BY <1>2, <1>10, <1>11
  <2>2. \A x \in RestaurantOrders : Exists(x)' /\ ~Exists(x) => x = o
    BY <1>11
  <2> QED BY <1>0, <1>1, <1>q, <1>12, <2>1, <2>2, CallsKeepHolding DEF At
<1>18. DishesHaveOrders'
  <2>1. \A x \in RestaurantOrders : x # o => dish'[x] = dish[x]
    BY <1>0, <1>7 DEF RestaurantTypeOK
  <2> QED BY <1>0, <1>11, <2>1 DEF DishesHaveOrders, Dishes
<1>19. ServiceIsAtRate'
  <2> SUFFICES ASSUME NEW x \in RestaurantOrders, Exists(x)' PROVE AtRate(order'[x])
    BY DEF ServiceIsAtRate, AtRate
  <2>1. CASE x = o
    BY <1>6, <1>10, <2>1
  <2>2. CASE x # o
    BY <1>0, <1>10, <1>11, <2>2 DEF ServiceIsAtRate
  <2> QED BY <2>1, <2>2
<1>20. Structure'
  BY <1>16, <1>17, <1>18, <1>19 DEF Structure
<1> QED BY <1>q, <1>2, <1>5, <1>7, <1>8, <1>10, <1>11, <1>12, <1>13, <1>20

(* A settlement: what it does to the row of its order.                     *)
LEMMA SettleStructure ==
  ASSUME Structure, NEW r \in Calls, Settle(r)
  PROVE  LET q == call[r]  o == q.order IN
         /\ Structure' /\ o \in RestaurantOrders /\ Exists(o)
         /\ Bill(q) \in Nat /\ q.shift \in Shifts \cup {NoShift}
         /\ \A x \in RestaurantOrders : x # o => order'[x] = order[x]
         /\ order'[o] = [order[o] EXCEPT !.status = "PAID", !.paid = Bill(q), !.shift = q.shift]
         /\ table' = [table EXCEPT ![order[o].table] = "CLEANING"]
         /\ call'[r] = NoCall /\ \A x \in Calls : x # r => call'[x] = call[x]
<1>0. RestaurantTypeOK /\ CallsHold /\ DishesHaveOrders /\ ServiceIsAtRate
  BY DEF Structure
<1>q. PICK q \in CallStates : q = call[r]
  BY <1>0, CallLocals
<1>1. q.pc = "settling"
  BY <1>q DEF Settle, At
<1>o. PICK o \in RestaurantOrders : o = q.order
  BY <1>0, <1>1, <1>q, CallLocals
<1>2. Exists(o) /\ q.subtotal \in Amounts /\ q.service \in Charges /\ q.used \in Amounts
      /\ q.shift \in Shifts \cup {NoShift}
  <2>1. Exists(call[r].order)
    BY <1>0, <1>1, <1>q DEF CallsHold, CallHolds
  <2>2. Exists(o)
    BY <1>q, <1>o, <2>1, Zenon
  <2> QED BY <1>0, <1>1, <1>q, <2>2, CallLocals
<1>3. Bill(q) \in Nat /\ q.used \in Nat
  <2>1. q.subtotal \in Nat /\ q.service \in Nat /\ q.used \in Nat
    BY <1>2, AmountsAreNat, Zenon
  <2> QED BY <2>1 DEF Bill
<1>4. PICK row \in OrderRow :
        row = [order[o] EXCEPT !.status = "PAID", !.paid = Bill(q), !.shift = q.shift]
  <2>1. order[o] \in OrderRow
    BY <1>0, <1>2, RowOfOrder
  <2> QED BY <1>2, <1>3, <2>1, RowChanges
<1>5. /\ order' = [order EXCEPT ![o] = row]
      /\ table' = [table EXCEPT ![order[o].table] = "CLEANING"]
      /\ Goto(r, NoCall) /\ UNCHANGED shift
      /\ stock' = stock + q.used /\ drawer' = drawer + Bill(q)
      /\ ~Refused(q)
  BY <1>q, <1>o, <1>4 DEF Settle, Leave, Done
<1>6. /\ order' \in [RestaurantOrders -> OrderRow \cup {Absent}]
      /\ order'[o] = row /\ \A x \in RestaurantOrders : x # o => order'[x] = order[x]
  BY <1>0, <1>5, OrderTyped
<1>7. row # Absent /\ row.self = order[o].self /\ AtRate(row)
  <2>1. order[o] \in OrderRow /\ AtRate(order[o])
    BY <1>0, <1>2, RowOfOrder DEF ServiceIsAtRate
  <2> QED BY <1>4, <2>1 DEF OrderRow, Absent, AtRate
<1>8. \A x \in RestaurantOrders : Exists(x)' <=> Exists(x)
  BY <1>2, <1>6, <1>7 DEF Exists
<1>9. /\ call' \in [Calls -> CallStates]
      /\ call'[r] = NoCall /\ \A x \in Calls : x # r => call'[x] = call[x]
  BY <1>0, <1>5, NoCallHolds, CallTyped
<1>10. table' \in [Tables -> {"FREE", "OCCUPIED", "CLEANING", "OUT_OF_SERVICE"}]
  <2>1. order[o].table \in Tables
    BY <1>0, <1>2, RowOfOrder
  <2> QED BY <1>0, <1>5, <2>1, TableTyped
<1>11. PICK dishes \in [Slots -> DishStatuses \cup {"none"}] :
         /\ dish' = [dish EXCEPT ![o] = dishes]
         /\ \A i \in Slots : dishes[i] = "none" <=> dish[o][i] = "none"
  <2> DEFINE dishes == [i \in Slots |-> IF i \in Active(o) THEN "SERVED" ELSE dish[o][i]]
  <2>1. dish \in [RestaurantOrders -> [Slots -> DishStatuses \cup {"none"}]]
    BY <1>0 DEF RestaurantTypeOK
  <2>2. dishes \in [Slots -> DishStatuses \cup {"none"}]
    BY <2>1 DEF DishStatuses
  <2>3. \A i \in Slots : dishes[i] = "none" <=> dish[o][i] = "none"
    BY DEF Active, Dishes
  <2>4. dish' = [dish EXCEPT ![o] = dishes]
    BY <1>q, <1>o, <2>1 DEF Settle
  <2> QED BY <2>2, <2>3, <2>4
<1>12. /\ dish' \in [RestaurantOrders -> [Slots -> DishStatuses \cup {"none"}]]
       /\ \A x \in RestaurantOrders : dish'[x] = IF x = o THEN dishes ELSE dish[x]
  BY <1>0, <1>11 DEF RestaurantTypeOK
<1>13. revenue' \in [RestaurantOrders -> Nat]
  <2>1. revenue \in [RestaurantOrders -> Nat]
    BY <1>0 DEF RestaurantTypeOK
  <2>2. revenue' = [revenue EXCEPT ![o] = revenue[o] + Bill(q)] \/ revenue' = revenue
    BY <1>q, <1>o DEF Settle, Posted
  <2>3. revenue[o] + Bill(q) \in Nat
    BY <1>3, <2>1
  <2> QED BY <2>1, <2>2, <2>3
<1>14. cost' \in [RestaurantOrders -> Amounts]
  <2>1. cost \in [RestaurantOrders -> Amounts]
    BY <1>0 DEF RestaurantTypeOK
  <2>2. CASE ~LedgerOn
    BY <2>1, <2>2 DEF Settle
  <2>3. CASE LedgerOn
    <3>1. cost' = [cost EXCEPT ![o] = cost[o] + Cardinality(Dishes(o))]
      BY <1>q, <1>o, <2>3 DEF Settle
    <3>2. Dishes(o) = {} \/ ~(cost[o] > 0)
      BY <1>5, <1>o, <2>3 DEF Refused, CostTaken
    <3>3. Cardinality(Dishes(o)) \in Amounts /\ (Dishes(o) = {} => Cardinality(Dishes(o)) = 0)
      BY SlotsCounted, FS_EmptySet DEF Dishes
    <3>4. cost[o] \in Amounts /\ cost[o] \in Nat /\ Cardinality(Dishes(o)) \in Nat
      BY <2>1, <3>3, AmountsAreNat
    <3>5. cost[o] + Cardinality(Dishes(o)) \in Amounts
      BY <3>2, <3>3, <3>4
    <3> QED BY <2>1, <3>1, <3>5
  <2> QED BY <2>2, <2>3
<1>15. RestaurantTypeOK'
  <2>1. drawer' \in Nat /\ stock' \in Nat
    BY <1>0, <1>3, <1>5 DEF RestaurantTypeOK
  <2> QED BY <1>0, <1>5, <1>6, <1>9, <1>10, <1>12, <1>13, <1>14, <2>1 DEF RestaurantTypeOK
<1>16. CallsHold'
  <2>1. CallHolds(NoCall)'
    BY DEF CallHolds, NoCall
  <2>2. \A x \in RestaurantOrders : Exists(x) => order'[x].self = order[x].self
    BY <1>6, <1>7
  <2> QED BY <1>0, <1>5, <1>8, <2>1, <2>2, NoCallHolds, CallsKeepHolding
<1>17. DishesHaveOrders'
  BY <1>0, <1>8, <1>11, <1>12 DEF DishesHaveOrders, Dishes
<1>18. ServiceIsAtRate'
  <2> SUFFICES ASSUME NEW x \in RestaurantOrders, Exists(x)' PROVE AtRate(order'[x])
    BY DEF ServiceIsAtRate, AtRate
  <2>1. CASE x = o
    BY <1>6, <1>7, <2>1
  <2>2. CASE x # o
    BY <1>0, <1>6, <1>8, <2>2 DEF ServiceIsAtRate
  <2> QED BY <2>1, <2>2
<1>19. Structure'
  BY <1>15, <1>16, <1>17, <1>18 DEF Structure
<1> QED BY <1>q, <1>o, <1>2, <1>3, <1>4, <1>5, <1>6, <1>9, <1>19

(* What a shift counts is natural, and so is what it took.                 *)
LEMMA CashIsNat ==
  ASSUME RestaurantTypeOK, NEW s PROVE CashOf(s) \in Nat
<1> DEFINE f == [o \in PaidIn(s) |-> order[o].paid]
<1>1. IsFiniteSet(PaidIn(s))
  BY RestaurantConstants, FS_Subset DEF PaidIn
<1>2. \A o \in PaidIn(s) : f[o] \in Nat
  BY RowOfOrder DEF PaidIn
<1> HIDE DEF f
<1>3. SumFunctionOnSet(f, PaidIn(s)) \in Nat
  BY <1>1, <1>2, SumNat
<1> QED BY <1>3 DEF CashOf, SumPaid, f

LEMMA CountStructure ==
  ASSUME Structure, NEW r \in Calls, NEW s \in Shifts, CountShift(r, s)
  PROVE  /\ Structure' /\ UNCHANGED <<order, dish, table, shift, money>>
         /\ call'[r] = [pc |-> "counted", shift |-> s, cash |-> CashOf(s)]
         /\ \A x \in Calls : x # r => call'[x] = call[x]
<1> DEFINE q == [pc |-> "counted", shift |-> s, cash |-> CashOf(s)]
<1>1. q \in CallStates
  BY CashIsNat DEF CallStates, Structure
<1>2. CallHolds(q)
  BY DEF CallHolds
<1>3. Goto(r, q) /\ UNCHANGED <<order, dish, table, shift, money>>
  BY DEF CountShift
<1>4. Structure'
  BY <1>1, <1>2, <1>3, OnlyTheCall
<1> QED BY <1>1, <1>3, <1>4, CallTyped DEF Structure

LEMMA CloseStructure ==
  ASSUME Structure, NEW r \in Calls, CloseShift(r)
  PROVE  LET q == call[r] IN
         /\ Structure' /\ UNCHANGED <<order, dish, table, money>> /\ At(r, "counted")
         /\ q.shift \in Shifts /\ q.cash \in Nat
         /\ shift'[q.shift] = [status |-> "closed", expected |-> q.cash]
         /\ \A s \in Shifts : s # q.shift => shift'[s] = shift[s]
         /\ call'[r] = NoCall /\ \A x \in Calls : x # r => call'[x] = call[x]
<1>0. RestaurantTypeOK /\ CallsHold /\ DishesHaveOrders /\ ServiceIsAtRate
  BY DEF Structure
<1>1. PICK q \in CallStates : q = call[r]
  BY <1>0, CallLocals
<1>2. q.pc = "counted" /\ q.shift \in Shifts /\ q.cash \in Nat
  BY <1>0, <1>1, CallLocals DEF CloseShift, At
<1>3. /\ shift' = [shift EXCEPT ![q.shift] = [status |-> "closed", expected |-> q.cash]]
      /\ Goto(r, NoCall) /\ UNCHANGED <<order, dish, table, money>>
  BY <1>1 DEF CloseShift, Done
<1>4. [status |-> "closed", expected |-> q.cash] \in ShiftRow
  BY <1>2 DEF ShiftRow
<1>5. /\ call' \in [Calls -> CallStates]
      /\ call'[r] = NoCall /\ \A x \in Calls : x # r => call'[x] = call[x]
  BY <1>0, <1>3, NoCallHolds, CallTyped
<1>6. shift' \in [Shifts -> ShiftRow]
      /\ shift'[q.shift] = [status |-> "closed", expected |-> q.cash]
      /\ \A s \in Shifts : s # q.shift => shift'[s] = shift[s]
  BY <1>0, <1>2, <1>3, <1>4 DEF RestaurantTypeOK
<1>7. RestaurantTypeOK'
  BY <1>0, <1>3, <1>5, <1>6 DEF RestaurantTypeOK, money
<1>8. CallHolds(NoCall)' /\ \A x \in RestaurantOrders : Exists(x)' <=> Exists(x)
  BY <1>3 DEF CallHolds, NoCall, Exists
<1>9. CallsHold'
  BY <1>0, <1>3, <1>8, NoCallHolds, CallsKeepHolding
<1>10. DishesHaveOrders' /\ ServiceIsAtRate'
  BY <1>0, <1>3 DEF DishesHaveOrders, ServiceIsAtRate, Dishes, AtRate, Exists
<1> QED BY <1>1, <1>2, <1>3, <1>5, <1>6, <1>7, <1>9, <1>10 DEF Structure, At

LEMMA NoCallMoves ==
  ASSUME Structure, UNCHANGED <<order, dish, money, call>>,
         table' \in [Tables -> {"FREE", "OCCUPIED", "CLEANING", "OUT_OF_SERVICE"}],
         shift' \in [Shifts -> ShiftRow]
  PROVE  Structure'
<1>1. RestaurantTypeOK'
  BY DEF Structure, RestaurantTypeOK, money
<1>2. CallsHold'
  BY DEF Structure, CallsHold, CallHolds, AtRate, Exists, At
<1>3. DishesHaveOrders' /\ ServiceIsAtRate'
  BY DEF Structure, DishesHaveOrders, ServiceIsAtRate, Dishes, AtRate, Exists
<1> QED BY <1>1, <1>2, <1>3 DEF Structure

LEMMA OpenStructure ==
  ASSUME Structure, NEW s \in Shifts, OpenAShift(s)
  PROVE  /\ Structure' /\ UNCHANGED <<order, dish, table, money, call>>
         /\ shift'[s].status = "open" /\ \A x \in Shifts : x # s => shift'[x] = shift[x]
<1>1. shift' = [shift EXCEPT ![s] = [status |-> "open"]]
      /\ UNCHANGED <<order, dish, table, money, call>>
  BY DEF OpenAShift
<1>2. shift \in [Shifts -> ShiftRow] /\ [status |-> "open"] \in ShiftRow
  BY DEF Structure, RestaurantTypeOK, ShiftRow
<1>3. shift' \in [Shifts -> ShiftRow] /\ shift'[s].status = "open"
      /\ \A x \in Shifts : x # s => shift'[x] = shift[x]
  BY <1>1, <1>2
<1>4. Structure'
  BY <1>1, <1>3, NoCallMoves DEF Structure, RestaurantTypeOK
<1> QED BY <1>1, <1>3, <1>4

LEMMA UpdateTableStructure ==
  ASSUME Structure, NEW t \in Tables, NEW mark \in TableMarks, UpdateTable(t, mark)
  PROVE  /\ Structure' /\ UNCHANGED <<order, dish, shift, money, call>>
         /\ table'[t] # "OCCUPIED" /\ \A x \in Tables : x # t => table'[x] = table[x]
<1>1. table' = [table EXCEPT ![t] = mark] /\ UNCHANGED <<order, dish, shift, money, call>>
  BY DEF UpdateTable
<1>2. mark \in {"FREE", "CLEANING", "OUT_OF_SERVICE"}
  BY RestaurantConstants
<1>3. table' \in [Tables -> {"FREE", "OCCUPIED", "CLEANING", "OUT_OF_SERVICE"}]
  BY <1>1, <1>2, TableTyped DEF Structure
<1>4. shift' \in [Shifts -> ShiftRow]
  BY <1>1 DEF Structure, RestaurantTypeOK
<1>5. Structure'
  BY <1>1, <1>3, <1>4, NoCallMoves
<1>6. table'[t] = mark /\ \A x \in Tables : x # t => table'[x] = table[x]
  BY <1>1 DEF Structure, RestaurantTypeOK
<1> QED BY <1>1, <1>2, <1>5, <1>6
-----------------------------------------------------------------------------
(* The drawer, the ledger and the shifts.                                  *)
MoneyFine == DrawerMatchesRevenue /\ PaidIsPosted /\ MoneyHasOneShift

\* The witness of MoneyHasOneShift: which shift took the money of an order.
TakesAll(taker) ==
  /\ \A o \in RestaurantOrders : Exists(o) /\ order[o].paid > 0 => taker[o] = order[o].shift
  /\ \A s \in ClosedShifts : shift[s].expected <= Takings(taker, s)
  /\ \A r \in Calls : At(r, "counted") => call[r].cash <= Takings(taker, call[r].shift)

LEMMA HasTaker ==
  MoneyHasOneShift <=>
    (LedgerOn => \E taker \in [RestaurantOrders -> Shifts \cup {NoShift}] : TakesAll(taker))
BY DEF MoneyHasOneShift, TakesAll

\* No money moves, nothing is counted and no shift is closed.
MoneyStill ==
  /\ UNCHANGED <<drawer, revenue>>
  /\ \A o \in RestaurantOrders : Exists(o)' =>
       \/ order'[o].paid = 0
       \/ Exists(o) /\ order'[o].paid = order[o].paid /\ order'[o].shift = order[o].shift
  /\ \A x \in Calls : At(x, "counted")' => At(x, "counted") /\ call'[x] = call[x]
  /\ \A s \in Shifts : shift'[s].status = "closed" => shift'[s] = shift[s]

LEMMA MoneyKept == ASSUME MoneyFine, MoneyStill PROVE MoneyFine'
<1>1. DrawerMatchesRevenue'
  BY DEF MoneyFine, MoneyStill, DrawerMatchesRevenue
<1>2. PaidIsPosted'
  BY DEF MoneyFine, MoneyStill, PaidIsPosted
<1>3. MoneyHasOneShift'
  <2> SUFFICES ASSUME LedgerOn
               PROVE  (\E taker \in [RestaurantOrders -> Shifts \cup {NoShift}] : TakesAll(taker))'
    BY HasTaker DEF MoneyHasOneShift, TakesAll
  <2>1. PICK taker \in [RestaurantOrders -> Shifts \cup {NoShift}] : TakesAll(taker)
    BY HasTaker DEF MoneyFine
  <2>2. \A s : Takings(taker, s)' = Takings(taker, s)
    BY DEF MoneyStill, Takings
  <2>3. \A o \in RestaurantOrders : Exists(o)' /\ order'[o].paid > 0 => taker[o] = order'[o].shift
    BY <2>1 DEF TakesAll, MoneyStill
  <2>4. \A s \in ClosedShifts' : shift'[s].expected <= Takings(taker, s)'
    BY <2>1, <2>2 DEF TakesAll, MoneyStill, ClosedShifts
  <2>5. ASSUME NEW r \in Calls, At(r, "counted")'
        PROVE  call'[r].cash
                 <= SumFunctionOnSet(revenue',
                                     {o \in RestaurantOrders : taker[o] = call'[r].shift})
    <3>1. At(r, "counted") /\ call'[r] = call[r]
      BY <2>5 DEF MoneyStill
    <3> QED BY <2>1, <3>1 DEF TakesAll, MoneyStill, Takings
  <2> QED BY <2>3, <2>4, <2>5 DEF TakesAll, Takings
<1> QED BY <1>1, <1>2, <1>3 DEF MoneyFine

(* What a shift counts came in under it.                                   *)
LEMMA CountedIsTaken ==
  ASSUME RestaurantTypeOK, PaidIsPosted, LedgerOn, NEW s \in Shifts,
         NEW taker \in [RestaurantOrders -> Shifts \cup {NoShift}], TakesAll(taker)
  PROVE  CashOf(s) <= Takings(taker, s)
<1> DEFINE paid == [o \in PaidIn(s) |-> order[o].paid]
           T == {o \in PaidIn(s) : order[o].paid > 0}
           H == {o \in RestaurantOrders : taker[o] = s}
<1>1. \A o \in PaidIn(s) : paid[o] = order[o].paid /\ paid[o] \in Nat
  BY RowOfOrder DEF PaidIn
<1>2. \A o \in RestaurantOrders : revenue[o] \in Nat
  BY DEF RestaurantTypeOK
<1>3. IsFiniteSet(PaidIn(s)) /\ IsFiniteSet(H)
  BY RestaurantConstants, FS_Subset DEF PaidIn
<1>4. T \in SUBSET PaidIn(s) /\ \A o \in PaidIn(s) \ T : paid[o] = 0
  BY <1>1
<1>5. T \subseteq H
  BY DEF PaidIn, TakesAll
<1>6. \A o \in T : paid[o] = revenue[o]
  BY <1>1 DEF PaidIn, PaidIsPosted
<1>7. CashOf(s) = SumFunctionOnSet(paid, PaidIn(s))
  BY DEF CashOf, SumPaid
<1>8. Takings(taker, s) = SumFunctionOnSet(revenue, H)
  BY DEF Takings
<1>9. \A o \in H : revenue[o] \in Nat
  BY <1>2
<1> HIDE DEF paid, T, H
<1>10. SumFunctionOnSet(paid, PaidIn(s)) = SumFunctionOnSet(paid, T)
  BY <1>1, <1>3, <1>4, SumSubset
<1>11. IsFiniteSet(T)
  BY <1>3, <1>4, FS_Subset
<1>12. SumFunctionOnSet(paid, T) = SumFunctionOnSet(revenue, T)
  BY <1>6, <1>11, SumSame
<1>13. SumFunctionOnSet(revenue, T) <= SumFunctionOnSet(revenue, H)
  BY <1>3, <1>5, <1>9, SumPart
<1> QED BY <1>7, <1>8, <1>10, <1>12, <1>13

LEMMA CountMoney ==
  ASSUME Structure, MoneyFine, NEW r \in Calls, NEW s \in Shifts, CountShift(r, s)
  PROVE  MoneyFine'
<1>1. /\ UNCHANGED <<order, shift, drawer, revenue>>
      /\ call'[r] = [pc |-> "counted", shift |-> s, cash |-> CashOf(s)]
      /\ \A x \in Calls : x # r => call'[x] = call[x]
  BY CountStructure DEF money
<1>2. DrawerMatchesRevenue' /\ PaidIsPosted'
  BY <1>1 DEF MoneyFine, DrawerMatchesRevenue, PaidIsPosted, Exists
<1>3. MoneyHasOneShift'
  <2> SUFFICES ASSUME LedgerOn
               PROVE  (\E taker \in [RestaurantOrders -> Shifts \cup {NoShift}] : TakesAll(taker))'
    BY HasTaker DEF MoneyHasOneShift, TakesAll
  <2>1. PICK taker \in [RestaurantOrders -> Shifts \cup {NoShift}] : TakesAll(taker)
    BY HasTaker DEF MoneyFine
  <2>2. PICK cash : cash = CashOf(s)
    OBVIOUS
  <2>3. cash <= Takings(taker, s)
    BY <2>1, <2>2, CountedIsTaken DEF Structure, MoneyFine
  <2>4. \A o \in RestaurantOrders : Exists(o)' /\ order'[o].paid > 0 => taker[o] = order'[o].shift
    BY <1>1, <2>1 DEF TakesAll, Exists
  <2>5. \A x \in ClosedShifts' : shift'[x].expected
          <= SumFunctionOnSet(revenue', {o \in RestaurantOrders : taker[o] = x})
    BY <1>1, <2>1 DEF TakesAll, ClosedShifts, Takings
  <2>6. ASSUME NEW x \in Calls, At(x, "counted")'
        PROVE  call'[x].cash
                 <= SumFunctionOnSet(revenue',
                                     {o \in RestaurantOrders : taker[o] = call'[x].shift})
    <3>1. CASE x = r
      <4>1. call'[x].cash = cash /\ call'[x].shift = s
        BY <1>1, <2>2, <3>1
      <4> QED BY <1>1, <2>3, <4>1 DEF Takings
    <3>2. CASE x # r
      <4>1. call'[x] = call[x] /\ At(x, "counted")
        BY <1>1, <2>6, <3>2 DEF At
      <4> QED BY <1>1, <2>1, <4>1 DEF TakesAll, Takings
    <3> QED BY <3>1, <3>2
  <2> QED BY <2>4, <2>5, <2>6 DEF TakesAll, Takings
<1> QED BY <1>2, <1>3 DEF MoneyFine

LEMMA CloseMoney ==
  ASSUME Structure, MoneyFine, NEW r \in Calls, CloseShift(r)
  PROVE  MoneyFine'
<1>1. PICK q \in CallStates :
      /\ q = call[r] /\ UNCHANGED <<order, drawer, revenue>> /\ At(r, "counted")
      /\ q.shift \in Shifts
      /\ shift'[q.shift] = [status |-> "closed", expected |-> q.cash]
      /\ \A s \in Shifts : s # q.shift => shift'[s] = shift[s]
      /\ call'[r] = NoCall /\ \A x \in Calls : x # r => call'[x] = call[x]
  BY CloseStructure, CallLocals DEF money, Structure
<1>2. DrawerMatchesRevenue' /\ PaidIsPosted'
  BY <1>1 DEF MoneyFine, DrawerMatchesRevenue, PaidIsPosted, Exists
<1>3. MoneyHasOneShift'
  <2> SUFFICES ASSUME LedgerOn
               PROVE  (\E taker \in [RestaurantOrders -> Shifts \cup {NoShift}] : TakesAll(taker))'
    BY HasTaker DEF MoneyHasOneShift, TakesAll
  <2>1. PICK taker \in [RestaurantOrders -> Shifts \cup {NoShift}] : TakesAll(taker)
    BY HasTaker DEF MoneyFine
  <2>2. q.cash <= Takings(taker, q.shift)
    BY <1>1, <2>1 DEF TakesAll
  <2>3. \A s : Takings(taker, s)' = Takings(taker, s)
    BY <1>1 DEF Takings
  <2>4. \A o \in RestaurantOrders : Exists(o)' /\ order'[o].paid > 0 => taker[o] = order'[o].shift
    BY <1>1, <2>1 DEF TakesAll, Exists
  <2>5. ASSUME NEW s \in Shifts, shift'[s].status = "closed"
        PROVE  shift'[s].expected <= Takings(taker, s)
    <3>1. CASE s = q.shift
      <4>1. shift'[s].expected = q.cash
        BY <1>1, <3>1
      <4> QED BY <2>2, <3>1, <4>1
    <3>2. CASE s # q.shift
      <4>1. shift'[s] = shift[s]
        BY <1>1, <3>2
      <4> QED BY <2>1, <2>5, <4>1 DEF TakesAll, ClosedShifts
    <3> QED BY <3>1, <3>2
  <2>6. ASSUME NEW x \in Calls, At(x, "counted")'
        PROVE  call'[x].cash
                 <= SumFunctionOnSet(revenue',
                                     {o \in RestaurantOrders : taker[o] = call'[x].shift})
    <3>1. call'[x] = call[x] /\ At(x, "counted")
      BY <1>1, <2>6 DEF At, NoCall
    <3> QED BY <1>1, <2>1, <3>1 DEF TakesAll, Takings
  <2> QED BY <2>3, <2>4, <2>5, <2>6 DEF TakesAll, Takings, ClosedShifts
<1> QED BY <1>2, <1>3 DEF MoneyFine

LEMMA SettleMoney ==
  ASSUME Structure, MoneyFine, NEW r \in Calls, Settle(r)
  PROVE  MoneyFine'
<1>t. RestaurantTypeOK
  BY DEF Structure
<1>1. PICK q \in CallStates, o \in RestaurantOrders :
      /\ q = call[r] /\ o = q.order
      /\ Exists(o) /\ Bill(q) \in Nat /\ q.shift \in Shifts \cup {NoShift}
      /\ \A x \in RestaurantOrders : x # o => order'[x] = order[x]
      /\ order'[o] = [order[o] EXCEPT !.status = "PAID", !.paid = Bill(q), !.shift = q.shift]
      /\ call'[r] = NoCall /\ \A x \in Calls : x # r => call'[x] = call[x]
  BY <1>t, SettleStructure, CallLocals
<1>2. PICK due \in Nat : due = Bill(q)
  BY <1>1
<1>3. order'[o].paid = due /\ order'[o].shift = q.shift
  <2>1. order[o] \in OrderRow
    BY <1>t, <1>1, RowOfOrder
  <2> QED BY <1>1, <1>2, <2>1 DEF OrderRow
<1>4. UNCHANGED shift /\ drawer' = drawer + due
      /\ (LedgerOn => /\ revenue' = [revenue EXCEPT ![o] = revenue[o] + due]
                      /\ due > 0 => revenue[o] = 0)
  <2>1. UNCHANGED shift /\ drawer' = drawer + due /\ ~Refused(q)
    BY <1>1, <1>2 DEF Settle
  <2>2. LedgerOn => revenue' = [revenue EXCEPT ![o] = revenue[o] + due]
    BY <1>1, <1>2 DEF Settle, Posted
  <2>3. revenue[o] \in Nat
    BY <1>t DEF RestaurantTypeOK
  <2>4. LedgerOn /\ due > 0 => ~(revenue[o] > 0)
    BY <1>1, <1>2, <2>1 DEF Refused, Taken
  <2> QED BY <2>1, <2>2, <2>3, <2>4
<1>5. CASE ~LedgerOn
  BY <1>5 DEF MoneyFine, DrawerMatchesRevenue, PaidIsPosted, MoneyHasOneShift
<1>6. CASE LedgerOn
  <2>1. revenue \in [RestaurantOrders -> Nat] /\ drawer \in Nat
    BY <1>t DEF RestaurantTypeOK
  <2>2. \A x \in RestaurantOrders : revenue[x] \in Int /\ revenue'[x] \in Int /\ revenue'[x] \in Nat
    BY <1>4, <1>6, <2>1
  <2>3. revenue'[o] = revenue[o] + due /\ \A x \in RestaurantOrders \ {o} : revenue[x] = revenue'[x]
    BY <1>4, <1>6, <2>1
  <2>4. DrawerMatchesRevenue'
    <3>1. SumFunctionOnSet(revenue', RestaurantOrders)
            = SumFunctionOnSet(revenue, RestaurantOrders) + revenue'[o] - revenue[o]
      BY <2>2, <2>3, SumChange, RestaurantConstants
    <3>2. SumFunctionOnSet(revenue, RestaurantOrders) = drawer
      BY <1>6 DEF MoneyFine, DrawerMatchesRevenue
    <3>3. SumFunctionOnSet(revenue', RestaurantOrders) = drawer'
      BY <1>4, <2>1, <2>2, <2>3, <3>1, <3>2
    <3> QED BY <3>3 DEF DrawerMatchesRevenue
  <2>5. PaidIsPosted'
    <3> SUFFICES ASSUME NEW x \in RestaurantOrders, Exists(x)', order'[x].paid > 0
                 PROVE  revenue'[x] = order'[x].paid
      BY DEF PaidIsPosted
    <3>1. CASE x = o
      BY <1>3, <1>4, <1>6, <2>3, <3>1
    <3>2. CASE x # o
      BY <1>1, <1>6, <2>3, <3>2 DEF MoneyFine, PaidIsPosted, Exists
    <3> QED BY <3>1, <3>2
  <2>6. MoneyHasOneShift'
    <3>1. PICK taker \in [RestaurantOrders -> Shifts \cup {NoShift}] : TakesAll(taker)
      BY <1>6, HasTaker DEF MoneyFine
    <3>2. PICK after \in [RestaurantOrders -> Shifts \cup {NoShift}] :
            /\ \A x \in RestaurantOrders : x # o => after[x] = taker[x]
            /\ due > 0 => after[o] = q.shift
            /\ ~(due > 0) => after = taker
      <4>1. CASE due > 0
        <5>1. [taker EXCEPT ![o] = q.shift] \in [RestaurantOrders -> Shifts \cup {NoShift}]
          BY <1>1, <3>1
        <5> QED BY <4>1, <5>1
      <4>2. CASE ~(due > 0)
        BY <3>1, <4>2
      <4> QED BY <4>1, <4>2
    <3>3. ASSUME NEW s
          PROVE  Takings(taker, s)
                    <= SumFunctionOnSet(revenue', {x \in RestaurantOrders : after[x] = s})
      <4> DEFINE H == {x \in RestaurantOrders : taker[x] = s}
                 K == {x \in RestaurantOrders : after[x] = s}
                 T == H \ {o}
      <4>1. IsFiniteSet(H) /\ IsFiniteSet(K)
            /\ H \subseteq RestaurantOrders /\ K \subseteq RestaurantOrders
        BY RestaurantConstants, FS_Subset
      <4>2. Takings(taker, s) = SumFunctionOnSet(revenue, H)
        BY DEF Takings
      <4>3. due > 0 => T \subseteq K
        BY <3>2
      <4>4. ~(due > 0) => H = K
        BY <3>2
      <4>5. T \subseteq H /\ o \notin T /\ \A x \in H : x \notin T => x = o
        OBVIOUS
      <4> HIDE DEF H, K, T
      <4>6. CASE due > 0
        <5>1. \A x \in H : revenue[x] \in Int
          BY <2>2, <4>1
        <5>2. T \in SUBSET H /\ \A x \in H \ T : revenue[x] = 0
          BY <1>4, <1>6, <4>5, <4>6
        <5>3. SumFunctionOnSet(revenue, H) = SumFunctionOnSet(revenue, T)
          BY <4>1, <5>1, <5>2, SumSubset
        <5>4. IsFiniteSet(T) /\ \A x \in T : revenue[x] = revenue'[x]
          BY <2>3, <4>1, <4>5, FS_Subset
        <5>5. SumFunctionOnSet(revenue, T) = SumFunctionOnSet(revenue', T)
          BY <5>4, SumSame
        <5>6. \A x \in K : revenue'[x] \in Nat
          BY <2>2, <4>1
        <5>7. SumFunctionOnSet(revenue', T) <= SumFunctionOnSet(revenue', K)
          BY <4>1, <4>3, <4>6, <5>6, SumPart
        <5> QED BY <4>2, <5>3, <5>5, <5>7 DEF K
      <4>7. CASE ~(due > 0)
        <5>1. \A x \in H : revenue[x] = revenue'[x]
          BY <1>2, <2>1, <2>3, <4>1, <4>7
        <5>2. SumFunctionOnSet(revenue, H) = SumFunctionOnSet(revenue', H)
          BY <4>1, <5>1, SumSame
        <5>3. \A x \in H : revenue[x] \in Int
          BY <2>2, <4>1
        <5>4. SumFunctionOnSet(revenue, H) \in Int
          BY <4>1, <5>3, SumInt
        <5>5. SumFunctionOnSet(revenue', H) = SumFunctionOnSet(revenue', K)
          <6>1. H = K
            BY <4>4, <4>7
          <6> QED BY ONLY <6>1, Zenon
        <5> QED BY <4>2, <5>2, <5>4, <5>5 DEF K
      <4> QED BY <4>6, <4>7
    <3>4. \A s : Takings(taker, s) \in Int
      <4> SUFFICES ASSUME NEW s PROVE Takings(taker, s) \in Int
        OBVIOUS
      <4> DEFINE H == {x \in RestaurantOrders : taker[x] = s}
      <4>1. IsFiniteSet(H) /\ \A x \in H : revenue[x] \in Int
        BY <2>2, RestaurantConstants, FS_Subset
      <4>2. SumFunctionOnSet(revenue, H) \in Int
        BY <4>1, SumInt
      <4> QED BY <4>2 DEF Takings
    <3>5. \A s : SumFunctionOnSet(revenue', {x \in RestaurantOrders : after[x] = s}) \in Int
      <4> SUFFICES ASSUME NEW s
                   PROVE SumFunctionOnSet(revenue', {x \in RestaurantOrders : after[x] = s}) \in Int
        OBVIOUS
      <4> DEFINE K == {x \in RestaurantOrders : after[x] = s}
      <4>1. IsFiniteSet(K) /\ \A x \in K : revenue'[x] \in Int
        BY <2>2, RestaurantConstants, FS_Subset
      <4> HIDE DEF K
      <4>2. SumFunctionOnSet(revenue', K) \in Int
        BY <4>1, SumInt
      <4> QED BY <4>2 DEF K
    <3>6. \A s : Takings(taker, s) <= Takings(after, s)'
      BY <3>3 DEF Takings
    <3>7. \A s : Takings(after, s)' \in Int
      BY <3>5 DEF Takings
    <3>8. ASSUME NEW x \in RestaurantOrders, Exists(x)', order'[x].paid > 0
          PROVE  after[x] = order'[x].shift
      <4>1. CASE x = o
        BY <1>3, <3>2, <3>8, <4>1
      <4>2. CASE x # o
        BY <1>1, <3>1, <3>2, <3>8, <4>2 DEF TakesAll, Exists
      <4> QED BY <4>1, <4>2
    <3>9. ASSUME NEW s \in Shifts, shift[s].status = "closed"
          PROVE  shift[s].expected <= Takings(after, s)'
      <4>1. shift[s].expected \in Nat
        <5>1. shift[s] \in ShiftRow
          BY <1>t DEF RestaurantTypeOK
        <5> QED BY <3>9, <5>1 DEF ShiftRow, Absent
      <4>2. shift[s].expected <= Takings(taker, s)
        BY <3>1, <3>9 DEF TakesAll, ClosedShifts
      <4> QED BY <3>4, <3>6, <3>7, <4>1, <4>2
    <3>10. ASSUME NEW x \in Calls, At(x, "counted")'
           PROVE  call'[x].cash
                    <= SumFunctionOnSet(revenue',
                                        {y \in RestaurantOrders : after[y] = call'[x].shift})
      <4>1. call'[x] = call[x] /\ At(x, "counted")
        BY <1>1, <3>10 DEF At, NoCall
      <4>2. call[x].cash \in Nat
        BY <1>t, <4>1, CallLocals DEF At
      <4>3. call[x].cash <= Takings(taker, call[x].shift)
        BY <3>1, <4>1 DEF TakesAll
      <4>4. PICK s : s = call[x].shift
        OBVIOUS
      <4>5. call[x].cash <= Takings(after, s)'
        BY <3>4, <3>6, <3>7, <4>2, <4>3, <4>4
      <4> QED BY <4>1, <4>4, <4>5 DEF Takings
    <3>11. TakesAll(after)'
      BY <1>4, <3>8, <3>9, <3>10 DEF TakesAll, ClosedShifts, Takings
    <3> QED BY <3>2, <3>11 DEF MoneyHasOneShift, TakesAll
  <2> QED BY <2>4, <2>5, <2>6 DEF MoneyFine
<1> QED BY <1>5, <1>6
-----------------------------------------------------------------------------
(* Tables.                                                                 *)
Explains(o, t) == Exists(o) /\ order[o].table = t /\ (IsOpen(o) \/ order[o].self)

LEMMA TablesExplained ==
  ASSUME OccupiedTableIsExplained,
         \A t \in Tables : table'[t] = "OCCUPIED" =>
           \/ table[t] = "OCCUPIED" /\ \A o \in RestaurantOrders : Explains(o, t) => Explains(o, t)'
           \/ \E o \in RestaurantOrders : Explains(o, t)'
  PROVE  OccupiedTableIsExplained'
<1> SUFFICES ASSUME NEW t \in Tables, table'[t] = "OCCUPIED"
             PROVE  \E o \in RestaurantOrders : Explains(o, t)'
  BY DEF OccupiedTableIsExplained, Explains
<1>1. CASE \E o \in RestaurantOrders : Explains(o, t)'
  BY <1>1
<1>2. CASE table[t] = "OCCUPIED" /\ \A o \in RestaurantOrders : Explains(o, t) => Explains(o, t)'
  <2>1. PICK o \in RestaurantOrders : Explains(o, t)
    BY <1>2 DEF OccupiedTableIsExplained, Explains
  <2> QED BY <1>2, <2>1
<1> QED BY <1>1, <1>2

LEMMA SameTables ==
  ASSUME OccupiedTableIsExplained, UNCHANGED <<order, table>> PROVE OccupiedTableIsExplained'
BY DEF OccupiedTableIsExplained, Exists, IsOpen

LEMMA RowTables ==
  ASSUME Structure, OccupiedTableIsExplained, NEW r \in Calls, RowStep(r)
  PROVE  OccupiedTableIsExplained'
<1>0. RestaurantTypeOK
  BY DEF Structure
<1>1. PICK o \in RestaurantOrders, row \in OrderRow :
        /\ o = call[r].order /\ Exists(o)
        /\ order' = [order EXCEPT ![o] = row] /\ SameMoney(row, order[o])
        /\ \/ CancelOrder(r)
           \/ /\ UNCHANGED <<dish, table>>
              /\ row.status \notin Closed \/ row.status = order[o].status \/ row.self
  BY RowOfStep
<1>2. order'[o] = row /\ \A x \in RestaurantOrders : x # o => order'[x] = order[x]
  BY <1>0, <1>1, OrderTyped
<1>3. \A x \in RestaurantOrders, t \in Tables : x # o /\ Explains(x, t) => Explains(x, t)'
  BY <1>2 DEF Explains, Exists, IsOpen
<1>4. row # Absent
  BY DEF OrderRow, Absent, OrderStatuses, Closed
<1>5. CASE CancelOrder(r)
  <2>1. table' = [table EXCEPT ![order[o].table] = "FREE"]
        /\ table \in [Tables -> {"FREE", "OCCUPIED", "CLEANING", "OUT_OF_SERVICE"}]
    BY <1>0, <1>1, <1>5 DEF CancelOrder, Leave, RestaurantTypeOK
  <2>2. ASSUME NEW t \in Tables, table'[t] = "OCCUPIED"
        PROVE  table[t] = "OCCUPIED"
               /\ \A x \in RestaurantOrders : Explains(x, t) => Explains(x, t)'
    <3>1. t # order[o].table /\ table[t] = "OCCUPIED"
      BY <2>1, <2>2
    <3>2. ~Explains(o, t)
      BY <3>1 DEF Explains
    <3> QED BY <1>3, <3>1, <3>2
  <2> QED BY <2>2, TablesExplained
<1>6. CASE /\ UNCHANGED <<dish, table>>
           /\ row.status \notin Closed \/ row.status = order[o].status \/ row.self
  <2>1. \A t \in Tables : Explains(o, t) => Explains(o, t)'
    BY <1>1, <1>2, <1>4, <1>6 DEF Explains, Exists, IsOpen, SameMoney
  <2>2. \A t \in Tables : table'[t] = "OCCUPIED" =>
          table[t] = "OCCUPIED" /\ \A x \in RestaurantOrders : Explains(x, t) => Explains(x, t)'
    BY <1>3, <1>6, <2>1
  <2> QED BY <2>2, TablesExplained
<1> QED BY <1>1, <1>5, <1>6

LEMMA CreateTables ==
  ASSUME Structure, OccupiedTableIsExplained, NEW r \in Calls, NEW slots \in SUBSET Slots,
         CreateOrder(r, slots)
  PROVE  OccupiedTableIsExplained'
<1>1. PICK o \in RestaurantOrders, seat \in Tables :
        /\ o = call[r].order /\ seat = call[r].table /\ ~Exists(o)
        /\ \A x \in RestaurantOrders : x # o => order'[x] = order[x]
        /\ order'[o].status = "OPEN" /\ order'[o].table = seat /\ order'[o] # Absent
        /\ table' = [table EXCEPT ![seat] = "OCCUPIED"]
  BY CreateStructure
<1>2. \A x \in RestaurantOrders, t \in Tables : Explains(x, t) => Explains(x, t)'
  BY <1>1 DEF Explains, Exists, IsOpen
<1>3. Explains(o, seat)'
  BY <1>1 DEF Explains, Exists, IsOpen, Closed
<1>4. \A t \in Tables : t # seat => table'[t] = table[t]
  BY <1>1 DEF Structure, RestaurantTypeOK
<1> QED BY <1>2, <1>3, <1>4, TablesExplained

LEMMA SettleTables ==
  ASSUME Structure, OccupiedTableIsExplained, NEW r \in Calls, Settle(r)
  PROVE  OccupiedTableIsExplained'
<1>1. PICK o \in RestaurantOrders :
        /\ o = call[r].order
        /\ \A x \in RestaurantOrders : x # o => order'[x] = order[x]
        /\ table' = [table EXCEPT ![order[o].table] = "CLEANING"]
  BY SettleStructure
<1>2. \A x \in RestaurantOrders, t \in Tables : x # o /\ Explains(x, t) => Explains(x, t)'
  BY <1>1 DEF Explains, Exists, IsOpen
<1>3. table \in [Tables -> {"FREE", "OCCUPIED", "CLEANING", "OUT_OF_SERVICE"}]
  BY DEF Structure, RestaurantTypeOK
<1>4. ASSUME NEW t \in Tables, table'[t] = "OCCUPIED"
      PROVE  table[t] = "OCCUPIED" /\ \A x \in RestaurantOrders : Explains(x, t) => Explains(x, t)'
  <2>1. t # order[o].table /\ table[t] = "OCCUPIED"
    BY <1>1, <1>3, <1>4
  <2>2. ~Explains(o, t)
    BY <2>1 DEF Explains
  <2> QED BY <1>2, <2>1, <2>2
<1> QED BY <1>4, TablesExplained
-----------------------------------------------------------------------------
LEMMA RestaurantInitially == RestaurantInit => RestaurantInv
<1> SUFFICES ASSUME RestaurantInit PROVE RestaurantInv
  OBVIOUS
<1>1. RestaurantTypeOK
  <2>1. NoCall \in CallStates /\ Absent \in ShiftRow /\ 0 \in Amounts
    BY SlotsCounted, FS_EmptySet, NoCallHolds DEF ShiftRow
  <2> QED BY <2>1 DEF RestaurantInit, RestaurantTypeOK
<1>2. CallsHold
  BY DEF RestaurantInit, CallsHold, CallHolds, NoCall, At
<1>3. DishesHaveOrders /\ ServiceIsAtRate
  BY DEF RestaurantInit, DishesHaveOrders, ServiceIsAtRate, Dishes, Exists
<1>4. SumFunctionOnSet(revenue, RestaurantOrders) = 0
  <2>1. \A o \in RestaurantOrders : revenue[o] = 0
    BY DEF RestaurantInit
  <2> QED BY <2>1, SumZero, RestaurantConstants
<1>5. DrawerMatchesRevenue /\ PaidIsPosted
  BY <1>4 DEF RestaurantInit, DrawerMatchesRevenue, PaidIsPosted, Exists
<1>6. MoneyHasOneShift
  <2> DEFINE taker == [o \in RestaurantOrders |-> NoShift]
  <2>1. taker \in [RestaurantOrders -> Shifts \cup {NoShift}]
    OBVIOUS
  <2>2. TakesAll(taker)
    BY DEF RestaurantInit, TakesAll, Exists, ClosedShifts, Absent, At, NoCall
  <2> HIDE DEF taker
  <2> QED BY <2>1, <2>2, HasTaker
<1>7. OccupiedTableIsExplained
  BY DEF RestaurantInit, OccupiedTableIsExplained
<1> QED BY <1>1, <1>2, <1>3, <1>5, <1>6, <1>7 DEF RestaurantInv

LEMMA InvOfParts ==
  RestaurantInv <=> Structure /\ MoneyFine /\ OccupiedTableIsExplained
BY DEF RestaurantInv, Structure, MoneyFine

LEMMA CallStep ==
  ASSUME RestaurantInv, NEW r \in Calls, Step(r) PROVE RestaurantInv'
<1>0. Structure /\ MoneyFine /\ OccupiedTableIsExplained
  BY InvOfParts
<1>1. CASE ReadStep(r)
  <2>1. /\ Structure' /\ UNCHANGED <<order, dish, table, shift, money>>
        /\ \A x \in Calls : At(x, "counted")' => At(x, "counted") /\ call'[x] = call[x]
    BY <1>0, <1>1, ReadStructure
  <2>2. MoneyStill
    BY <2>1 DEF MoneyStill, money, Exists
  <2> QED BY <1>0, <2>1, <2>2, MoneyKept, SameTables DEF RestaurantInv, Structure, MoneyFine
<1>2. CASE DishStep(r)
  <2>1. /\ Structure' /\ UNCHANGED <<order, table, shift, money>>
        /\ \A x \in Calls : At(x, "counted")' => At(x, "counted") /\ call'[x] = call[x]
    BY <1>0, <1>2, DishStructure
  <2>2. MoneyStill
    BY <2>1 DEF MoneyStill, money, Exists
  <2> QED BY <1>0, <2>1, <2>2, MoneyKept, SameTables DEF RestaurantInv, Structure, MoneyFine
<1>3. CASE RowStep(r)
  <2>1. Structure' /\ OccupiedTableIsExplained'
    BY <1>0, <1>3, RowStructure, RowTables
  <2>2. PICK o \in RestaurantOrders, row \in OrderRow :
          /\ Exists(o) /\ order' = [order EXCEPT ![o] = row] /\ SameMoney(row, order[o])
          /\ Goto(r, NoCall) /\ UNCHANGED <<shift, money>>
    BY <1>0, <1>3, RowOfStep
  <2>3. order'[o] = row /\ \A x \in RestaurantOrders : x # o => order'[x] = order[x]
    BY <1>0, <2>2, OrderTyped DEF Structure
  <2>4. call'[r] = NoCall /\ \A x \in Calls : x # r => call'[x] = call[x]
    BY <1>0, <2>2, NoCallHolds, CallTyped DEF Structure
  <2>5. \A x \in Calls : At(x, "counted")' => At(x, "counted") /\ call'[x] = call[x]
    BY <2>4 DEF At, NoCall
  <2>6. MoneyStill
    BY <2>2, <2>3, <2>5 DEF MoneyStill, money, Exists, SameMoney
  <2> QED BY <1>0, <2>1, <2>6, MoneyKept DEF RestaurantInv, Structure, MoneyFine
<1>4. ASSUME NEW slots \in SUBSET Slots, CreateOrder(r, slots) PROVE RestaurantInv'
  <2>1. Structure' /\ OccupiedTableIsExplained'
    BY <1>0, <1>4, CreateStructure, CreateTables
  <2>2. PICK o \in RestaurantOrders :
          /\ order'[o].paid = 0
          /\ \A x \in RestaurantOrders : x # o => order'[x] = order[x]
          /\ call'[r].pc \in {"voiding", "idle"}
          /\ \A x \in Calls : x # r => call'[x] = call[x]
    BY <1>0, <1>4, CreateStructure
  <2>3. UNCHANGED <<shift, drawer, revenue>>
    BY <1>4 DEF CreateOrder, money
  <2>4. \A x \in Calls : At(x, "counted")' => At(x, "counted") /\ call'[x] = call[x]
    BY <2>2 DEF At
  <2>5. MoneyStill
    BY <2>2, <2>3, <2>4 DEF MoneyStill, Exists
  <2> QED BY <1>0, <2>1, <2>5, MoneyKept DEF RestaurantInv, Structure, MoneyFine
<1>5. CASE Settle(r)
  <2>1. Structure'
    BY <1>0, <1>5, SettleStructure
  <2> QED BY <1>0, <1>5, <2>1, SettleMoney, SettleTables DEF RestaurantInv, Structure, MoneyFine
<1>6. ASSUME NEW s \in Shifts, CountShift(r, s) PROVE RestaurantInv'
  <2>1. Structure' /\ UNCHANGED <<order, table>>
    BY <1>0, <1>6, CountStructure
  <2> QED BY <1>0, <1>6, <2>1, CountMoney, SameTables DEF RestaurantInv, Structure, MoneyFine
<1>7. CASE CloseShift(r)
  <2>1. Structure' /\ UNCHANGED <<order, table>>
    BY <1>0, <1>7, CloseStructure
  <2> QED BY <1>0, <1>7, <2>1, CloseMoney, SameTables DEF RestaurantInv, Structure, MoneyFine
<1> QED BY <1>1, <1>2, <1>3, <1>4, <1>5, <1>6, <1>7 DEF Step, ReadStep, DishStep, RowStep

LEMMA NextKeepsRestaurantInv == RestaurantInv /\ [RestaurantNext]_restaurantVars => RestaurantInv'
<1> SUFFICES ASSUME RestaurantInv, [RestaurantNext]_restaurantVars PROVE RestaurantInv'
  OBVIOUS
<1>0. Structure /\ MoneyFine /\ OccupiedTableIsExplained
  BY InvOfParts
<1>1. ASSUME NEW r \in Calls, Step(r) PROVE RestaurantInv'
  BY <1>1, CallStep
<1>2. ASSUME NEW t \in Tables, NEW mark \in TableMarks, UpdateTable(t, mark) PROVE RestaurantInv'
  <2>1. /\ Structure' /\ UNCHANGED <<order, dish, shift, money, call>>
        /\ table'[t] # "OCCUPIED" /\ \A x \in Tables : x # t => table'[x] = table[x]
    BY <1>0, <1>2, UpdateTableStructure
  <2>2. MoneyStill
    BY <2>1 DEF MoneyStill, money, Exists, At
  <2>3. OccupiedTableIsExplained'
    BY <1>0, <2>1 DEF OccupiedTableIsExplained, Exists, IsOpen
  <2> QED BY <1>0, <2>1, <2>2, <2>3, MoneyKept DEF RestaurantInv, Structure, MoneyFine
<1>3. ASSUME NEW s \in Shifts, OpenAShift(s) PROVE RestaurantInv'
  <2>1. /\ Structure' /\ UNCHANGED <<order, dish, table, money, call>>
        /\ shift'[s].status = "open" /\ \A x \in Shifts : x # s => shift'[x] = shift[x]
    BY <1>0, <1>3, OpenStructure
  <2>2. MoneyStill
    BY <2>1 DEF MoneyStill, money, Exists, At
  <2> QED BY <1>0, <2>1, <2>2, MoneyKept, SameTables DEF RestaurantInv, Structure, MoneyFine
<1>4. CASE UNCHANGED restaurantVars
  <2>1. UNCHANGED <<order, dish, table, shift, money, call>>
    BY <1>4 DEF restaurantVars, money
  <2>2. Structure'
    BY <1>0, <2>1, NoCallMoves DEF Structure, RestaurantTypeOK
  <2>3. MoneyStill
    BY <2>1 DEF MoneyStill, money, Exists, At
  <2> QED BY <1>0, <2>1, <2>2, <2>3, MoneyKept, SameTables DEF RestaurantInv, Structure, MoneyFine
<1> QED BY <1>1, <1>2, <1>3, <1>4 DEF RestaurantNext

LEMMA RestaurantInvAlways == RestaurantSpec => []RestaurantInv
<1> QED BY RestaurantInitially, NextKeepsRestaurantInv, PTL DEF RestaurantSpec

(* Every variable of the restaurant keeps its type; the charge of an order *)
(* stays a whole multiple of its subtotal.                                 *)
THEOREM RestaurantTypeCorrect == RestaurantSpec => []RestaurantTypeOK
<1>1. RestaurantInv => RestaurantTypeOK
  BY DEF RestaurantInv
<1> QED BY RestaurantInvAlways, <1>1, PTL

(* The drawer holds exactly the revenue that was posted: settle moves both *)
(* in one transaction, whatever stale totals it settles.                   *)
THEOREM DrawerAlwaysMatchesRevenue == RestaurantSpec => []DrawerMatchesRevenue
<1>1. RestaurantInv => DrawerMatchesRevenue
  BY DEF RestaurantInv
<1> QED BY RestaurantInvAlways, <1>1, PTL

(* What an order says it was paid is what the ledger posted for it, however *)
(* many calls settled, revived or cancelled it.                            *)
THEOREM PaidIsAlwaysPosted == RestaurantSpec => []PaidIsPosted
<1>1. RestaurantInv => PaidIsPosted
  BY DEF RestaurantInv
<1> QED BY RestaurantInvAlways, <1>1, PTL

(* The closed shifts together never expect more than is in the drawer: no  *)
(* money is counted under two shifts.                                      *)
THEOREM ExpectedIsAlwaysInDrawer == RestaurantSpec => []ExpectedWithinDrawer
<1>1. RestaurantInv => ExpectedWithinDrawer
  <2> SUFFICES ASSUME RestaurantInv, LedgerOn
               PROVE  SumFunctionOnSet([s \in ClosedShifts |-> shift[s].expected],
                                        ClosedShifts) <= drawer
    BY DEF ExpectedWithinDrawer
  <2>1. PICK taker \in [RestaurantOrders -> Shifts \cup {NoShift}] : TakesAll(taker)
    BY HasTaker DEF RestaurantInv
  <2> DEFINE expected == [s \in ClosedShifts |-> shift[s].expected]
             took == [s \in ClosedShifts |-> Takings(taker, s)]
             Known == {o \in RestaurantOrders : taker[o] \in ClosedShifts}
  <2>2. IsFiniteSet(ClosedShifts) /\ IsFiniteSet(RestaurantOrders)
        /\ Known \in SUBSET RestaurantOrders
    BY RestaurantConstants, FS_Subset DEF ClosedShifts
  <2>3. \A o \in RestaurantOrders : revenue[o] \in Nat /\ revenue[o] \in Int
    BY DEF RestaurantInv, RestaurantTypeOK
  <2>4. \A s \in ClosedShifts : expected[s] \in Int
    <3> SUFFICES ASSUME NEW s \in ClosedShifts PROVE shift[s].expected \in Int
      OBVIOUS
    <3>1. shift[s] \in ShiftRow /\ shift[s].status = "closed"
      BY DEF RestaurantInv, RestaurantTypeOK, ClosedShifts
    <3> QED BY <3>1 DEF ShiftRow, Absent
  <2>5. \A s \in ClosedShifts : took[s] \in Int
    <3> SUFFICES ASSUME NEW s \in ClosedShifts PROVE Takings(taker, s) \in Int
      OBVIOUS
    <3> DEFINE H == {o \in RestaurantOrders : taker[o] = s}
    <3>1. IsFiniteSet(H) /\ \A o \in H : revenue[o] \in Int
      BY <2>2, <2>3, FS_Subset
    <3>2. SumFunctionOnSet(revenue, H) \in Int
      BY <3>1, SumInt
    <3> QED BY <3>2 DEF Takings
  <2>6. \A s \in ClosedShifts : expected[s] <= took[s]
    BY <2>1 DEF TakesAll
  <2>7. \A s \in ClosedShifts :
          took[s] = SumFunctionOnSet(revenue, {o \in RestaurantOrders : taker[o] = s})
    BY DEF Takings
  <2>8. SumFunctionOnSet(revenue, RestaurantOrders) = drawer
    BY DEF RestaurantInv, DrawerMatchesRevenue
  <2> HIDE DEF expected, took
  <2>9. SumFunctionOnSet(expected, ClosedShifts) <= SumFunctionOnSet(took, ClosedShifts)
    BY <2>2, <2>4, <2>5, <2>6, SumMonotone
  <2>10. SumFunctionOnSet(took, ClosedShifts) = SumFunctionOnSet(revenue, Known)
    <3>1. Splits(took, ClosedShifts, revenue, RestaurantOrders, taker)
      <4>1. \A s : OfKeys(RestaurantOrders, taker, {s}) = {o \in RestaurantOrders : taker[o] = s}
        BY DEF OfKeys
      <4> QED BY <2>7, <4>1 DEF Splits
    <3>2. SumFunctionOnSet(took, ClosedShifts)
            = SumFunctionOnSet(revenue, OfKeys(RestaurantOrders, taker, ClosedShifts))
      BY <2>2, <2>3, <3>1, SumByKey
    <3>3. OfKeys(RestaurantOrders, taker, ClosedShifts) = Known
      BY DEF OfKeys
    <3> QED BY ONLY <3>2, <3>3, Zenon
  <2> HIDE DEF Known
  <2>11. SumFunctionOnSet(revenue, Known) <= SumFunctionOnSet(revenue, RestaurantOrders)
    BY <2>2, <2>3, SumPart
  <2>12. SumFunctionOnSet(expected, ClosedShifts) \in Int
    BY <2>2, <2>4, SumInt
  <2>13. SumFunctionOnSet(took, ClosedShifts) \in Int
    BY <2>2, <2>5, SumInt
  <2>14. drawer \in Int
    BY DEF RestaurantInv, RestaurantTypeOK
  <2> QED BY <2>8, <2>9, <2>10, <2>11, <2>12, <2>13, <2>14 DEF expected
<1> QED BY RestaurantInvAlways, <1>1, PTL

(* An occupied table has an open order, or a guest's order voided over the *)
(* cap: nothing else leaves the mark behind.                               *)
THEOREM OccupiedIsAlwaysExplained == RestaurantSpec => []OccupiedTableIsExplained
<1>1. RestaurantInv => OccupiedTableIsExplained
  BY DEF RestaurantInv
<1> QED BY RestaurantInvAlways, <1>1, PTL
=============================================================================
