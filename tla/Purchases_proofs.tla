-------------------------- MODULE Purchases_proofs --------------------------
(***************************************************************************)
(* Proofs about Purchases, for any number of forms, requests, failures and *)
(* restarts: the answers a form gets never differ, and the goods of an     *)
(* invoice come in at most once.                                           *)
(*                                                                         *)
(* Neither is inductive alone.  The answers rely on every key under way    *)
(* having one owner and a null response, so that nobody else can answer    *)
(* or free it; the goods rely on a pending invoice having none yet.        *)
(*                                                                         *)
(* And, below, about StockCount: what an applied count does to the stock,  *)
(* from GoodsInv, which says where every unit is; and the order the queue  *)
(* keeps, from QueueInv, which says where the last number of a product is. *)
(***************************************************************************)
EXTENDS Purchases, StockCount, SequenceTheorems, Lemmas

Owns(r, k) ==
  /\ request[r].pc \in {"creating", "created", "storing", "failed"}
  /\ request[r].key = k

KeysHaveOneOwner ==
  \A r \in Requests, k \in Keys : Owns(r, k) =>
    /\ key[k] = 0
    /\ \A x \in Requests : Owns(x, k) => x = r

NamedInvoicesExist ==
  \A r \in Requests :
    request[r].pc \in {"created", "storing", "cancelling", "reversing"} =>
      request[r].id \in DOMAIN purchases

AnswersAreKept ==
  \A k \in Keys : \A i \in answers[k] : i # 0 /\ key[k] = i

WithGoods == {i \in DOMAIN purchases : purchases[i].freight = 1}

PendingHasNoGoods ==
  \A i \in DOMAIN purchases : purchases[i].status = "PENDING" => purchases[i].freight = 0

IInv ==
  /\ TypeOK
  /\ KeysHaveOneOwner /\ NamedInvoicesExist /\ AnswersAreKept
  /\ PendingHasNoGoods /\ GoodsComeInOnce
-----------------------------------------------------------------------------
(* What the locals of a request are.                                       *)
LEMMA Locals ==
  ASSUME TypeOK, NEW r \in Requests
  PROVE  /\ request[r].pc \in {"creating", "created", "storing", "failed"} =>
              request[r].key \in Keys
         /\ request[r].pc \in {"created", "storing", "cancelling", "reversing"} =>
              request[r].id \in Nat
         /\ request[r].pc = "reversing" => request[r].entry \in BOOLEAN
         /\ request[r] = Idle => request[r].pc = "idle"
<1>1. request[r] \in RequestStates
  BY DEF TypeOK
<1> QED
  BY <1>1 DEF RequestStates, Idle

(* A request that moves on to a proper state keeps the table of requests   *)
(* well formed and the other requests as they are.                         *)
LEMMA Moves ==
  ASSUME TypeOK, NEW r \in Requests, NEW s \in RequestStates, Goes(r, s)
  PROVE  /\ request' \in [Requests -> RequestStates]
         /\ request'[r] = s
         /\ \A x \in Requests \ {r} : request'[x] = request[x]
BY DEF TypeOK, Goes

(* Replacing a row keeps the table of invoices.                            *)
LEMMA RowChange ==
  ASSUME TypeOK, NEW i \in DOMAIN purchases, NEW q \in Invoice,
         NEW p, p = [purchases EXCEPT ![i] = q]
  PROVE  /\ p \in Seq(Invoice) /\ DOMAIN p = DOMAIN purchases
         /\ p[i] = q
         /\ \A j \in DOMAIN purchases \ {i} : p[j] = purchases[j]
<1>1. purchases \in Seq(Invoice)
  BY DEF TypeOK
<1>2. i \in 1..Len(purchases)
  BY <1>1
<1>3. /\ p \in Seq(Invoice) /\ Len(p) = Len(purchases)
      /\ \A j \in 1..Len(purchases) : p[j] = IF j = i THEN q ELSE purchases[j]
  BY <1>1, <1>2, ExceptSeq
<1> QED
  BY <1>1, <1>2, <1>3

(* The table of invoices is finite, each of its rows is an invoice.        *)
LEMMA Rows ==
  ASSUME TypeOK
  PROVE  /\ DOMAIN purchases = 1..Len(purchases) /\ Len(purchases) \in Nat
         /\ \A i \in DOMAIN purchases : purchases[i] \in Invoice
         /\ IsFiniteSet(WithGoods)
<1>1. purchases \in Seq(Invoice)
  BY DEF TypeOK
<1>2. DOMAIN purchases = 1..Len(purchases) /\ Len(purchases) \in Nat
  BY <1>1
<1>3. IsFiniteSet(DOMAIN purchases)
  BY <1>2, FS_Interval
<1>4. WithGoods \subseteq DOMAIN purchases
  BY DEF WithGoods
<1>5. IsFiniteSet(WithGoods)
  BY <1>3, <1>4, FS_Subset
<1> QED
  BY <1>1, <1>2, <1>5

(* A step that leaves invoices and stock alone.                            *)
LEMMA GoodsUntouched ==
  ASSUME IInv, UNCHANGED <<purchases, stock>>
  PROVE  PendingHasNoGoods' /\ GoodsComeInOnce'
BY DEF IInv, PendingHasNoGoods, GoodsComeInOnce

(* A step that leaves keys and answers alone and gives no key to anybody.  *)
LEMMA KeysUntouched ==
  ASSUME IInv, UNCHANGED <<key, answers>>,
         \A x \in Requests, k \in Keys : Owns(x, k)' => Owns(x, k)
  PROVE  KeysHaveOneOwner' /\ AnswersAreKept'
BY DEF IInv, KeysHaveOneOwner, AnswersAreKept

(* A step of r to s; invoices are never deleted.                           *)
LEMMA NamesKept ==
  ASSUME IInv, NEW r \in Requests, NEW s \in RequestStates, Goes(r, s),
         DOMAIN purchases \subseteq DOMAIN purchases',
         s.pc \in {"created", "storing", "cancelling", "reversing"} =>
           s.id \in DOMAIN purchases'
  PROVE  NamedInvoicesExist'
<1>1. TypeOK
  BY DEF IInv
<1>2. request'[r] = s /\ \A x \in Requests \ {r} : request'[x] = request[x]
  BY <1>1, Moves
<1> QED
  BY <1>2 DEF IInv, NamedInvoicesExist

(* The states a request may enter.                                         *)
LEMMA ProperStates ==
  /\ Idle \in RequestStates /\ Idle.pc = "idle"
  /\ \A k \in Keys : /\ [pc |-> "creating", key |-> k] \in RequestStates
                     /\ [pc |-> "failed", key |-> k] \in RequestStates
  /\ \A k \in Keys, i \in Nat : /\ [pc |-> "created", key |-> k, id |-> i] \in RequestStates
                                /\ [pc |-> "storing", key |-> k, id |-> i] \in RequestStates
  /\ \A i \in Nat : [pc |-> "cancelling", id |-> i] \in RequestStates
  /\ \A i \in Nat, b \in BOOLEAN :
       [pc |-> "reversing", id |-> i, entry |-> b] \in RequestStates
BY DEF RequestStates, Idle
-----------------------------------------------------------------------------
LEMMA ClaimStep ==
  ASSUME IInv, NEW r \in Requests, NEW k \in Keys, Claim(r, k)
  PROVE  IInv'
<1> DEFINE s == [pc |-> "creating", key |-> k]
<1>1. TypeOK
  BY DEF IInv
<1>2. s \in RequestStates /\ s.pc = "creating" /\ s.key = k /\ Goes(r, s)
  BY ProperStates DEF Claim
<1> HIDE DEF s
<1>3. /\ request' \in [Requests -> RequestStates] /\ request'[r] = s
      /\ \A x \in Requests \ {r} : request'[x] = request[x]
  BY <1>1, <1>2, Moves
<1>4. /\ key[k] = Free /\ key' = [key EXCEPT ![k] = 0]
      /\ UNCHANGED <<purchases, stock, answers, failures, crashes>>
  BY DEF Claim, Claimable
<1>5. Free # 0
  BY PurchasesConstants
<1>6. TypeOK'
  BY <1>1, <1>3, <1>4 DEF TypeOK
<1>7. \A x \in Requests : ~Owns(x, k)
  BY <1>4, <1>5 DEF IInv, KeysHaveOneOwner
<1>8. \A x \in Requests, c \in Keys : Owns(x, c)' => (x = r /\ c = k) \/ (c # k /\ Owns(x, c))
  BY <1>2, <1>3, <1>7 DEF Owns
<1>9. \A c \in Keys \ {k} : key'[c] = key[c]
  BY <1>1, <1>4 DEF TypeOK
<1>10. key'[k] = 0
  BY <1>1, <1>4 DEF TypeOK
<1>11. KeysHaveOneOwner'
  BY <1>8, <1>9, <1>10 DEF IInv, KeysHaveOneOwner
<1>12. AnswersAreKept'
  <2>1. answers[k] = {}
    BY <1>1, <1>4, PurchasesConstants DEF IInv, AnswersAreKept, TypeOK
  <2> QED
    BY <2>1, <1>4, <1>9 DEF IInv, AnswersAreKept
<1>13. NamedInvoicesExist'
  BY <1>2, <1>4, NamesKept
<1>14. PendingHasNoGoods' /\ GoodsComeInOnce'
  BY <1>4, GoodsUntouched
<1> QED
  BY <1>6, <1>11, <1>12, <1>13, <1>14 DEF IInv

LEMMA RepeatStep ==
  ASSUME IInv, NEW k \in Keys, Repeat(k)
  PROVE  IInv'
<1>1. /\ key[k] \in Nat \ {0}
      /\ answers' = [answers EXCEPT ![k] = @ \cup {key[k]}]
      /\ UNCHANGED <<key, purchases, stock, request, failures, crashes>>
  BY DEF Repeat
<1>2. TypeOK'
  BY <1>1 DEF IInv, TypeOK
<1>3. KeysHaveOneOwner' /\ NamedInvoicesExist'
  BY <1>1 DEF IInv, KeysHaveOneOwner, NamedInvoicesExist, Owns
<1>4. AnswersAreKept'
  BY <1>1 DEF IInv, TypeOK, AnswersAreKept
<1>5. PendingHasNoGoods' /\ GoodsComeInOnce'
  BY <1>1, GoodsUntouched
<1> QED
  BY <1>2, <1>3, <1>4, <1>5 DEF IInv

(* The new invoice is pending and has no goods.                            *)
LEMMA CreateInnerStep ==
  ASSUME IInv, NEW r \in Requests, CreateInner(r)
  PROVE  IInv'
<1> DEFINE k == request[r].key
           id == Len(purchases) + 1
           row == [key |-> k, status |-> "PENDING", entries |-> 0, freight |-> 0]
           s == [pc |-> IF k \in ReceivedAtOnce THEN "created" ELSE "storing",
                 key |-> k, id |-> id]
<1>1. TypeOK
  BY DEF IInv
<1>2. /\ request[r].pc = "creating" /\ purchases' = Append(purchases, row) /\ Goes(r, s)
      /\ UNCHANGED <<key, stock, answers, failures, crashes>>
  BY DEF CreateInner
<1>3. k \in Keys
  BY <1>1, <1>2, Locals
<1>4. /\ DOMAIN purchases = 1..Len(purchases) /\ Len(purchases) \in Nat
      /\ \A i \in DOMAIN purchases : purchases[i] \in Invoice
      /\ IsFiniteSet(WithGoods)
  BY <1>1, Rows
<1>5. /\ s \in RequestStates /\ s.pc \in {"created", "storing"} /\ s.key = k /\ s.id = id
      /\ id \in Nat
  <2>1. id \in Nat
    BY <1>4
  <2>2. s.pc \in {"created", "storing"} /\ s.key = k /\ s.id = id
    OBVIOUS
  <2>3. s = [pc |-> "created", key |-> k, id |-> id] \/ s = [pc |-> "storing", key |-> k, id |-> id]
    OBVIOUS
  <2>4. s \in RequestStates
    BY <1>3, <2>1, <2>3, ProperStates
  <2> QED
    BY <2>1, <2>2, <2>4
<1>6. row \in Invoice /\ row.status = "PENDING" /\ row.freight = 0
  BY <1>3 DEF Invoice
<1>7. purchases \in Seq(Invoice)
  BY <1>1 DEF TypeOK
<1> HIDE DEF row
<1>8. /\ purchases' \in Seq(Invoice) /\ Len(purchases') = id
      /\ \A i \in 1..Len(purchases) : purchases'[i] = purchases[i]
      /\ purchases'[id] = row
  BY <1>2, <1>6, <1>7, AppendProperties
<1>9. DOMAIN purchases' = 1..id
  BY <1>8
<1> HIDE DEF s
<1>10. /\ request' \in [Requests -> RequestStates] /\ request'[r] = s
       /\ \A x \in Requests \ {r} : request'[x] = request[x]
  BY <1>1, <1>2, <1>5, Moves
<1>11. TypeOK'
  BY <1>1, <1>2, <1>8, <1>10 DEF TypeOK
<1>12. \A x \in Requests, c \in Keys : Owns(x, c)' => Owns(x, c)
  BY <1>2, <1>5, <1>10 DEF Owns
<1>13. KeysHaveOneOwner' /\ AnswersAreKept'
  BY <1>2, <1>12, KeysUntouched
<1>14. NamedInvoicesExist'
  BY <1>2, <1>4, <1>5, <1>9, NamesKept
<1>15. PendingHasNoGoods'
  BY <1>4, <1>6, <1>8, <1>9 DEF IInv, PendingHasNoGoods
<1>16. WithGoods' = WithGoods
  BY <1>4, <1>6, <1>8, <1>9 DEF WithGoods
<1>17. \A i \in DOMAIN purchases' : purchases'[i].freight <= 1
  BY <1>4, <1>6, <1>8, <1>9 DEF IInv, GoodsComeInOnce
<1>18. GoodsComeInOnce'
  BY <1>2, <1>16, <1>17 DEF IInv, GoodsComeInOnce, WithGoods
<1> QED
  BY <1>11, <1>13, <1>14, <1>15, <1>18 DEF IInv

(* Receiving an invoice adds it to the ones with goods, once.              *)
LEMMA ReceivedStep ==
  ASSUME IInv, NEW i \in Nat, Received(i)
  PROVE  /\ purchases' \in Seq(Invoice) /\ stock' \in Nat
         /\ DOMAIN purchases' = DOMAIN purchases
         /\ PendingHasNoGoods' /\ GoodsComeInOnce'
<1> DEFINE q == WithEntries(purchases[i])
<1>1. TypeOK
  BY DEF IInv
<1>2. /\ DOMAIN purchases = 1..Len(purchases) /\ Len(purchases) \in Nat
      /\ \A j \in DOMAIN purchases : purchases[j] \in Invoice
      /\ IsFiniteSet(WithGoods)
  BY <1>1, Rows
<1>3. i \in DOMAIN purchases /\ stock' = stock + 1 /\ purchases[i].status = "PENDING"
  BY DEF Received, Receivable
<1>4. purchases[i] \in Invoice /\ purchases[i].freight = 0
  BY <1>2, <1>3 DEF IInv, PendingHasNoGoods
<1>5. purchases' = [purchases EXCEPT ![i] = q]
  BY DEF Received
<1>6. q \in Invoice /\ q.status = "RECEIVED" /\ q.freight = 1
  BY <1>4 DEF Invoice, WithEntries
<1> HIDE DEF q
<1>7. /\ purchases' \in Seq(Invoice) /\ DOMAIN purchases' = DOMAIN purchases
      /\ purchases'[i] = q
      /\ \A j \in DOMAIN purchases \ {i} : purchases'[j] = purchases[j]
  BY <1>1, <1>3, <1>5, <1>6, RowChange
<1>8. PendingHasNoGoods'
  BY <1>6, <1>7 DEF IInv, PendingHasNoGoods
<1>9. WithGoods' = WithGoods \cup {i} /\ i \notin WithGoods
  BY <1>3, <1>4, <1>6, <1>7 DEF WithGoods
<1>10. Cardinality(WithGoods') = Cardinality(WithGoods) + 1
  BY <1>2, <1>9, FS_AddElement
<1>11. stock = Cardinality(WithGoods) /\ stock \in Nat
  BY <1>1 DEF IInv, GoodsComeInOnce, WithGoods, TypeOK
<1>12. stock' = Cardinality(WithGoods')
  BY <1>3, <1>10, <1>11
<1>13. \A j \in DOMAIN purchases' : purchases'[j].freight <= 1
  BY <1>6, <1>7 DEF IInv, GoodsComeInOnce
<1>14. GoodsComeInOnce'
  BY <1>12, <1>13 DEF GoodsComeInOnce, WithGoods
<1> QED
  BY <1>3, <1>7, <1>8, <1>11, <1>14

LEMMA ReceiveStep ==
  ASSUME IInv, NEW i \in Nat, Receive(i)
  PROVE  IInv'
<1>1. Received(i) /\ UNCHANGED <<key, answers, request, failures, crashes>>
  BY DEF Receive
<1>2. /\ purchases' \in Seq(Invoice) /\ stock' \in Nat
      /\ DOMAIN purchases' = DOMAIN purchases
      /\ PendingHasNoGoods' /\ GoodsComeInOnce'
  BY <1>1, ReceivedStep
<1>3. TypeOK'
  BY <1>1, <1>2 DEF IInv, TypeOK
<1>4. KeysHaveOneOwner' /\ AnswersAreKept'
  BY <1>1 DEF IInv, KeysHaveOneOwner, AnswersAreKept, Owns
<1>5. NamedInvoicesExist'
  BY <1>1, <1>2 DEF IInv, NamedInvoicesExist
<1> QED
  BY <1>2, <1>3, <1>4, <1>5 DEF IInv

LEMMA ReceiveCreatedStep ==
  ASSUME IInv, NEW r \in Requests, ReceiveCreated(r)
  PROVE  IInv'
<1> DEFINE s == [pc |-> "storing", key |-> request[r].key, id |-> request[r].id]
<1>1. TypeOK
  BY DEF IInv
<1>2. /\ request[r].pc = "created" /\ Received(request[r].id)
      /\ UNCHANGED <<key, answers, failures, crashes>>
  BY DEF ReceiveCreated
<1>3. request[r].key \in Keys /\ request[r].id \in Nat
  BY <1>1, <1>2, Locals
<1>4. request[r].id \in DOMAIN purchases
  BY <1>2 DEF IInv, NamedInvoicesExist
<1>5. [request[r] EXCEPT !.pc = "storing"] = s
  <2>1. request[r] \in [pc : {"created", "storing"}, key : Keys, id : Nat]
    <3>1. request[r] \in RequestStates
      BY <1>1 DEF TypeOK
    <3> QED
      BY <1>2, <3>1 DEF RequestStates, Idle
  <2> QED
    BY <2>1
<1>6. Goes(r, s)
  BY <1>5 DEF ReceiveCreated
<1>7. s \in RequestStates /\ s.pc = "storing" /\ s.key = request[r].key /\ s.id = request[r].id
  BY <1>3, ProperStates
<1> HIDE DEF s
<1>8. /\ request' \in [Requests -> RequestStates] /\ request'[r] = s
      /\ \A x \in Requests \ {r} : request'[x] = request[x]
  BY <1>1, <1>6, <1>7, Moves
<1>9. /\ purchases' \in Seq(Invoice) /\ stock' \in Nat
      /\ DOMAIN purchases' = DOMAIN purchases
      /\ PendingHasNoGoods' /\ GoodsComeInOnce'
  BY <1>2, <1>3, ReceivedStep
<1>10. TypeOK'
  BY <1>1, <1>2, <1>8, <1>9 DEF TypeOK
<1>11. \A x \in Requests, c \in Keys : Owns(x, c)' => Owns(x, c)
  BY <1>2, <1>7, <1>8 DEF Owns
<1>12. KeysHaveOneOwner' /\ AnswersAreKept'
  BY <1>2, <1>11, KeysUntouched
<1>13. NamedInvoicesExist'
  BY <1>4, <1>6, <1>7, <1>9, NamesKept
<1> QED
  BY <1>9, <1>10, <1>12, <1>13 DEF IInv

(* A create fails, by itself or because its invoice cannot be received.    *)
LEMMA FailStep ==
  ASSUME IInv, NEW r \in Requests,
         request[r].pc \in {"creating", "created", "storing"},
         Goes(r, [pc |-> "failed", key |-> request[r].key]),
         failures' \in 0..MaxFailures,
         UNCHANGED <<key, purchases, stock, answers, crashes>>
  PROVE  IInv'
<1> DEFINE s == [pc |-> "failed", key |-> request[r].key]
<1>1. TypeOK
  BY DEF IInv
<1>2. request[r].key \in Keys
  BY <1>1, Locals
<1>3. s \in RequestStates /\ s.pc = "failed" /\ s.key = request[r].key /\ Goes(r, s)
  BY <1>2, ProperStates
<1> HIDE DEF s
<1>4. /\ request' \in [Requests -> RequestStates] /\ request'[r] = s
      /\ \A x \in Requests \ {r} : request'[x] = request[x]
  BY <1>1, <1>3, Moves
<1>5. TypeOK'
  BY <1>1, <1>4 DEF TypeOK
<1>6. \A x \in Requests, c \in Keys : Owns(x, c)' => Owns(x, c)
  BY <1>3, <1>4 DEF Owns
<1>7. KeysHaveOneOwner' /\ AnswersAreKept'
  BY <1>6, KeysUntouched
<1>8. NamedInvoicesExist'
  BY <1>3, NamesKept
<1>9. PendingHasNoGoods' /\ GoodsComeInOnce'
  BY GoodsUntouched
<1> QED
  BY <1>5, <1>7, <1>8, <1>9 DEF IInv

(* The response is stored: the key leaves the hands of its only owner.     *)
LEMMA StoreStep ==
  ASSUME IInv, NEW r \in Requests, Store(r)
  PROVE  IInv'
<1> DEFINE k == request[r].key
           i == request[r].id
<1>1. TypeOK
  BY DEF IInv
<1>2. /\ request[r].pc = "storing" /\ key' = [key EXCEPT ![k] = i] /\ Goes(r, Idle)
      /\ answers' \in {answers, [answers EXCEPT ![k] = @ \cup {i}]}
      /\ UNCHANGED <<purchases, stock, failures, crashes>>
  BY DEF Store
<1>3. k \in Keys /\ i \in Nat
  BY <1>1, <1>2, Locals
<1>4. i # 0
  BY <1>1, <1>2, Rows DEF IInv, NamedInvoicesExist
<1>5. Owns(r, k)
  BY <1>2 DEF Owns
<1> HIDE DEF k, i
<1>6. /\ request' \in [Requests -> RequestStates] /\ request'[r] = Idle
      /\ \A x \in Requests \ {r} : request'[x] = request[x]
  BY <1>1, <1>2, ProperStates, Moves
<1>7. key'[k] = i /\ \A c \in Keys \ {k} : key'[c] = key[c]
  BY <1>1, <1>2, <1>3 DEF TypeOK
<1>8. answers'[k] \in {answers[k], answers[k] \cup {i}}
      /\ \A c \in Keys \ {k} : answers'[c] = answers[c]
  BY <1>1, <1>2, <1>3 DEF TypeOK
<1>9. TypeOK'
  <2>1. key' \in [Keys -> Nat \cup {Free}]
    BY <1>1, <1>2, <1>3 DEF TypeOK
  <2>2. answers' \in [Keys -> SUBSET Nat]
    BY <1>1, <1>2, <1>3 DEF TypeOK
  <2> QED
    BY <1>1, <1>2, <1>6, <2>1, <2>2 DEF TypeOK
<1>10. key[k] = 0 /\ \A x \in Requests : Owns(x, k) => x = r
  BY <1>3, <1>5 DEF IInv, KeysHaveOneOwner
<1>11. \A x \in Requests, c \in Keys : Owns(x, c)' => c # k /\ Owns(x, c)
  BY <1>6, <1>10, ProperStates DEF Owns
<1>12. KeysHaveOneOwner'
  BY <1>7, <1>11 DEF IInv, KeysHaveOneOwner
<1>13. answers[k] = {}
  BY <1>1, <1>3, <1>10 DEF IInv, AnswersAreKept, TypeOK
<1>14. AnswersAreKept'
  BY <1>4, <1>7, <1>8, <1>13 DEF IInv, AnswersAreKept
<1>15. NamedInvoicesExist'
  BY <1>2, ProperStates, NamesKept
<1>16. PendingHasNoGoods' /\ GoodsComeInOnce'
  BY <1>2, GoodsUntouched
<1> QED
  BY <1>9, <1>12, <1>14, <1>15, <1>16 DEF IInv

(* The key of a failed create is freed; it was never answered.             *)
LEMMA FreeKeyStep ==
  ASSUME IInv, NEW r \in Requests, FreeKey(r)
  PROVE  IInv'
<1> DEFINE k == request[r].key
<1>1. TypeOK
  BY DEF IInv
<1>2. /\ request[r].pc = "failed" /\ key' = [key EXCEPT ![k] = Free] /\ Goes(r, Idle)
      /\ UNCHANGED <<purchases, stock, answers, failures, crashes>>
  BY DEF FreeKey, Freed
<1>3. k \in Keys
  BY <1>1, <1>2, Locals
<1>4. Owns(r, k)
  BY <1>2 DEF Owns
<1> HIDE DEF k
<1>5. /\ request' \in [Requests -> RequestStates] /\ request'[r] = Idle
      /\ \A x \in Requests \ {r} : request'[x] = request[x]
  BY <1>1, <1>2, ProperStates, Moves
<1>6. \A c \in Keys \ {k} : key'[c] = key[c]
  BY <1>1, <1>2, <1>3 DEF TypeOK
<1>7. TypeOK'
  BY <1>1, <1>2, <1>5 DEF TypeOK
<1>8. key[k] = 0 /\ \A x \in Requests : Owns(x, k) => x = r
  BY <1>3, <1>4 DEF IInv, KeysHaveOneOwner
<1>9. \A x \in Requests, c \in Keys : Owns(x, c)' => c # k /\ Owns(x, c)
  BY <1>5, <1>8, ProperStates DEF Owns
<1>10. KeysHaveOneOwner'
  BY <1>6, <1>9 DEF IInv, KeysHaveOneOwner
<1>11. answers[k] = {}
  BY <1>1, <1>3, <1>8 DEF IInv, AnswersAreKept, TypeOK
<1>12. AnswersAreKept'
  BY <1>2, <1>6, <1>11 DEF IInv, AnswersAreKept
<1>13. NamedInvoicesExist'
  BY <1>2, ProperStates, NamesKept
<1>14. PendingHasNoGoods' /\ GoodsComeInOnce'
  BY <1>2, GoodsUntouched
<1> QED
  BY <1>7, <1>10, <1>12, <1>13, <1>14 DEF IInv

(* A request gives up: whatever it held stays behind.                      *)
LEMMA GiveUpStep ==
  ASSUME IInv, NEW r \in Requests, Goes(r, Idle), crashes' \in 0..MaxCrashes,
         UNCHANGED <<key, purchases, stock, answers, failures>>
  PROVE  IInv'
<1>1. TypeOK
  BY DEF IInv
<1>2. /\ request' \in [Requests -> RequestStates] /\ request'[r] = Idle
      /\ \A x \in Requests \ {r} : request'[x] = request[x]
  BY <1>1, ProperStates, Moves
<1>3. TypeOK'
  BY <1>1, <1>2 DEF TypeOK
<1>4. \A x \in Requests, c \in Keys : Owns(x, c)' => Owns(x, c)
  BY <1>2, ProperStates DEF Owns
<1>5. KeysHaveOneOwner' /\ AnswersAreKept'
  BY <1>4, KeysUntouched
<1>6. NamedInvoicesExist'
  BY ProperStates, NamesKept
<1>7. PendingHasNoGoods' /\ GoodsComeInOnce'
  BY GoodsUntouched
<1> QED
  BY <1>3, <1>5, <1>6, <1>7 DEF IInv

LEMMA CrashStep ==
  ASSUME IInv, Crash
  PROVE  IInv'
<1>1. /\ request' = [r \in Requests |-> Idle] /\ crashes < MaxCrashes /\ crashes' = crashes + 1
      /\ UNCHANGED <<key, purchases, stock, answers, failures>>
  BY DEF Crash
<1>2. crashes' \in 0..MaxCrashes
  BY <1>1, PurchasesConstants DEF IInv, TypeOK
<1>3. TypeOK'
  BY <1>1, <1>2, ProperStates DEF IInv, TypeOK
<1>4. \A x \in Requests : request'[x].pc = "idle"
  BY <1>1, ProperStates
<1>5. KeysHaveOneOwner' /\ AnswersAreKept'
  BY <1>1, <1>4, KeysUntouched DEF Owns
<1>6. NamedInvoicesExist'
  BY <1>4 DEF NamedInvoicesExist
<1>7. PendingHasNoGoods' /\ GoodsComeInOnce'
  BY <1>1, GoodsUntouched
<1> QED
  BY <1>3, <1>5, <1>6, <1>7 DEF IInv

(* Cancelling takes no key and, until its last step, no invoice.           *)
LEMMA CancelReadStep ==
  ASSUME IInv, NEW r \in Requests, NEW i \in DOMAIN purchases, CancelRead(r, i)
  PROVE  IInv'
<1> DEFINE s == [pc |-> "cancelling", id |-> i]
<1>1. TypeOK
  BY DEF IInv
<1>2. Goes(r, s) /\ UNCHANGED <<key, purchases, stock, answers, failures, crashes>>
  BY DEF CancelRead
<1>3. i \in Nat
  BY <1>1, Rows
<1>4. s \in RequestStates /\ s.pc = "cancelling" /\ s.id = i
  BY <1>3, ProperStates
<1> HIDE DEF s
<1>5. /\ request' \in [Requests -> RequestStates] /\ request'[r] = s
      /\ \A x \in Requests \ {r} : request'[x] = request[x]
  BY <1>1, <1>2, <1>4, Moves
<1>6. TypeOK'
  BY <1>1, <1>2, <1>5 DEF TypeOK
<1>7. \A x \in Requests, c \in Keys : Owns(x, c)' => Owns(x, c)
  BY <1>4, <1>5 DEF Owns
<1>8. KeysHaveOneOwner' /\ AnswersAreKept'
  BY <1>2, <1>7, KeysUntouched
<1>9. NamedInvoicesExist'
  BY <1>2, <1>4, NamesKept
<1>10. PendingHasNoGoods' /\ GoodsComeInOnce'
  BY <1>2, GoodsUntouched
<1> QED
  BY <1>6, <1>8, <1>9, <1>10 DEF IInv

LEMMA CancelReverseStep ==
  ASSUME IInv, NEW r \in Requests, CancelReverse(r)
  PROVE  IInv'
<1> DEFINE b == purchases[request[r].id].entries > 0
           s == [pc |-> "reversing", id |-> request[r].id, entry |-> b]
<1>1. TypeOK
  BY DEF IInv
<1>2. /\ request[r].pc = "cancelling" /\ Goes(r, s)
      /\ UNCHANGED <<key, purchases, stock, answers, failures, crashes>>
  BY DEF CancelReverse
<1>3. request[r].id \in DOMAIN purchases /\ request[r].id \in Nat
  BY <1>1, <1>2, Locals DEF IInv, NamedInvoicesExist
<1>4. s.pc = "reversing" /\ s.id = request[r].id
  OBVIOUS
<1>5. b \in BOOLEAN
  OBVIOUS
<1>6. s \in RequestStates
  BY <1>3, <1>5, ProperStates
<1> HIDE DEF s
<1>7. /\ request' \in [Requests -> RequestStates] /\ request'[r] = s
      /\ \A x \in Requests \ {r} : request'[x] = request[x]
  BY <1>1, <1>2, <1>6, Moves
<1>8. TypeOK'
  BY <1>1, <1>2, <1>7 DEF TypeOK
<1>9. \A x \in Requests, c \in Keys : Owns(x, c)' => Owns(x, c)
  BY <1>4, <1>7 DEF Owns
<1>10. KeysHaveOneOwner' /\ AnswersAreKept'
  BY <1>2, <1>9, KeysUntouched
<1>11. NamedInvoicesExist'
  BY <1>2, <1>3, <1>4, <1>6, NamesKept
<1>12. PendingHasNoGoods' /\ GoodsComeInOnce'
  BY <1>2, GoodsUntouched
<1> QED
  BY <1>8, <1>10, <1>11, <1>12 DEF IInv

(* The mark changes the status and the entries of an invoice, not its      *)
(* goods; the entry it takes off was there.                                *)
LEMMA CancelMarkStep ==
  ASSUME IInv, NEW r \in Requests, CancelMark(r)
  PROVE  IInv'
<1> DEFINE i == request[r].id
           q == Cancelled(purchases[i], request[r].entry)
<1>1. TypeOK
  BY DEF IInv
<1>2. /\ request[r].pc = "reversing"
      /\ request[r].entry => purchases[i].entries > 0
      /\ purchases' = [purchases EXCEPT ![i] = q] /\ Goes(r, Idle)
      /\ UNCHANGED <<key, stock, answers, failures, crashes>>
  BY DEF CancelMark, Reversible
<1>3. i \in DOMAIN purchases
  BY <1>2 DEF IInv, NamedInvoicesExist
<1>4. purchases[i] \in Invoice
  BY <1>1, <1>3, Rows
<1>5. q \in Invoice /\ q.status = "CANCELLED" /\ q.freight = purchases[i].freight
  BY <1>2, <1>4 DEF Invoice, Cancelled
<1> HIDE DEF i, q
<1>6. /\ purchases' \in Seq(Invoice) /\ DOMAIN purchases' = DOMAIN purchases
      /\ purchases'[i] = q
      /\ \A j \in DOMAIN purchases \ {i} : purchases'[j] = purchases[j]
  BY <1>1, <1>2, <1>3, <1>5, RowChange
<1>7. /\ request' \in [Requests -> RequestStates] /\ request'[r] = Idle
      /\ \A x \in Requests \ {r} : request'[x] = request[x]
  BY <1>1, <1>2, ProperStates, Moves
<1>8. TypeOK'
  BY <1>1, <1>2, <1>6, <1>7 DEF TypeOK
<1>9. \A x \in Requests, c \in Keys : Owns(x, c)' => Owns(x, c)
  BY <1>7, ProperStates DEF Owns
<1>10. KeysHaveOneOwner' /\ AnswersAreKept'
  BY <1>2, <1>9, KeysUntouched
<1>11. NamedInvoicesExist'
  BY <1>2, <1>6, ProperStates, NamesKept
<1>12. PendingHasNoGoods'
  BY <1>5, <1>6 DEF IInv, PendingHasNoGoods
<1>13. \A j \in DOMAIN purchases : purchases'[j].freight = purchases[j].freight
  BY <1>5, <1>6
<1>14. GoodsComeInOnce'
  <2>1. WithGoods' = WithGoods
    BY <1>6, <1>13 DEF WithGoods
  <2> QED
    BY <1>2, <1>6, <1>13, <2>1 DEF IInv, GoodsComeInOnce, WithGoods
<1> QED
  BY <1>8, <1>10, <1>11, <1>12, <1>14 DEF IInv
-----------------------------------------------------------------------------
LEMMA InvariantInit == Init => IInv
<1> SUFFICES ASSUME Init PROVE IInv
  OBVIOUS
<1>1. TypeOK
  <2>1. purchases \in Seq(Invoice) /\ Idle \in RequestStates
    BY ProperStates DEF Init
  <2> QED
    BY <2>1, PurchasesConstants DEF Init, TypeOK
<1>2. \A r \in Requests : request[r].pc = "idle"
  BY ProperStates DEF Init
<1>3. KeysHaveOneOwner /\ NamedInvoicesExist /\ AnswersAreKept
  BY <1>2 DEF Init, KeysHaveOneOwner, NamedInvoicesExist, AnswersAreKept, Owns
<1>4. DOMAIN purchases = {}
  BY DEF Init
<1>5. PendingHasNoGoods
  BY <1>4 DEF PendingHasNoGoods
<1>6. GoodsComeInOnce
  <2>1. {i \in DOMAIN purchases : purchases[i].freight = 1} = {}
    BY <1>4
  <2> QED
    BY <1>4, <2>1, FS_EmptySet DEF Init, GoodsComeInOnce
<1> QED
  BY <1>1, <1>3, <1>5, <1>6 DEF IInv

LEMMA InvariantStep == IInv /\ [Next]_vars => IInv'
<1> SUFFICES ASSUME IInv, [Next]_vars PROVE IInv'
  OBVIOUS
<1>1. TypeOK
  BY DEF IInv
<1>2. DOMAIN purchases \subseteq Nat
  BY <1>1, Rows
<1>3. ASSUME NEW r \in Requests, NEW k \in Keys, Claim(r, k) PROVE IInv'
  BY <1>3, ClaimStep
<1>4. ASSUME NEW r \in Requests, CreateInner(r) PROVE IInv'
  BY <1>4, CreateInnerStep
<1>5. ASSUME NEW r \in Requests, ReceiveCreated(r) PROVE IInv'
  BY <1>5, ReceiveCreatedStep
<1>6. ASSUME NEW r \in Requests, ReceiveRefused(r) PROVE IInv'
  <2>1. failures' \in 0..MaxFailures
    BY <1>1, <1>6 DEF ReceiveRefused, TypeOK
  <2> QED
    BY <1>6, <2>1, FailStep DEF ReceiveRefused
<1>7. ASSUME NEW r \in Requests, Store(r) PROVE IInv'
  BY <1>7, StoreStep
<1>8. ASSUME NEW r \in Requests, Fail(r) PROVE IInv'
  <2>1. failures' \in 0..MaxFailures
    BY <1>1, <1>8, PurchasesConstants DEF Fail, TypeOK
  <2> QED
    BY <1>8, <2>1, FailStep DEF Fail
<1>9. ASSUME NEW r \in Requests, FreeKey(r) PROVE IInv'
  BY <1>9, FreeKeyStep
<1>10. ASSUME NEW r \in Requests, FreeKeyFails(r) PROVE IInv'
  <2>1. crashes' \in 0..MaxCrashes
    BY <1>1, <1>10, PurchasesConstants DEF FreeKeyFails, TypeOK
  <2> QED
    BY <1>10, <2>1, GiveUpStep DEF FreeKeyFails
<1>11. ASSUME NEW r \in Requests, NEW i \in DOMAIN purchases, CancelRead(r, i) PROVE IInv'
  BY <1>11, CancelReadStep
<1>12. ASSUME NEW r \in Requests, CancelReverse(r) PROVE IInv'
  BY <1>12, CancelReverseStep
<1>13. ASSUME NEW r \in Requests, CancelMark(r) PROVE IInv'
  BY <1>13, CancelMarkStep
<1>14. ASSUME NEW r \in Requests, CancelFails(r) PROVE IInv'
  <2>1. crashes' \in 0..MaxCrashes
    BY <1>1, <1>14 DEF CancelFails, TypeOK
  <2> QED
    BY <1>14, <2>1, GiveUpStep DEF CancelFails
<1>15. ASSUME NEW k \in Keys, Repeat(k) PROVE IInv'
  BY <1>15, RepeatStep
<1>16. ASSUME NEW i \in DOMAIN purchases, Receive(i) PROVE IInv'
  BY <1>2, <1>16, ReceiveStep
<1>17. CASE UNCHANGED vars
  BY <1>17 DEF vars, IInv, TypeOK, KeysHaveOneOwner, NamedInvoicesExist, AnswersAreKept,
                Owns, PendingHasNoGoods, GoodsComeInOnce
<1> QED
  BY <1>3, <1>4, <1>5, <1>6, <1>7, <1>8, <1>9, <1>10, <1>11, <1>12, <1>13, <1>14, <1>15,
     <1>16, <1>17, CrashStep DEF Next, CreateStep

LEMMA Invariant == Spec => []IInv
BY InvariantInit, InvariantStep, PTL DEF Spec

(* Every state keeps its type: no invoice ever has fewer than no entries.  *)
THEOREM PurchasesTypeCorrect == Spec => []TypeOK
<1>1. IInv => TypeOK
  BY DEF IInv
<1> QED
  BY Invariant, <1>1, PTL

(* create: however a form is repeated, it is never answered with two       *)
(* different invoices.                                                     *)
THEOREM AnswersAlwaysAgree == Spec => []AnswersAgree
<1>1. IInv => AnswersAgree
  BY DEF IInv, AnswersAreKept, AnswersAgree
<1> QED
  BY Invariant, <1>1, PTL

(* receive: the goods of every invoice come in at most once.               *)
THEOREM GoodsAlwaysComeInOnce == Spec => []GoodsComeInOnce
<1>1. IInv => GoodsComeInOnce
  BY DEF IInv
<1> QED
  BY Invariant, <1>1, PTL
-----------------------------------------------------------------------------
(***************************************************************************)
(* The count of a warehouse and its offline queue.                         *)
(***************************************************************************)

(* The records of a queue, without one of them ...                         *)
LEMMA Removed ==
  ASSUME NEW x, AreRecords(x), NEW id
  PROVE  /\ AreRecords(Without(x, id))
         /\ DOMAIN Without(x, id) = DOMAIN x \ {id}
         /\ \A y \in DOMAIN x \ {id} : Without(x, id)[y] = x[y]
BY DEF AreRecords, Without

(* ... and with one more, or another one.                                  *)
LEMMA Added ==
  ASSUME AreRecords(queue), NEW id \in 1..MaxSaves, NEW item \in Item, With(id, item)
  PROVE  /\ AreRecords(queue')
         /\ DOMAIN queue' = DOMAIN queue \cup {id}
         /\ queue'[id] = item
         /\ \A y \in DOMAIN queue \ {id} : queue'[y] = queue[y]
BY DEF AreRecords, With

LEMMA Nothing == AreRecords(NoRecords) /\ DOMAIN NoRecords = {}
BY DEF AreRecords, NoRecords

(* A flush under way sends the oldest of its records.                      *)
LEMMA OldestIsSent ==
  ASSUME CountTypeOK, NEW f \in Flushers, Sending(f)
  PROVE  /\ Current(f) \in DOMAIN flush[f] /\ Current(f) \in 1..MaxSaves
         /\ \A x \in DOMAIN flush[f] : Current(f) <= x
         /\ Sent(f) = flush[f][Current(f)] /\ Sent(f) \in Item
<1>1. AreRecords(flush[f]) /\ DOMAIN flush[f] # {}
  BY DEF CountTypeOK, Sending
<1>2. DOMAIN flush[f] \subseteq Nat
  BY <1>1, StockCountConstants DEF AreRecords
<1>3. \E id \in DOMAIN flush[f] : \A x \in DOMAIN flush[f] : id <= x
  BY <1>1, <1>2, Least
<1>4. /\ Current(f) \in DOMAIN flush[f]
      /\ \A x \in DOMAIN flush[f] : Current(f) <= x
  BY <1>3 DEF Current, Oldest
<1> QED BY <1>1, <1>4 DEF AreRecords, Sent

(* After a record is removed, the queue and every flush are without it.    *)
LEMMA RemoveTypes ==
  ASSUME CountTypeOK, NEW f \in Flushers, Remove(f)
  PROVE  /\ AreRecords(queue')
         /\ DOMAIN flush' = Flushers
         /\ \A g \in Flushers : AreRecords(flush'[g])
<1>1. AreRecords(queue) /\ DOMAIN flush = Flushers /\ \A g \in Flushers : AreRecords(flush[g])
  BY DEF CountTypeOK
<1>2. AreRecords(Without(queue, Current(f))) /\ AreRecords(Without(flush[f], Current(f)))
  BY <1>1, Removed
<1>3. /\ queue' = Without(queue, Current(f))
      /\ flush' = [flush EXCEPT ![f] = Without(flush[f], Current(f))]
  BY DEF Remove
<1> QED BY <1>1, <1>2, <1>3

(* Whatever the page does on the way, the goods follow.                    *)
LEMMA GoodsStayPut ==
  ASSUME GoodsFollow, UNCHANGED <<server, goods, latest, saves>>, saving' \in {saving, Null}
  PROVE  GoodsFollow'
BY DEF GoodsFollow, server, goods

LEMMA CountedTypes ==
  ASSUME CountTypeOK, NEW p \in Products, NEW qty \in Nat, Counted(p, qty)
  PROVE  countedQty' \in [Products -> Nat \cup {Null}]
BY DEF CountTypeOK, Counted

(* Every step keeps the types, and the goods follow.                       *)
LEMMA GoodsStep ==
  ASSUME GoodsInv, [CountNext]_countVars
  PROVE  GoodsInv'
<1> USE StockCountConstants DEF GoodsInv, server, goods, page
<1>1. CASE \E p \in Products : Sell(p)
  <2>1. CountTypeOK'
    BY <1>1 DEF Sell, CountTypeOK
  <2>2. PICK p \in Products : Sell(p)
    BY <1>1
  <2>3. /\ UNCHANGED <<status, systemQty, applying, lost, saving, saves, latest>>
        /\ status = "OPEN"
    BY <2>2 DEF Sell
  <2>4. ASSUME NEW q \in Products
        PROVE  /\ shelf'[q] = (InitialStock - sold'[q]) - lost[q]
               /\ quantity'[q] = InitialStock - sold'[q]
    <3>1. /\ shelf[q] = (InitialStock - sold[q]) - lost[q]
          /\ quantity[q] = InitialStock - sold[q]
      BY <2>3 DEF GoodsFollow
    <3>2. sold[q] \in Nat /\ lost[q] \in Nat
      BY DEF CountTypeOK
    <3>3. CASE q = p
      BY <2>2, <3>1, <3>2, <3>3 DEF Sell, CountTypeOK
    <3>4. CASE q # p
      BY <2>2, <3>1, <3>2, <3>4 DEF Sell, CountTypeOK
    <3> QED BY <3>3, <3>4
  <2>5. GoodsFollow'
    BY <2>3, <2>4 DEF GoodsFollow
  <2> QED BY <2>1, <2>5
<1>2. CASE \E p \in Products : Lose(p)
  <2>1. CountTypeOK'
    BY <1>2 DEF Lose, CountTypeOK
  <2>2. GoodsFollow'
    BY <1>2 DEF Lose, GoodsFollow, CountTypeOK
  <2> QED BY <2>1, <2>2
<1>3. CASE \E p \in Products : SaveStart(p)
  <2> PICK p \in Products : SaveStart(p)
    BY <1>3
  <2>1. /\ saving' = [product |-> p, qty |-> shelf[p]] /\ saving' \in Number
        /\ saves' = saves + 1 /\ saves' \in 1..MaxSaves
        /\ latest' = [latest EXCEPT ![p] = latest'[p]] /\ latest'[p] \in Latest
        /\ latest'[p].qty = shelf[p] /\ latest'[p].sold = sold[p] /\ latest'[p].lost = lost[p]
    BY DEF SaveStart, CountTypeOK, Number, Latest
  <2>2. CountTypeOK'
    BY <2>1 DEF SaveStart, CountTypeOK
  <2>3. GoodsFollow'
    BY <2>1 DEF SaveStart, GoodsFollow, CountTypeOK
  <2> QED BY <2>2, <2>3
<1>4. CASE Open
  <2>1. CountTypeOK'
    BY <1>4 DEF Open, CountTypeOK
  <2>2. GoodsFollow'
    BY <1>4 DEF Open, GoodsFollow, CountTypeOK
  <2> QED BY <2>1, <2>2
<1>5. CASE ApplyRead
  <2>1. CountTypeOK'
    BY <1>5 DEF ApplyRead, CountTypeOK
  <2>2. GoodsFollow'
    BY <1>5 DEF ApplyRead, GoodsFollow, CountTypeOK
  <2> QED BY <2>1, <2>2
<1>6. CASE ApplyPost
  <2>1. \A p \in Products : Delta(p) \in Int /\ quantity[p] + Delta(p) \in Nat
    BY <1>6 DEF ApplyPost, Applies, Delta, CountTypeOK
  <2>2. CountTypeOK'
    BY <1>6, <2>1 DEF ApplyPost, CountTypeOK
  <2>3. GoodsFollow'
    BY <1>6 DEF ApplyPost, GoodsFollow, CountTypeOK
  <2> QED BY <2>2, <2>3
<1>7. CASE ApplyRefused
  <2>1. CountTypeOK'
    BY <1>7 DEF ApplyRefused, CountTypeOK
  <2>2. GoodsFollow'
    BY <1>7 DEF ApplyRefused, GoodsFollow, CountTypeOK
  <2> QED BY <2>1, <2>2
<1>8. CASE Cancel
  <2>1. CountTypeOK'
    BY <1>8 DEF Cancel, CountTypeOK
  <2>2. GoodsFollow'
    BY <1>8 DEF Cancel, GoodsFollow, CountTypeOK
  <2> QED BY <2>1, <2>2
<1>9. CASE SaveDone
  <2>1. saving.product \in Products /\ saving.qty \in Nat
    BY <1>9 DEF SaveDone, CountTypeOK, Number
  <2>2. countedQty' \in [Products -> Nat \cup {Null}]
    BY <1>9, <2>1, CountedTypes DEF SaveDone
  <2>3. mixed' \subseteq Products
    BY <1>9, <2>1 DEF SaveDone, CountTypeOK
  <2>4. CountTypeOK'
    BY <1>9, <2>2, <2>3 DEF SaveDone, CountTypeOK
  <2>5. GoodsFollow'
    BY <1>9, GoodsStayPut DEF SaveDone
  <2> QED BY <2>4, <2>5
<1>10. CASE SaveRejected
  <2>1. saving.product \in Products
    BY <1>10 DEF SaveRejected, CountTypeOK, Number
  <2>2. CountTypeOK'
    BY <1>10, <2>1 DEF SaveRejected, CountTypeOK
  <2>3. GoodsFollow'
    BY <1>10, GoodsStayPut DEF SaveRejected
  <2> QED BY <2>2, <2>3
<1>11. CASE SaveQueued
  <2>1. saving.product \in Products /\ saving.qty \in Nat
    BY <1>11 DEF SaveQueued, CountTypeOK, Number
  <2>2. countedQty' \in [Products -> Nat \cup {Null}]
    BY <1>11, <2>1, CountedTypes DEF SaveQueued, CountTypeOK
  <2>3. /\ saves \in 1..MaxSaves
        /\ [product |-> saving.product, qty |-> saving.qty, attempts |-> 0] \in Item
    BY <1>11, <2>1 DEF SaveQueued, CountTypeOK, GoodsFollow, Item
  <2>4. AreRecords(queue')
    BY <1>11, <2>3, Added DEF SaveQueued, CountTypeOK
  <2>5. mixed' \subseteq Products
    BY <1>11 DEF SaveQueued, CountTypeOK
  <2>6. CountTypeOK'
    BY <1>11, <2>2, <2>4, <2>5 DEF SaveQueued, CountTypeOK
  <2>7. GoodsFollow'
    BY <1>11, GoodsStayPut DEF SaveQueued
  <2> QED BY <2>6, <2>7
<1>12. CASE \E f \in Flushers : FlushStart(f)
  <2>1. CountTypeOK'
    BY <1>12 DEF FlushStart, CountTypeOK
  <2>2. GoodsFollow'
    BY <1>12, GoodsStayPut DEF FlushStart
  <2> QED BY <2>1, <2>2
<1>13. CASE \E f \in Flushers : Flush(f)
  <2> PICK f \in Flushers : Flush(f)
    BY <1>13
  <2>1. Sending(f)
    BY DEF Flush, Taken, Rejected, Unsent
  <2>2. /\ Current(f) \in 1..MaxSaves
        /\ Sent(f).product \in Products /\ Sent(f).qty \in Nat
        /\ Sent(f).attempts \in 0..MaxAttempts
    BY <2>1, OldestIsSent DEF Item
  <2>3. countedQty' \in [Products -> Nat \cup {Null}]
    BY <2>2, CountedTypes DEF Flush, Taken, Rejected, Unsent, CountTypeOK
  <2>4. dropped' \subseteq Products
    BY <2>2 DEF Flush, Taken, Rejected, Unsent, GiveUp, CountTypeOK
  <2>5. AreRecords(queue') /\ DOMAIN flush' = Flushers /\ \A g \in Flushers : AreRecords(flush'[g])
    <3>1. CASE Remove(f)
      BY <3>1, RemoveTypes
    <3>2. CASE ~Remove(f)
      <4>1. /\ With(Current(f), [Sent(f) EXCEPT !.attempts = Bump(Sent(f))])
            /\ flush' = [flush EXCEPT ![f] = NoRecords]
            /\ ~(Sent(f).attempts + 1 >= MaxAttempts)
        BY <3>2 DEF Flush, Taken, Rejected, Unsent, GiveUp
      <4>2. [Sent(f) EXCEPT !.attempts = Bump(Sent(f))] \in Item
        BY <2>1, <2>2, <4>1, OldestIsSent DEF Item, Bump
      <4>3. AreRecords(queue')
        BY <2>2, <4>1, <4>2, Added DEF CountTypeOK
      <4> QED BY <4>1, <4>3, Nothing DEF CountTypeOK
    <3> QED BY <3>1, <3>2
  <2>6. UNCHANGED <<server, goods, saving, saves, latest, mixed, closes>>
    BY DEF Flush, Taken, Rejected, Unsent
  <2>7. CountTypeOK'
    BY <2>3, <2>4, <2>5, <2>6 DEF CountTypeOK
  <2>8. GoodsFollow'
    BY <2>6, GoodsStayPut
  <2> QED BY <2>7, <2>8
<1>14. CASE Close
  <2>1. saving # Null => saving.product \in Products /\ saving.qty \in Nat
    BY DEF CountTypeOK, Number
  <2>2. \A f \in Flushers : Sending(f) => Sent(f).product \in Products /\ Sent(f).qty \in Nat
    BY OldestIsSent DEF Item
  <2>3. countedQty' \in [Products -> Nat \cup {Null}]
    BY <1>14, <2>1, <2>2, CountedTypes DEF Close, CountTypeOK
  <2>4. dropped' \subseteq Products /\ saving' = Null /\ flush' = [f \in Flushers |-> NoRecords]
    BY <1>14, <2>1 DEF Close, CountTypeOK
  <2>5. CountTypeOK'
    BY <1>14, <2>3, <2>4, Nothing DEF Close, CountTypeOK
  <2>6. GoodsFollow'
    BY <1>14, GoodsStayPut DEF Close
  <2> QED BY <2>5, <2>6
<1>15. CASE UNCHANGED countVars
  BY <1>15 DEF countVars, CountTypeOK, GoodsFollow
<1> QED
  BY <1>1, <1>2, <1>3, <1>4, <1>5, <1>6, <1>7, <1>8, <1>9, <1>10, <1>11, <1>12, <1>13, <1>14,
     <1>15 DEF CountNext

LEMMA GoodsStart == CountInit => GoodsInv
BY StockCountConstants, Nothing DEF CountInit, GoodsInv, CountTypeOK, GoodsFollow

THEOREM GoodsInvariant == CountSpec => []GoodsInv
<1>1. GoodsInv /\ [CountNext]_countVars => GoodsInv'
  BY GoodsStep
<1> QED BY GoodsStart, <1>1, PTL DEF CountSpec

(* open, setCounted and apply keep the types of a count, and the page and  *)
(* its flushes those of the queue.                                         *)
THEOREM CountTypeCorrect == CountSpec => []CountTypeOK
<1>1. GoodsInv => CountTypeOK
  BY DEF GoodsInv
<1> QED BY GoodsInvariant, <1>1, PTL

(* apply posts the difference between what was counted and what the system *)
(* held at the opening, on top of what was sold since: with the last       *)
(* number taken before anything was sold, the system has too much only     *)
(* what got lost after the counting.                                       *)
THEOREM AppliedAlwaysMatchesShelf == CountSpec => AppliedCountMatchesShelf
<1>1. ASSUME GoodsInv, ApplyPost, NEW p \in Products, TakesLatest(p), latest[p].sold = 0
      PROVE  LeavesOnlyLaterLosses(p)
  <2>1. /\ latest[p] # Null /\ applying[p] = latest[p].qty /\ latest[p] \in Latest
        /\ applying # Null
    BY <1>1 DEF TakesLatest, ApplyPost, GoodsInv, CountTypeOK
  <2>2. latest[p].qty \in Nat /\ latest[p].lost \in Nat
    BY <2>1 DEF Latest
  <2>3. /\ status = "OPEN" /\ systemQty[p] = InitialStock
        /\ quantity[p] = InitialStock - sold[p]
        /\ shelf[p] = (InitialStock - sold[p]) - lost[p]
        /\ latest[p].qty = InitialStock - latest[p].lost
        /\ sold[p] \in Nat /\ lost[p] \in Nat
    BY <1>1, <2>1, <2>2, StockCountConstants DEF GoodsInv, GoodsFollow, CountTypeOK
  <2>4. Delta(p) = latest[p].qty - systemQty[p]
    BY <2>1, <2>2, StockCountConstants DEF Delta
  <2>5. quantity'[p] = quantity[p] + Delta(p) /\ shelf'[p] = shelf[p]
    BY <1>1 DEF ApplyPost, goods
  <2> QED BY <2>2, <2>3, <2>4, <2>5, StockCountConstants DEF LeavesOnlyLaterLosses
<1>2. GoodsInv /\ [CountNext]_countVars =>
        [ApplyPost => \A p \in Products :
           TakesLatest(p) /\ latest[p].sold = 0 => LeavesOnlyLaterLosses(p)]_countVars
  BY <1>1
<1> QED BY GoodsInvariant, <1>2, PTL DEF CountSpec, AppliedCountMatchesShelf
-----------------------------------------------------------------------------
(* The types of what the queue's invariants speak of.                      *)
LEMMA PageTypes ==
  ASSUME CountTypeOK
  PROVE  /\ saves \in Nat /\ DOMAIN queue \subseteq Nat
         /\ saving # Null => saving.product \in Products /\ saving.qty \in Nat
         /\ \A id \in DOMAIN queue : queue[id].product \in Products /\ queue[id].qty \in Nat
         /\ \A p \in Products : latest[p] # Null => latest[p].id \in Nat /\ latest[p].qty \in Nat
         /\ \A f \in Flushers : DOMAIN flush[f] \subseteq Nat
         /\ countedQty \in [Products -> Nat \cup {Null}]
BY StockCountConstants DEF CountTypeOK, AreRecords, Item, Number, Latest

(* What does not touch the page keeps what the queue holds.                *)
LEMMA PageUntouched ==
  ASSUME NumbersFollow, FlushFollowsQueue, LatestArrives,
         UNCHANGED <<page, countedQty>>,
         status # "NONE" => status' # "NONE",
         status' = "OPEN" => status \in {"OPEN", "NONE"}
  PROVE  NumbersFollow' /\ FlushFollowsQueue' /\ LatestArrives'
<1> USE DEF page
<1>1. NumbersFollow'
  BY DEF NumbersFollow
<1>2. FlushFollowsQueue'
  BY DEF FlushFollowsQueue
<1>3. ASSUME NEW p \in Products \ (dropped \cup mixed), latest[p] # Null, status' = "OPEN"
      PROVE  Arrives(p)'
  <2>1. status = "OPEN"
    BY <1>3 DEF NumbersFollow
  <2>2. Arrives(p)
    BY <1>3, <2>1 DEF LatestArrives
  <2> QED BY <2>2 DEF Arrives, Queued
<1>4. LatestArrives'
  BY <1>3 DEF LatestArrives
<1> QED BY <1>1, <1>2, <1>4

LEMMA SaveStartKeeps ==
  ASSUME QueueInv, NEW p \in Products, SaveStart(p)
  PROVE  NumbersFollow' /\ FlushFollowsQueue' /\ LatestArrives'
<1> USE DEF server, goods
<1>1. CountTypeOK
  BY DEF QueueInv, GoodsInv
<1>2. /\ saving = Null /\ saves' = saves + 1 /\ status # "NONE"
      /\ saving' = [product |-> p, qty |-> shelf[p]] /\ saving' # Null
      /\ latest'[p] = [id |-> saves + 1, qty |-> shelf[p], sold |-> sold[p], lost |-> lost[p]]
      /\ latest'[p] # Null
      /\ \A q \in Products \ {p} : latest'[q] = latest[q]
      /\ dropped' = dropped \ {p}
      /\ UNCHANGED <<status, countedQty, queue, flush, mixed>>
  <2>1. shelf[p] \in Nat /\ saves + 1 \in Nat /\ sold[p] \in Nat /\ lost[p] \in Nat
    BY <1>1, StockCountConstants DEF CountTypeOK
  <2>2. /\ [product |-> p, qty |-> shelf[p]] \in Number
        /\ [id |-> saves + 1, qty |-> shelf[p], sold |-> sold[p], lost |-> lost[p]] \in Latest
    BY <2>1 DEF Number, Latest
  <2> QED BY <1>1, <2>2, StockCountConstants DEF SaveStart, CountTypeOK
<1>3. \A id \in DOMAIN queue :
        /\ id \in Nat /\ queue[id].product \in Products
        /\ latest[queue[id].product] # Null
        /\ latest[queue[id].product].id \in Nat
        /\ id <= latest[queue[id].product].id /\ latest[queue[id].product].id <= saves
  BY <1>1, PageTypes DEF QueueInv, NumbersFollow
<1>4. saves \in Nat
  BY <1>1, PageTypes
<1>5. NumbersFollow'
  <2>1. saving'.product = p /\ latest'[p].id = saves' /\ latest'[p].qty = saving'.qty
    BY <1>2
  <2>2. \A q \in Products : latest'[q] # Null => latest'[q].id <= saves' /\ status' # "NONE"
    BY <1>1, <1>2, <1>4, PageTypes DEF QueueInv, NumbersFollow
  <2>3. \A id \in DOMAIN queue' :
          /\ id < saves' /\ latest'[queue'[id].product] # Null
          /\ id <= latest'[queue'[id].product].id
    BY <1>2, <1>3, <1>4
  <2> QED BY <1>2, <2>1, <2>2, <2>3 DEF NumbersFollow
<1>6. FlushFollowsQueue'
  BY <1>2 DEF QueueInv, FlushFollowsQueue
<1>7. ASSUME NEW q \in Products \ (dropped' \cup mixed'), latest'[q] # Null, status' = "OPEN"
      PROVE  Arrives(q)'
  <2>1. CASE q = p
    BY <1>2, <2>1 DEF Arrives
  <2>2. CASE q # p
    BY <1>2, <1>7, <2>2 DEF QueueInv, LatestArrives, Arrives, Queued
  <2> QED BY <2>1, <2>2
<1> QED BY <1>5, <1>6, <1>7 DEF LatestArrives

LEMMA SaveDoneKeeps ==
  ASSUME QueueInv, SaveDone
  PROVE  NumbersFollow' /\ FlushFollowsQueue' /\ LatestArrives'
<1> USE DEF server, goods
<1>1. CountTypeOK
  BY DEF QueueInv, GoodsInv
<1> PICK p \in Products : p = saving.product
  BY <1>1, PageTypes DEF SaveDone
<1>2. /\ saving # Null /\ saving' = Null
      /\ latest[p].qty = saving.qty
      /\ countedQty' = [countedQty EXCEPT ![p] = saving.qty]
      /\ UNCHANGED <<status, queue, flush, saves, latest, dropped>>
      /\ Waiting(p) => mixed' = mixed \cup {p}
      /\ mixed \subseteq mixed' \cup {p}
  BY DEF SaveDone, Counted, QueueInv, NumbersFollow
<1>3. NumbersFollow'
  BY <1>2 DEF QueueInv, NumbersFollow
<1>4. FlushFollowsQueue'
  BY <1>2 DEF QueueInv, FlushFollowsQueue
<1>5. ASSUME NEW q \in Products \ (dropped' \cup mixed'), latest'[q] # Null, status' = "OPEN"
      PROVE  Arrives(q)'
  <2>1. CASE q = p
    <3>1. Queued(p) = {}
      BY <1>2, <1>5, <2>1 DEF Waiting, Queued
    <3>2. countedQty'[p] = latest[p].qty
      BY <1>1, <1>2 DEF CountTypeOK
    <3> QED BY <1>2, <2>1, <3>1, <3>2 DEF Arrives, Queued
  <2>2. CASE q # p
    <3>1. Arrives(q) /\ ~(saving.product = q)
      BY <1>2, <1>5, <2>2 DEF QueueInv, LatestArrives
    <3>2. countedQty'[q] = countedQty[q]
      BY <1>1, <1>2, <2>2 DEF CountTypeOK
    <3> QED BY <1>2, <3>1, <3>2 DEF Arrives, Queued
  <2> QED BY <2>1, <2>2
<1> QED BY <1>3, <1>4, <1>5 DEF LatestArrives

LEMMA SaveQueuedKeeps ==
  ASSUME QueueInv, SaveQueued
  PROVE  NumbersFollow' /\ FlushFollowsQueue' /\ LatestArrives'
<1> USE DEF server, goods
<1>1. CountTypeOK
  BY DEF QueueInv, GoodsInv
<1> PICK p \in Products : p = saving.product
  BY <1>1, PageTypes DEF SaveQueued
<1>2. /\ saving # Null /\ saving' = Null
      /\ latest[p] # Null /\ latest[p].id = saves /\ latest[p].qty = saving.qty
      /\ countedQty' = [countedQty EXCEPT ![p] = saving.qty] \/ UNCHANGED countedQty
      /\ UNCHANGED <<status, flush, saves, latest, dropped>>
      /\ mixed' = mixed \ {p}
  BY DEF SaveQueued, Counted, QueueInv, NumbersFollow
<1>3. /\ DOMAIN queue' = DOMAIN queue \cup {saves}
      /\ queue'[saves].product = p /\ queue'[saves].qty = saving.qty
      /\ \A id \in DOMAIN queue \ {saves} : queue'[id] = queue[id]
  <2>1. saves \in 1..MaxSaves /\ AreRecords(queue)
    BY <1>1, <1>2, StockCountConstants DEF QueueInv, GoodsInv, GoodsFollow, CountTypeOK
  <2>2. [product |-> saving.product, qty |-> saving.qty, attempts |-> 0] \in Item
    BY <1>1, <1>2, PageTypes, StockCountConstants DEF Item
  <2> QED BY <2>1, <2>2, Added DEF SaveQueued
<1>4. saves \in Nat /\ \A id \in DOMAIN queue : id \in Nat /\ id < saves
  BY <1>1, <1>2, PageTypes DEF QueueInv, NumbersFollow
<1>5. NumbersFollow'
  BY <1>2, <1>3, <1>4 DEF QueueInv, NumbersFollow
<1>6. ASSUME NEW f \in Flushers, NEW x \in DOMAIN flush'[f]
      PROVE  /\ x \in DOMAIN queue' /\ flush'[f][x] = queue'[x]
             /\ \A id \in DOMAIN queue' \ DOMAIN flush'[f] : x < id
  <2>1. /\ x \in DOMAIN flush[f] /\ x \in DOMAIN queue /\ flush[f][x] = queue[x]
        /\ \A id \in DOMAIN queue \ DOMAIN flush[f] : x < id
    BY <1>2, <1>6 DEF QueueInv, FlushFollowsQueue
  <2> QED BY <1>2, <1>3, <1>4, <2>1
<1>7. FlushFollowsQueue'
  BY <1>2, <1>6 DEF FlushFollowsQueue
<1>8. ASSUME NEW q \in Products \ (dropped' \cup mixed'), latest'[q] # Null, status' = "OPEN"
      PROVE  Arrives(q)'
  <2>1. CASE q = p
    BY <1>2, <1>3, <2>1 DEF Arrives, Queued
  <2>2. CASE q # p
    <3>1. Arrives(q) /\ ~(saving.product = q)
      BY <1>2, <1>8, <2>2 DEF QueueInv, LatestArrives
    <3>2. countedQty'[q] = countedQty[q]
      BY <1>1, <1>2, <2>2 DEF CountTypeOK
    <3>3. Queued(q)' = Queued(q)
      BY <1>3, <1>4, <2>2 DEF Queued
    <3>4. \A id \in Queued(q) : queue'[id] = queue[id]
      BY <1>3, <1>4 DEF Queued
    <3> QED BY <1>2, <3>1, <3>2, <3>3, <3>4 DEF Arrives
  <2> QED BY <2>1, <2>2
<1> QED BY <1>5, <1>7, <1>8 DEF LatestArrives

LEMMA FlushStartKeeps ==
  ASSUME FlushesAlone', QueueInv, NEW f \in Flushers, FlushStart(f)
  PROVE  NumbersFollow' /\ FlushFollowsQueue' /\ LatestArrives'
<1>1. UNCHANGED <<status, countedQty, saving, queue, saves, latest, dropped, mixed>>
  BY DEF FlushStart, server
<1>2. NumbersFollow'
  BY <1>1 DEF QueueInv, NumbersFollow
<1>3. flush'[f] = queue /\ DOMAIN queue # {}
  BY DEF FlushStart, QueueInv, GoodsInv, CountTypeOK
<1>4. FlushFollowsQueue'
  BY <1>1, <1>3 DEF FlushFollowsQueue, FlushesAlone, Sending
<1>5. LatestArrives'
  BY <1>1 DEF QueueInv, LatestArrives, Arrives, Queued
<1> QED BY <1>2, <1>4, <1>5

(* The record a flush sends is the oldest of the queue.                    *)
LEMMA SendsOldest ==
  ASSUME QueueInv, NEW f \in Flushers, Sending(f)
  PROVE  /\ Current(f) \in DOMAIN queue /\ Current(f) \in 1..MaxSaves
         /\ Sent(f) = queue[Current(f)] /\ Sent(f) \in Item
         /\ Sent(f).product \in Products /\ Sent(f).qty \in Nat
         /\ \A id \in DOMAIN queue : Current(f) <= id
<1>1. CountTypeOK /\ FlushFollowsQueue
  BY DEF QueueInv, GoodsInv
<1>2. /\ Current(f) \in DOMAIN flush[f] /\ Current(f) \in 1..MaxSaves
      /\ \A x \in DOMAIN flush[f] : Current(f) <= x
      /\ Sent(f) = flush[f][Current(f)] /\ Sent(f) \in Item
  BY <1>1, OldestIsSent
<1>3. /\ Current(f) \in DOMAIN queue /\ flush[f][Current(f)] = queue[Current(f)]
      /\ \A id \in DOMAIN queue \ DOMAIN flush[f] : Current(f) < id
  BY <1>1, <1>2 DEF FlushFollowsQueue
<1>4. \A id \in DOMAIN queue : id \in Nat
  BY <1>1, PageTypes
<1> QED BY <1>2, <1>3, <1>4, StockCountConstants DEF Item

(* A record is removed, taken by the server or given up.                   *)
LEMMA RemoveKeeps ==
  ASSUME FlushesAlone, QueueInv, NEW f \in Flushers, Sending(f), Remove(f),
         UNCHANGED <<status, saving, saves, latest, mixed>>, dropped \subseteq dropped',
         Counted(Sent(f).product, Sent(f).qty) \/ UNCHANGED countedQty,
         \/ Counted(Sent(f).product, Sent(f).qty)
         \/ latest[Sent(f).product].id = Current(f) => Sent(f).product \in dropped'
         \/ status # "OPEN"
  PROVE  NumbersFollow' /\ FlushFollowsQueue' /\ LatestArrives'
<1>1. CountTypeOK
  BY DEF QueueInv, GoodsInv
<1> PICK c \in 1..MaxSaves : c = Current(f)
  BY SendsOldest
<1> PICK item \in Item : item = Sent(f)
  BY SendsOldest
<1>2. /\ c \in DOMAIN queue /\ queue[c] = item
      /\ item.product \in Products /\ item.qty \in Nat
      /\ \A id \in DOMAIN queue : c <= id
  BY SendsOldest
<1>3. /\ DOMAIN queue' = DOMAIN queue \ {c}
      /\ \A id \in DOMAIN queue \ {c} : queue'[id] = queue[id]
  BY <1>1, Removed DEF Remove, CountTypeOK
<1>4. /\ DOMAIN flush'[f] = DOMAIN flush[f] \ {c}
      /\ \A id \in DOMAIN flush[f] \ {c} : flush'[f][id] = flush[f][id]
  <2>1. AreRecords(flush[f]) /\ DOMAIN flush = Flushers
    BY <1>1 DEF CountTypeOK
  <2>2. flush' = [flush EXCEPT ![f] = Without(flush[f], c)]
    BY DEF Remove
  <2> DEFINE rest == Without(flush[f], c)
  <2>3. flush' = [flush EXCEPT ![f] = rest]
    BY <2>2
  <2> HIDE DEF rest
  <2>4. flush'[f] = rest
    BY <2>1, <2>3
  <2>5. /\ DOMAIN rest = DOMAIN flush[f] \ {c}
        /\ \A y \in DOMAIN flush[f] \ {c} : rest[y] = flush[f][y]
    BY <2>1, Removed DEF rest
  <2> QED BY <2>4, <2>5
<1>5. NumbersFollow'
  BY <1>3 DEF QueueInv, NumbersFollow
<1>6. ASSUME NEW g \in Flushers, NEW x \in DOMAIN flush'[g]
      PROVE  /\ x \in DOMAIN queue' /\ flush'[g][x] = queue'[x]
             /\ \A id \in DOMAIN queue' \ DOMAIN flush'[g] : x < id
  <2>1. g = f
    BY <1>1, <1>6 DEF FlushesAlone, Sending, Remove, CountTypeOK
  <2>2. /\ x \in DOMAIN flush[f] \ {c} /\ x \in DOMAIN queue /\ flush[f][x] = queue[x]
        /\ \A id \in DOMAIN queue \ DOMAIN flush[f] : x < id
    BY <1>4, <1>6, <2>1 DEF QueueInv, FlushFollowsQueue
  <2> QED BY <1>3, <1>4, <2>1, <2>2
<1>7. FlushFollowsQueue'
  BY <1>6 DEF FlushFollowsQueue
<1>8. ASSUME NEW q \in Products \ (dropped' \cup mixed'), latest'[q] # Null, status' = "OPEN"
      PROVE  Arrives(q)'
  <2>1. Arrives(q) /\ status = "OPEN" /\ latest[q] # Null
    BY <1>8 DEF QueueInv, LatestArrives
  <2>2. CASE saving # Null /\ saving.product = q
    BY <2>2 DEF Arrives
  <2>3. CASE /\ latest[q].id \in Queued(q) /\ queue[latest[q].id].qty = latest[q].qty
            /\ latest[q].id # c
    BY <1>3, <2>3 DEF Arrives, Queued
  <2>4. CASE /\ latest[q].id \in Queued(q) /\ queue[latest[q].id].qty = latest[q].qty
            /\ latest[q].id = c
    <3>1. item.product = q /\ item.qty = latest[q].qty
      BY <1>2, <2>4 DEF Queued
    <3>2. Counted(item.product, item.qty)
      BY <1>8, <2>1, <2>4, <3>1
    <3>3. countedQty'[q] = latest'[q].qty
      BY <1>1, <3>1, <3>2 DEF Counted, CountTypeOK
    <3>4. Queued(q) \subseteq {c}
      BY <1>1, <1>2, <2>4, PageTypes DEF QueueInv, NumbersFollow, Queued
    <3>5. Queued(q)' = {}
      BY <1>3, <3>4 DEF Queued
    <3> QED BY <3>3, <3>5 DEF Arrives
  <2>5. CASE countedQty[q] = latest[q].qty /\ Queued(q) = {}
    <3>1. item.product # q
      BY <1>2, <2>5 DEF Queued
    <3>2. countedQty'[q] = countedQty[q]
      BY <1>1, <3>1 DEF Counted, CountTypeOK
    <3>3. Queued(q)' = {}
      BY <1>3, <2>5 DEF Queued
    <3> QED BY <2>5, <3>2, <3>3 DEF Arrives
  <2> QED BY <2>1, <2>2, <2>3, <2>4, <2>5 DEF Arrives
<1> QED BY <1>5, <1>7, <1>8 DEF LatestArrives

(* The attempt failed and is noted; the flush ends.                        *)
LEMMA NoteKeeps ==
  ASSUME FlushesAlone, QueueInv, NEW f \in Flushers, Sending(f),
         With(Current(f), [Sent(f) EXCEPT !.attempts = Bump(Sent(f))]),
         Sent(f).attempts + 1 < MaxAttempts,
         flush' = [flush EXCEPT ![f] = NoRecords],
         UNCHANGED <<status, saving, saves, latest, mixed, dropped>>,
         Counted(Sent(f).product, Sent(f).qty) \/ UNCHANGED countedQty
  PROVE  NumbersFollow' /\ FlushFollowsQueue' /\ LatestArrives'
<1>1. CountTypeOK
  BY DEF QueueInv, GoodsInv
<1> PICK c \in 1..MaxSaves : c = Current(f)
  BY SendsOldest
<1> PICK item \in Item : item = Sent(f)
  BY SendsOldest
<1>2. /\ c \in DOMAIN queue /\ queue[c] = item
      /\ item.product \in Products /\ item.qty \in Nat
  BY SendsOldest
<1>3. /\ DOMAIN queue' = DOMAIN queue
      /\ \A id \in DOMAIN queue : queue'[id].product = queue[id].product
                               /\ queue'[id].qty = queue[id].qty
  <2>1. [item EXCEPT !.attempts = Bump(item)] \in Item
    BY StockCountConstants DEF Item, Bump
  <2>2. /\ DOMAIN queue' = DOMAIN queue \cup {c}
        /\ queue'[c] = [item EXCEPT !.attempts = Bump(item)]
        /\ \A y \in DOMAIN queue \ {c} : queue'[y] = queue[y]
    BY <1>1, <2>1, Added DEF CountTypeOK
  <2>3. queue'[c].product = item.product /\ queue'[c].qty = item.qty
    BY <2>2 DEF Item
  <2> QED BY <1>2, <2>2, <2>3
<1>4. \A g \in Flushers : DOMAIN flush'[g] = {}
  BY <1>1, Nothing DEF FlushesAlone, Sending, CountTypeOK
<1>5. NumbersFollow'
  BY <1>3 DEF QueueInv, NumbersFollow
<1>6. FlushFollowsQueue'
  BY <1>4 DEF FlushFollowsQueue
<1>7. ASSUME NEW q \in Products \ (dropped' \cup mixed'), latest'[q] # Null, status' = "OPEN"
      PROVE  Arrives(q)'
  <2>1. Arrives(q)
    BY <1>7 DEF QueueInv, LatestArrives
  <2>2. Queued(q)' = Queued(q)
    BY <1>3 DEF Queued
  <2>3. Queued(q) = {} => countedQty'[q] = countedQty[q]
    BY <1>1, <1>2 DEF Counted, CountTypeOK, Queued
  <2> QED BY <1>3, <2>1, <2>2, <2>3 DEF Arrives, Queued
<1> QED BY <1>5, <1>6, <1>7 DEF LatestArrives

LEMMA FlushKeeps ==
  ASSUME FlushesAlone, QueueInv, NEW f \in Flushers, Flush(f)
  PROVE  NumbersFollow' /\ FlushFollowsQueue' /\ LatestArrives'
<1>1. Sending(f) /\ UNCHANGED <<status, saving, saves, latest, mixed>>
  BY DEF Flush, Taken, Rejected, Unsent, server
<1>2. CASE Taken(f)
  <2>1. Remove(f) /\ Counted(Sent(f).product, Sent(f).qty) /\ dropped' = dropped
    BY <1>2 DEF Taken
  <2> QED BY <1>1, <2>1, RemoveKeeps
<1>3. CASE Rejected(f)
  <2>1. Remove(f) /\ status # "OPEN" /\ dropped \subseteq dropped' /\ UNCHANGED countedQty
    BY <1>3 DEF Rejected, GiveUp
  <2> QED BY <1>1, <2>1, RemoveKeeps
<1>4. CASE Unsent(f)
  <2>1. Counted(Sent(f).product, Sent(f).qty) \/ UNCHANGED countedQty
    BY <1>4 DEF Unsent
  <2>2. CASE Sent(f).attempts + 1 >= MaxAttempts
    <3>1. /\ Remove(f) /\ dropped \subseteq dropped'
          /\ latest[Sent(f).product].id = Current(f) => Sent(f).product \in dropped'
      BY <1>4, <2>2 DEF Unsent, GiveUp
    <3> QED BY <1>1, <2>1, <3>1, RemoveKeeps
  <2>3. CASE ~(Sent(f).attempts + 1 >= MaxAttempts)
    <3>1. /\ With(Current(f), [Sent(f) EXCEPT !.attempts = Bump(Sent(f))])
          /\ flush' = [flush EXCEPT ![f] = NoRecords] /\ UNCHANGED dropped
      BY <1>4, <2>3 DEF Unsent
    <3>2. Sent(f).attempts + 1 < MaxAttempts
      BY <1>1, <2>3, SendsOldest, StockCountConstants DEF Item
    <3> QED BY <1>1, <2>1, <3>1, <3>2, NoteKeeps
  <2> QED BY <2>2, <2>3
<1> QED BY <1>2, <1>3, <1>4 DEF Flush

LEMMA CloseKeeps ==
  ASSUME QueueInv, Close
  PROVE  NumbersFollow' /\ FlushFollowsQueue' /\ LatestArrives'
<1>1. CountTypeOK
  BY DEF QueueInv, GoodsInv
<1>2. /\ UNCHANGED <<status, queue, saves, latest, mixed>> /\ saving' = Null
      /\ flush' = [f \in Flushers |-> NoRecords]
      /\ dropped \subseteq dropped' /\ (saving # Null => saving.product \in dropped')
  BY DEF Close, server
<1>3. NumbersFollow'
  BY <1>2 DEF QueueInv, NumbersFollow
<1>4. FlushFollowsQueue'
  BY <1>2, Nothing DEF FlushFollowsQueue
<1>5. ASSUME NEW q \in Products \ (dropped' \cup mixed'), latest'[q] # Null, status' = "OPEN"
      PROVE  Arrives(q)'
  <2>1. Arrives(q) /\ ~(saving # Null /\ saving.product = q)
    BY <1>2, <1>5 DEF QueueInv, LatestArrives
  <2>2. ASSUME Queued(q) = {} PROVE countedQty'[q] = countedQty[q]
    <3>1. \A f \in Flushers : Sending(f) => Sent(f).product # q
      BY <2>2, SendsOldest DEF Queued
    <3> QED BY <1>1, <2>1, <3>1 DEF Close, Counted, CountTypeOK
  <2> QED BY <1>2, <2>1, <2>2 DEF Arrives, Queued
<1> QED BY <1>3, <1>4, <1>5 DEF LatestArrives

(* Every step keeps the order of the queue, if flushes do not overlap.     *)
LEMMA QueueStep ==
  ASSUME FlushesAlone, FlushesAlone', QueueInv, [CountNext]_countVars
  PROVE  QueueInv'
<1>1. GoodsInv'
  BY GoodsStep DEF QueueInv
<1>2. NumbersFollow /\ FlushFollowsQueue /\ LatestArrives
  BY DEF QueueInv
<1>3. NumbersFollow' /\ FlushFollowsQueue' /\ LatestArrives'
  <2>1. CASE \E p \in Products : Sell(p) \/ Lose(p)
    <3>1. UNCHANGED <<page, countedQty, status>>
      BY <2>1 DEF Sell, Lose, server
    <3> QED BY <1>2, <3>1, PageUntouched
  <2>2. CASE Open
    BY <1>2, <2>2, PageUntouched DEF Open
  <2>3. CASE ApplyRead
    BY <1>2, <2>3, PageUntouched DEF ApplyRead
  <2>4. CASE ApplyPost
    BY <1>2, <2>4, PageUntouched DEF ApplyPost
  <2>5. CASE ApplyRefused
    BY <1>2, <2>5, PageUntouched DEF ApplyRefused
  <2>6. CASE Cancel
    BY <1>2, <2>6, PageUntouched DEF Cancel
  <2>7. CASE \E p \in Products : SaveStart(p)
    BY <2>7, SaveStartKeeps
  <2>8. CASE SaveDone
    BY <2>8, SaveDoneKeeps
  <2>9. CASE SaveRejected
    BY <1>2, <2>9 DEF SaveRejected, server, NumbersFollow, FlushFollowsQueue, LatestArrives
  <2>10. CASE SaveQueued
    BY <2>10, SaveQueuedKeeps
  <2>11. CASE \E f \in Flushers : FlushStart(f)
    BY <2>11, FlushStartKeeps
  <2>12. CASE \E f \in Flushers : Flush(f)
    BY <2>12, FlushKeeps
  <2>13. CASE Close
    BY <2>13, CloseKeeps
  <2>14. CASE UNCHANGED countVars
    <3>1. UNCHANGED <<page, countedQty, status>>
      BY <2>14 DEF countVars, server
    <3> QED BY <1>2, <3>1, PageUntouched
  <2> QED BY <2>1, <2>2, <2>3, <2>4, <2>5, <2>6, <2>7, <2>8, <2>9, <2>10, <2>11, <2>12, <2>13,
             <2>14 DEF CountNext
<1> QED BY <1>1, <1>3 DEF QueueInv

LEMMA QueueStart == CountInit => QueueInv
<1> SUFFICES ASSUME CountInit PROVE QueueInv
  OBVIOUS
<1>1. GoodsInv
  BY GoodsStart
<1>2. NumbersFollow /\ FlushFollowsQueue /\ LatestArrives
  BY Nothing DEF CountInit, NumbersFollow, FlushFollowsQueue, LatestArrives
<1> QED BY <1>1, <1>2 DEF QueueInv

(* flush: in every behaviour in which no two flushes overlap, the server   *)
(* has the last number of a product when all is sent, for any number of    *)
(* products, numbers, lost answers, closed pages and attempts.             *)
THEOREM QueueAlwaysKeepsOrder == CountSpec /\ []FlushesAlone => []QueueKeepsOrder
<1>1. QueueInv /\ FlushesAlone /\ FlushesAlone' /\ [CountNext]_countVars => QueueInv'
  BY QueueStep
<1>2. QueueInv => QueueKeepsOrder
  BY DEF QueueInv, LatestArrives, Arrives, QueueKeepsOrder, LatestIsOnTheServer, Settled, Queued
<1> QED BY QueueStart, <1>1, <1>2, PTL DEF CountSpec
=============================================================================
