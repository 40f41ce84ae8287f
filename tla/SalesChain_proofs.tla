------------------------- MODULE SalesChain_proofs -------------------------
(***************************************************************************)
(* Proofs about SalesChain, for any quotations, orders, items, quantities  *)
(* and number of concurrent requests.                                      *)
(*                                                                         *)
(* That the status of an order follows its shipments is not inductive: the *)
(* status a shipment has computed must still be right when it commits.  It *)
(* is, because a shipment that has inserted its row holds the number after *)
(* the last committed one (Sound), so that no two have (OneShips), and no  *)
(* other step changes what an order has shipped.                           *)
(***************************************************************************)
EXTENDS SalesChain, Lemmas, SequenceTheorems

Present(o) == order[o] # Absent

OneShips == \A r, x \in Request : Shipping(r) /\ Shipping(x) => r = x

\* What holds of a request wherever it is.
Sound(q) ==
  /\ q # Idle => q.order \in Order /\ Present(q.order)
  /\ q.pc \in {"numbering", "inserting"} => \E i \in Item : q.todo[i] > 0
  /\ q.pc = "inserting" => q.number <= Len(shipment) + 1
  /\ q.pc \in {"taking", "counted"} =>
       /\ q.number = Len(shipment) + 1
       /\ \A i \in Item : order[q.order].shipped[i] + q.taken[i] <= order[q.order].qty[i]
       /\ \E i \in Item : q.todo[i] > 0 \/ q.taken[i] > 0
  /\ q.pc = "counted" =>
       /\ \E i \in Item : q.taken[i] > 0
       /\ q.status = ShipStatus(order[q.order].qty, WithTaken(q.order, q.taken))

OrdersFit ==
  \A o \in Order : Present(o) => \A i \in Item : order[o].shipped[i] <= order[o].qty[i]

IInv ==
  /\ TypeOK
  /\ OneShips
  /\ \A r \in Request : Sound(request[r])
  /\ OrdersFit
  /\ StatusFollowsShipments
-----------------------------------------------------------------------------
(* What the locals of a request are, by where it is.                       *)
LEMMA Locals ==
  ASSUME TypeOK, NEW r \in Request
  PROVE  /\ request[r].pc \in {"numbering", "inserting", "taking", "counted"} =>
              request[r].order \in Order /\ request[r].todo \in Quantities
         /\ request[r].pc \in {"inserting", "taking", "counted"} => request[r].number \in Nat
         /\ request[r].pc \in {"taking", "counted"} => request[r].taken \in Quantities
         /\ request[r].pc = "counted" => request[r].status \in OpenStatus
         /\ request[r].pc \in {"invoicing", "sold"} => request[r].order \in Order
         /\ request[r].pc = "sold" => request[r].sale \in Sale
         /\ request[r] = Idle <=> request[r].pc = "idle"
<1>1. request[r] \in RequestStates
  BY DEF TypeOK
<1> QED
  BY <1>1 DEF RequestStates, Idle

LEMMA Rows ==
  ASSUME TypeOK, NEW o \in Order, Present(o)
  PROVE  /\ order[o] \in OrderRow
         /\ \A i \in Item : order[o].qty[i] \in Nat /\ order[o].shipped[i] \in Nat
BY DEF TypeOK, Present, OrderRow, Quantities

LEMMA Statuses == ASSUME NEW qty, NEW shipped PROVE ShipStatus(qty, shipped) \in OpenStatus
BY DEF ShipStatus, OpenStatus

LEMMA Length == TypeOK => Len(shipment) \in Nat
BY LenProperties DEF TypeOK

(* A request that moves on, or ends, leaves the others where they are.     *)
LEMMA Moves ==
  ASSUME TypeOK, NEW r \in Request, NEW s \in RequestStates,
         request' = [request EXCEPT ![r] = s]
  PROVE  /\ request' \in [Request -> RequestStates]
         /\ request'[r] = s
         /\ \A x \in Request : x # r => request'[x] = request[x]
BY DEF TypeOK

LEMMA Finishes ==
  ASSUME TypeOK, NEW r \in Request, Done(r)
  PROVE  /\ request' \in [Request -> RequestStates]
         /\ request'[r] = Idle
         /\ \A x \in Request : x # r => request'[x] = request[x]
<1>1. Idle \in RequestStates
  BY DEF RequestStates
<1> QED
  BY <1>1, Moves DEF Done

LEMMA IdleIsSound == Sound(Idle)
BY DEF Sound, Idle

(* What orders have and have shipped is left alone.                        *)
ItemsKept ==
  \A o \in Order : Present(o) =>
    Present(o)' /\ order'[o].qty = order[o].qty /\ order'[o].shipped = order[o].shipped

(* A request that does not move stays sound while items are kept and no    *)
(* shipment is committed.                                                  *)
LEMMA SoundKept ==
  ASSUME NEW r \in Request, Sound(request[r]), request'[r] = request[r],
         ItemsKept, Len(shipment') = Len(shipment)
  PROVE  Sound(request[r])'
<1>1. CASE request[r] = Idle
  BY <1>1 DEF Sound, Idle
<1>2. CASE request[r] # Idle
  <2> DEFINE o == request[r].order
  <2>1. o \in Order /\ Present(o) /\ Present(o)'
        /\ order'[o].qty = order[o].qty /\ order'[o].shipped = order[o].shipped
    BY <1>2 DEF Sound, ItemsKept
  <2>2. WithTaken(request[r].order, request[r].taken)' = WithTaken(request[r].order, request[r].taken)
    BY <2>1 DEF WithTaken
  <2> QED
    BY <1>2, <2>1, <2>2 DEF Sound, ShipStatus
<1> QED
  BY <1>1, <1>2
-----------------------------------------------------------------------------
LEMMA InitHolds == ASSUME Init PROVE IInv
<1>1. TypeOK
  <2>1. << >> \in Seq(ShipmentRow)
    BY EmptySeq
  <2> QED
    BY <2>1 DEF Init, TypeOK, RequestStates
<1>2. \A r \in Request : request[r] = Idle
  BY DEF Init
<1>3. \A r \in Request : Sound(request[r]) /\ ~Shipping(r)
  BY <1>2, IdleIsSound DEF Shipping, Idle
<1>4. OrdersFit /\ StatusFollowsShipments
  BY DEF Init, OrdersFit, Present, StatusFollowsShipments
<1> QED
  BY <1>1, <1>3, <1>4 DEF IInv, OneShips

(* Steps of the office: the requests and the shipments stay.               *)
LEMMA OfficeKeeps ==
  ASSUME IInv, UNCHANGED <<request, shipment>>, ItemsKept, TypeOK',
         OrdersFit', StatusFollowsShipments'
  PROVE  IInv'
<1>1. \A r \in Request : Sound(request[r])'
  BY SoundKept DEF IInv
<1>2. OneShips'
  BY DEF IInv, OneShips, Shipping
<1> QED
  BY <1>1, <1>2 DEF IInv

LEMMA NewOrderKeeps ==
  ASSUME IInv, NEW o \in Order, NEW status \in {"PENDING", "CONFIRMED"},
         NEW q \in Quotation \cup {NoQuotation}, NEW qty \in Quantities,
         NewOrder(o, status, q, qty), UNCHANGED <<shipment, sale, request>>,
         quotation' \in [Quotation -> QuotationRow \cup {Absent}]
  PROVE  IInv'
<1> DEFINE row == [status |-> status, quotation |-> q, sale |-> NoSale,
                   qty |-> qty, shipped |-> Nothing]
<1>1. TypeOK /\ order[o] = Absent /\ order' = [order EXCEPT ![o] = row]
  BY DEF IInv, NewOrder
<1>2. Nothing \in Quantities /\ \A i \in Item : Nothing[i] = 0 /\ qty[i] \in Nat
  BY DEF Nothing, Quantities
<1>3. row \in OrderRow
  BY <1>2 DEF OrderRow, OpenStatus
<1>4. TypeOK'
  BY <1>1, <1>3 DEF TypeOK
<1>5. order'[o] = row /\ \A p \in Order : p # o => order'[p] = order[p]
  BY <1>1 DEF TypeOK
<1>6. ItemsKept
  BY <1>1, <1>5 DEF ItemsKept, Present
<1>7. OrdersFit'
  BY <1>1, <1>2, <1>5 DEF IInv, OrdersFit, Present
<1>8. StatusFollowsShipments'
  BY <1>1, <1>2, <1>5 DEF IInv, StatusFollowsShipments
<1> QED
  BY <1>4, <1>6, <1>7, <1>8, OfficeKeeps

LEMMA CancelKeeps ==
  ASSUME IInv, NEW o \in Order, Cancel(o)
  PROVE  IInv'
<1>1. TypeOK /\ Present(o) /\ UNCHANGED <<quotation, shipment, sale, request>>
      /\ order' = [order EXCEPT ![o].status = "CANCELLED"]
  BY DEF IInv, Cancel, Present
<1>2. order[o] \in OrderRow
  BY <1>1, Rows
<1>3. [order[o] EXCEPT !.status = "CANCELLED"] \in OrderRow
  BY <1>2 DEF OrderRow
<1>4. TypeOK'
  BY <1>1, <1>3 DEF TypeOK
<1>5. /\ \A p \in Order : p # o => order'[p] = order[p]
      /\ order'[o].status = "CANCELLED" /\ Present(o)'
      /\ order'[o].qty = order[o].qty /\ order'[o].shipped = order[o].shipped
  BY <1>1, <1>2 DEF TypeOK, OrderRow, Present, Absent
<1>6. ItemsKept
  BY <1>5 DEF ItemsKept, Present
<1>7. OrdersFit'
  BY <1>1, <1>5 DEF IInv, OrdersFit, Present
<1>8. StatusFollowsShipments'
  BY <1>5 DEF IInv, StatusFollowsShipments, OpenStatus
<1> QED
  BY <1>1, <1>4, <1>6, <1>7, <1>8, OfficeKeeps

LEMMA OfficeStepKeeps == ASSUME IInv, Office PROVE IInv'
<1>1. ASSUME NEW q \in Quotation, NEW qty \in Wanted, NEW expired \in BOOLEAN,
             CreateQuotation(q, qty, expired)
      PROVE  IInv'
  <2>1. TypeOK' /\ UNCHANGED <<order, request, shipment>>
    BY <1>1 DEF IInv, TypeOK, CreateQuotation, QuotationRow
  <2> QED
    BY <2>1, OfficeKeeps DEF IInv, ItemsKept, Present, OrdersFit, StatusFollowsShipments
<1>2. ASSUME NEW q \in Quotation, NEW o \in Order, Convert(q, o) PROVE IInv'
  <2>1. quotation[q] \in QuotationRow
    BY <1>2 DEF IInv, TypeOK, Convert, Absent
  <2>2. quotation[q].qty \in Quantities
    BY <2>1, SalesChainConstants DEF QuotationRow, Wanted, Quantities
  <2>3. quotation' \in [Quotation -> QuotationRow \cup {Absent}]
    BY <1>2, <2>1 DEF Convert, IInv, TypeOK, QuotationRow
  <2> QED
    BY <1>2, <2>2, <2>3, NewOrderKeeps DEF Convert
<1>3. ASSUME NEW o \in Order, NEW qty \in Wanted, ShopOrder(o, qty) PROVE IInv'
  <2>1. qty \in Quantities
    BY SalesChainConstants DEF Wanted, Quantities
  <2> QED
    BY <1>3, <2>1, NewOrderKeeps DEF ShopOrder, IInv, TypeOK
<1> QED
  BY <1>1, <1>2, <1>3, CancelKeeps DEF Office
-----------------------------------------------------------------------------
(* Steps of a request that commit nothing to an order.                     *)
LEMMA MoveKeeps ==
  ASSUME IInv, NEW r \in Request, UNCHANGED <<quotation, order, shipment>>,
         sale' \in [Sale -> Order \cup {NoOrder}],
         NEW s \in RequestStates, request' = [request EXCEPT ![r] = s], Sound(s),
         s.pc \in {"taking", "counted"} => \A x \in Request \ {r} : ~Shipping(x)
  PROVE  IInv'
<1>1. TypeOK /\ request' \in [Request -> RequestStates]
      /\ request'[r] = s /\ \A x \in Request : x # r => request'[x] = request[x]
  BY Moves DEF IInv
<1>2. TypeOK'
  BY <1>1 DEF TypeOK
<1>3. ItemsKept /\ OrdersFit' /\ StatusFollowsShipments'
  BY DEF IInv, ItemsKept, Present, OrdersFit, StatusFollowsShipments
<1>4. ASSUME NEW x \in Request PROVE Sound(request[x])'
  <2>1. CASE x = r
    <3>1. Sound(s)'
      BY DEF Sound, Present, ShipStatus, WithTaken
    <3> QED
      BY <1>1, <2>1, <3>1 DEF Sound
  <2>2. CASE x # r
    BY <1>1, <1>3, <2>2, SoundKept DEF IInv
  <2> QED
    BY <2>1, <2>2
<1>5. OneShips'
  BY <1>1 DEF IInv, OneShips, Shipping
<1> QED
  BY <1>2, <1>3, <1>4, <1>5 DEF IInv

LEMMA AbortKeeps ==
  ASSUME IInv, NEW r \in Request, Done(r), UNCHANGED <<quotation, order, shipment, sale>>
  PROVE  IInv'
<1>1. Idle \in RequestStates /\ Idle.pc = "idle"
  BY DEF RequestStates, Idle
<1> QED
  BY <1>1, IdleIsSound, MoveKeeps DEF Done, IInv, TypeOK

LEMMA ShipReadKeeps ==
  ASSUME IInv, NEW r \in Request, NEW o \in Order, NEW todo \in Wanted, ShipRead(r, o, todo)
  PROVE  IInv'
<1> DEFINE s == [pc |-> "numbering", order |-> o, todo |-> todo]
<1>1. todo \in Quantities /\ \E i \in Item : todo[i] > 0
  <2>1. \A i \in Item : todo[i] \in Nat
    BY SalesChainConstants DEF Wanted
  <2>2. (\A i \in Item : todo[i] = 0) => todo = Nothing
    BY DEF Wanted, Nothing
  <2> QED
    BY <2>1, <2>2 DEF ShipRead, Wanted, Quantities
<1>2. s \in RequestStates /\ Sound(s)
  BY <1>1 DEF ShipRead, RequestStates, Sound, Present
<1> QED
  BY <1>2, MoveKeeps DEF ShipRead, IInv, TypeOK

LEMMA ShipNumberKeeps ==
  ASSUME IInv, NEW r \in Request, ShipNumber(r)
  PROVE  IInv'
<1> DEFINE q == request[r]
<1> DEFINE s == [pc |-> "inserting", order |-> q.order, todo |-> q.todo,
                 number |-> Len(shipment) + 1]
<1>1. q.pc = "numbering" /\ Sound(q) /\ q # Idle /\ TypeOK
  BY DEF ShipNumber, IInv, Idle
<1>2. s \in RequestStates
  BY <1>1, Locals, Length DEF RequestStates
<1>3. Sound(s)
  BY <1>1, Length DEF Sound
<1> QED
  BY <1>2, <1>3, MoveKeeps DEF ShipNumber, IInv, TypeOK

(* The shipment that inserts a free number is the only one under way: any  *)
(* other would hold the same number, the one after the last committed.     *)
LEMMA ShipInsertKeeps ==
  ASSUME IInv, NEW r \in Request, ShipInsert(r)
  PROVE  IInv'
<1> DEFINE q == request[r]
<1> DEFINE s == [pc |-> "taking", order |-> q.order, todo |-> q.todo,
                 taken |-> Nothing, number |-> q.number]
<1>1. q.pc = "inserting" /\ Sound(q) /\ q # Idle /\ TypeOK /\ Len(shipment) \in Nat
  BY Length DEF ShipInsert, IInv, Idle
<1>2. CASE q.number <= Len(shipment)
  BY <1>2, AbortKeeps DEF ShipInsert
<1>3. CASE ~(q.number <= Len(shipment))
  <2>1. q.number = Len(shipment) + 1 /\ q.order \in Order /\ Present(q.order)
    BY <1>1, <1>3, Locals DEF Sound
  <2>2. Nothing \in Quantities /\ \A i \in Item : Nothing[i] = 0
    BY DEF Nothing, Quantities
  <2>3. s \in RequestStates
    BY <1>1, <2>2, Locals DEF RequestStates
  <2>4. \A i \in Item : order[q.order].shipped[i] + s.taken[i] <= order[q.order].qty[i]
    BY <1>1, <2>1, <2>2, Rows DEF IInv, OrdersFit
  <2>5. Sound(s)
    BY <1>1, <2>1, <2>4 DEF Sound
  <2>6. \A x \in Request \ {r} : ~Shipping(x)
    <3>1. \A x \in Request \ {r} : Shipping(x) => request[x].number # q.number
      BY DEF ShipInsert, NumberFree
    <3>2. \A x \in Request : Shipping(x) => request[x].number = Len(shipment) + 1
      BY DEF IInv, Sound, Shipping
    <3> QED
      BY <2>1, <3>1, <3>2
  <2>7. request' = [request EXCEPT ![r] = s] /\ UNCHANGED <<quotation, order, shipment, sale>>
    BY <1>3 DEF ShipInsert
  <2> QED
    BY <1>1, <2>3, <2>5, <2>6, <2>7, MoveKeeps DEF TypeOK
<1> QED
  BY <1>2, <1>3

LEMMA ShipTakeKeeps ==
  ASSUME IInv, NEW r \in Request, NEW i \in Item, ShipTake(r, i)
  PROVE  IInv'
<1> DEFINE q == request[r]
<1> DEFINE s == [q EXCEPT !.todo[i] = 0, !.taken[i] = q.todo[i]]
<1>1. q.pc = "taking" /\ Sound(q) /\ q # Idle /\ TypeOK /\ q.todo[i] > 0
      /\ q.order \in Order /\ Present(q.order)
  BY DEF ShipTake, IInv, Idle, Sound
<1>2. CASE ~WithinOrder(q.order, i, order[q.order].shipped[i] + q.todo[i])
  BY <1>2, AbortKeeps DEF ShipTake
<1>3. CASE WithinOrder(q.order, i, order[q.order].shipped[i] + q.todo[i])
  <2>1. q \in [pc : {"taking"}, order : Order, todo : Quantities, taken : Quantities, number : Nat]
    BY <1>1 DEF TypeOK, RequestStates
  <2>2. q.todo \in Quantities /\ q.taken \in Quantities /\ q.todo[i] \in Nat
    BY <2>1 DEF Quantities
  <2>3. /\ s.pc = "taking" /\ s.order = q.order /\ s.number = q.number
        /\ s.todo = [q.todo EXCEPT ![i] = 0] /\ s.taken = [q.taken EXCEPT ![i] = q.todo[i]]
    BY <2>1
  <2>4. s.todo \in Quantities /\ s.taken \in Quantities
    BY <2>2, <2>3 DEF Quantities
  <2>5. s \in [pc : {"taking"}, order : Order, todo : Quantities, taken : Quantities, number : Nat]
    BY <2>1, <2>2 DEF Quantities
  <2>6. s \in RequestStates
    BY <2>5 DEF RequestStates
  <2>7. /\ s.taken[i] = q.todo[i]
        /\ \A j \in Item : j # i => s.taken[j] = q.taken[j]
    BY <2>2, <2>3 DEF Quantities
  <2>8. \A j \in Item : order[q.order].shipped[j] + s.taken[j] <= order[q.order].qty[j]
    BY <1>1, <1>3, <2>7 DEF Sound, WithinOrder
  <2>9. Sound(s)
    BY <1>1, <2>3, <2>7, <2>8 DEF Sound
  <2>10. \A x \in Request \ {r} : ~Shipping(x)
    BY <1>1 DEF IInv, OneShips, Shipping
  <2>11. request' = [request EXCEPT ![r] = s] /\ UNCHANGED <<quotation, order, shipment, sale>>
    BY <1>3 DEF ShipTake
  <2> HIDE DEF s
  <2> QED
    BY <1>1, <2>6, <2>9, <2>10, <2>11, MoveKeeps DEF TypeOK
<1> QED
  BY <1>2, <1>3

LEMMA ShipCountKeeps ==
  ASSUME IInv, NEW r \in Request, ShipCount(r)
  PROVE  IInv'
<1> DEFINE q == request[r]
<1> DEFINE s == [pc |-> "counted", order |-> q.order, todo |-> q.todo, taken |-> q.taken,
                 number |-> q.number,
                 status |-> ShipStatus(order[q.order].qty, WithTaken(q.order, q.taken))]
<1>1. q.pc = "taking" /\ Sound(q) /\ q # Idle /\ TypeOK /\ q.todo = Nothing
  BY DEF ShipCount, IInv, Idle
<1>2. s \in RequestStates
  BY <1>1, Locals, Statuses DEF RequestStates
<1>3. \E j \in Item : q.taken[j] > 0
  BY <1>1 DEF Sound, Nothing
<1>4. Sound(s)
  BY <1>1, <1>3 DEF Sound
<1>5. \A x \in Request \ {r} : ~Shipping(x)
  BY <1>1 DEF IInv, OneShips, Shipping
<1>6. request' = [request EXCEPT ![r] = s] /\ UNCHANGED <<quotation, order, shipment, sale>>
  BY DEF ShipCount
<1> HIDE DEF s
<1> QED
  BY <1>1, <1>2, <1>4, <1>5, <1>6, MoveKeeps DEF TypeOK
-----------------------------------------------------------------------------
(* The shipment commits: nobody else ships, and the status it has counted  *)
(* is still that of the items.                                             *)
LEMMA ShipWriteKeeps ==
  ASSUME IInv, NEW r \in Request, ShipWrite(r)
  PROVE  IInv'
<1> DEFINE q == request[r]
<1> DEFINE row == [order[q.order] EXCEPT !.status = Refreshed(order[q.order].status, q.status),
                                         !.shipped = WithTaken(q.order, q.taken)]
<1> DEFINE sent == [order |-> q.order, sent |-> q.taken]
<1>1. q.pc = "counted" /\ Sound(q) /\ TypeOK /\ q.order \in Order /\ Present(q.order)
      /\ q.taken \in Quantities /\ q.status \in OpenStatus
  BY Locals DEF ShipWrite, IInv, Sound, Idle
<1>2. order[q.order] \in OrderRow /\ \A i \in Item : order[q.order].shipped[i] \in Nat
  BY <1>1, Rows
<1>3. WithTaken(q.order, q.taken) \in Quantities
  BY <1>1, <1>2 DEF WithTaken, Quantities
<1>4. Refreshed(order[q.order].status, q.status) \in OpenStatus \cup {"INVOICED", "CANCELLED"}
  BY <1>1, <1>2 DEF Refreshed, OrderRow
<1>5. row \in OrderRow
  BY <1>2, <1>3, <1>4 DEF OrderRow
<1>6. /\ row.qty = order[q.order].qty /\ row.shipped = WithTaken(q.order, q.taken)
      /\ row.status = Refreshed(order[q.order].status, q.status)
  BY <1>2 DEF OrderRow
<1> HIDE DEF row
<1>7. /\ order' = [order EXCEPT ![q.order] = row]
      /\ shipment' = Append(shipment, sent) /\ Done(r) /\ UNCHANGED <<quotation, sale>>
  BY DEF ShipWrite, row
<1>8. order'[q.order] = row /\ \A o \in Order : o # q.order => order'[o] = order[o]
  BY <1>1, <1>7 DEF TypeOK
<1>9. /\ request' \in [Request -> RequestStates] /\ request'[r] = Idle
      /\ \A x \in Request : x # r => request'[x] = request[x]
  BY <1>1, <1>7, Finishes
<1>10. sent \in ShipmentRow
  BY <1>1 DEF ShipmentRow
<1>11. shipment' \in Seq(ShipmentRow) /\ Len(shipment') = Len(shipment) + 1
  BY <1>1, <1>7, <1>10, AppendProperties DEF TypeOK
<1>12. TypeOK'
  BY <1>1, <1>5, <1>7, <1>9, <1>11 DEF TypeOK
<1>13. \A x \in Request : x # r => ~Shipping(x)
  BY <1>1 DEF IInv, OneShips, Shipping
<1>14. OneShips'
  BY <1>9, <1>13 DEF OneShips, Shipping, Idle
<1>15. row # Absent
  BY <1>5 DEF OrderRow, Absent, OpenStatus
<1>16. \A o \in Order : Present(o) => Present(o)'
  BY <1>8, <1>15 DEF Present
<1>17. ASSUME NEW x \in Request PROVE Sound(request[x])'
  <2>1. CASE x = r
    <3>1. Sound(Idle)'
      BY DEF Sound, Idle
    <3> QED
      BY <1>9, <2>1, <3>1 DEF Sound
  <2>2. CASE x # r
    <3>1. request'[x] = request[x] /\ Sound(request[x]) /\ request[x].pc \notin {"taking", "counted"}
      BY <1>9, <1>13, <2>2 DEF IInv, Shipping
    <3>2. request[x].pc = "inserting" => request[x].number \in Nat
      BY <1>1, Locals
    <3>3. Len(shipment) \in Nat
      BY <1>1, Length
    <3> QED
      BY <1>11, <1>16, <3>1, <3>2, <3>3 DEF Sound
  <2> QED
    BY <2>1, <2>2
<1>18. \A i \in Item : row.shipped[i] = order[q.order].shipped[i] + q.taken[i]
  BY <1>6 DEF WithTaken
<1>19. OrdersFit'
  <2>1. \A i \in Item : row.shipped[i] <= row.qty[i]
    BY <1>1, <1>6, <1>18 DEF Sound
  <2> QED
    BY <1>8, <2>1 DEF IInv, OrdersFit, Present
<1>20. StatusFollowsShipments'
  <2>1. \E i \in Item : row.shipped[i] > 0
    <3>1. PICK i \in Item : q.taken[i] > 0
      BY <1>1 DEF Sound
    <3>2. order[q.order].shipped[i] \in Nat /\ q.taken[i] \in Nat
      BY <1>1, <1>2 DEF Quantities
    <3>3. row.shipped[i] > 0
      BY <1>18, <3>1, <3>2
    <3> QED
      BY <3>3
  <2>2. row.status \in OpenStatus => row.status = ShipStatus(row.qty, row.shipped)
    <3>1. q.status = ShipStatus(row.qty, row.shipped)
      BY <1>1, <1>6 DEF Sound
    <3> QED
      BY <1>6, <3>1 DEF Refreshed, OpenStatus
  <2>3. ASSUME NEW o \in Order, Present(o)', order'[o].status \in OpenStatus
        PROVE  IF \E i \in Item : order'[o].shipped[i] > 0
               THEN order'[o].status = ShipStatus(order'[o].qty, order'[o].shipped)
               ELSE order'[o].status \in {"PENDING", "CONFIRMED"}
    <3>1. CASE o = q.order
      BY <1>8, <2>1, <2>2, <2>3, <3>1
    <3>2. CASE o # q.order
      <4>1. order'[o] = order[o] /\ Present(o)
        BY <1>8, <2>3, <3>2 DEF Present
      <4> QED
        BY <2>3, <4>1 DEF IInv, StatusFollowsShipments, Present
    <3> QED
      BY <3>1, <3>2
  <2> QED
    BY <2>3 DEF StatusFollowsShipments, Present, ShipStatus
<1> QED
  BY <1>12, <1>14, <1>17, <1>19, <1>20 DEF IInv

LEMMA InvoiceReadKeeps ==
  ASSUME IInv, NEW r \in Request, NEW o \in Order, InvoiceRead(r, o)
  PROVE  IInv'
<1> DEFINE s == [pc |-> "invoicing", order |-> o]
<1>1. s \in RequestStates /\ Sound(s)
  BY DEF InvoiceRead, RequestStates, Sound, Present
<1> QED
  BY <1>1, MoveKeeps DEF InvoiceRead, IInv, TypeOK

LEMMA InvoiceSellKeeps ==
  ASSUME IInv, NEW r \in Request, NEW t \in Sale, InvoiceSell(r, t)
  PROVE  IInv'
<1> DEFINE s == [pc |-> "sold", order |-> request[r].order, sale |-> t]
<1>1. TypeOK /\ request[r].pc = "invoicing" /\ request[r] # Idle /\ Sound(request[r])
  BY DEF InvoiceSell, IInv, Idle
<1>2. s \in RequestStates /\ Sound(s)
  BY <1>1, Locals DEF RequestStates, Sound
<1>3. sale' \in [Sale -> Order \cup {NoOrder}]
  BY <1>1, Locals DEF InvoiceSell, TypeOK
<1>4. request' = [request EXCEPT ![r] = s] /\ UNCHANGED <<quotation, order, shipment>>
  BY DEF InvoiceSell
<1> QED
  BY <1>2, <1>3, <1>4, MoveKeeps

LEMMA InvoiceMarkKeeps ==
  ASSUME IInv, NEW r \in Request, InvoiceMark(r)
  PROVE  IInv'
<1> DEFINE q == request[r]
<1> DEFINE row == [order[q.order] EXCEPT !.status = "INVOICED", !.sale = q.sale]
<1>1. q.pc = "sold" /\ TypeOK /\ q.order \in Order /\ Present(q.order) /\ q.sale \in Sale
      /\ Done(r) /\ UNCHANGED <<quotation, shipment, sale>>
  BY Locals DEF InvoiceMark, IInv, Sound, Idle
<1>2. CASE order[q.order].status = "INVOICED"
  BY <1>1, <1>2, AbortKeeps DEF InvoiceMark
<1>3. CASE order[q.order].status # "INVOICED"
  <2>1. order[q.order] \in OrderRow
    BY <1>1, Rows
  <2>2. row \in OrderRow
    BY <1>1, <2>1 DEF OrderRow
  <2>3. row.status = "INVOICED" /\ row.qty = order[q.order].qty
        /\ row.shipped = order[q.order].shipped /\ row # Absent
    BY <2>1 DEF OrderRow, Absent
  <2> HIDE DEF row
  <2>4. order' = [order EXCEPT ![q.order] = row]
    BY <1>3 DEF InvoiceMark, row
  <2>5. order'[q.order] = row /\ \A o \in Order : o # q.order => order'[o] = order[o]
    BY <1>1, <2>4 DEF TypeOK
  <2>6. /\ request' \in [Request -> RequestStates] /\ request'[r] = Idle
        /\ \A x \in Request : x # r => request'[x] = request[x]
    BY <1>1, Finishes
  <2>7. TypeOK'
    BY <1>1, <2>2, <2>4, <2>6 DEF TypeOK
  <2>8. ItemsKept
    BY <2>3, <2>5 DEF ItemsKept, Present
  <2>9. ASSUME NEW x \in Request PROVE Sound(request[x])'
    <3>1. CASE x = r
      <4>1. Sound(Idle)'
        BY DEF Sound, Idle
      <4> QED
        BY <2>6, <3>1, <4>1 DEF Sound
    <3>2. CASE x # r
      BY <1>1, <2>6, <2>8, <3>2, SoundKept DEF IInv
    <3> QED
      BY <3>1, <3>2
  <2>10. OneShips'
    BY <2>6 DEF IInv, OneShips, Shipping, Idle
  <2>11. OrdersFit'
    BY <1>1, <2>3, <2>5 DEF IInv, OrdersFit, Present
  <2>12. StatusFollowsShipments'
    BY <2>3, <2>5 DEF IInv, StatusFollowsShipments, OpenStatus
  <2> QED
    BY <2>7, <2>9, <2>10, <2>11, <2>12 DEF IInv
<1> QED
  BY <1>2, <1>3
-----------------------------------------------------------------------------
LEMMA NextKeeps == ASSUME IInv, [Next]_vars PROVE IInv'
<1>1. CASE Office
  BY <1>1, OfficeStepKeeps
<1>2. ASSUME NEW r \in Request, Step(r) PROVE IInv'
  BY <1>2, ShipReadKeeps, ShipNumberKeeps, ShipInsertKeeps, ShipTakeKeeps, ShipCountKeeps,
     ShipWriteKeeps, InvoiceReadKeeps, InvoiceSellKeeps, InvoiceMarkKeeps, AbortKeeps
     DEF Step, Abort
<1>3. CASE UNCHANGED vars
  BY <1>3, OfficeKeeps DEF vars, IInv, TypeOK, ItemsKept, Present, OrdersFit, StatusFollowsShipments
<1> QED
  BY <1>1, <1>2, <1>3 DEF Next

LEMMA Invariance == Spec => []IInv
BY InitHolds, NextKeeps, PTL DEF Spec

(* Type correctness for any instance: rows and locals are of their types   *)
(* and no quantity is negative.                                            *)
THEOREM TypeCorrect == Spec => []TypeOK
BY Invariance, PTL DEF IInv

(* For any number of overlapping shipments, invoices and cancellations the *)
(* status of an open order is the one its shipped quantities give.         *)
THEOREM StatusFollowsAlways == Spec => []StatusFollowsShipments
BY Invariance, PTL DEF IInv

(* Nothing is shipped beyond what was ordered, for any quantities.         *)
THEOREM NeverOverShipped == Spec => []OrdersFit
BY Invariance, PTL DEF IInv

-----------------------------------------------------------------------------
(* That what is shipped is what was sent needs one thing more: a shipment  *)
(* is never of an order that does not exist yet, or a new order would      *)
(* start with something sent.                                              *)
ShipmentsHaveOrders == \A n \in DOMAIN shipment : Present(shipment[n].order)

SentIInv == ShipmentsHaveOrders /\ ShippedIsSent

LEMMA Shipments ==
  ASSUME TypeOK
  PROVE  /\ DOMAIN shipment = 1 .. Len(shipment) /\ Len(shipment) \in Nat
         /\ IsFiniteSet(DOMAIN shipment)
         /\ \A n \in DOMAIN shipment : shipment[n] \in ShipmentRow
         /\ \A n \in DOMAIN shipment, o \in Order, i \in Item : Portion(n, o, i) \in Nat
<1>1. DOMAIN shipment = 1 .. Len(shipment) /\ Len(shipment) \in Nat
      /\ \A n \in DOMAIN shipment : shipment[n] \in ShipmentRow
  BY LenProperties, ElementOfSeq DEF TypeOK
<1>2. IsFiniteSet(1 .. Len(shipment))
  BY <1>1, FS_Interval
<1>3. \A n \in DOMAIN shipment, o \in Order, i \in Item : Portion(n, o, i) \in Nat
  BY <1>1 DEF Portion, ShipmentRow, Quantities
<1> QED
  BY <1>1, <1>2, <1>3

(* A shipment adds what it sent to what was sent of its order.             *)
LEMMA SentGrows ==
  ASSUME TypeOK, NEW row \in ShipmentRow, shipment' = Append(shipment, row),
         NEW o \in Order, NEW i \in Item
  PROVE  SentOf(o, i)' = SentOf(o, i) + (IF row.order = o THEN row.sent[i] ELSE 0)
<1> DEFINE N == 1 .. Len(shipment)
           new == Len(shipment) + 1
           f == [n \in DOMAIN shipment |-> Portion(n, o, i)]
           g == [n \in DOMAIN shipment' |-> Portion(n, o, i)']
<1>1. /\ DOMAIN shipment' = N \cup {new} /\ new \notin N /\ DOMAIN shipment = N
      /\ IsFiniteSet(N)
      /\ shipment'[new] = row
      /\ \A n \in N : shipment'[n] = shipment[n]
  <2>1. /\ DOMAIN shipment' = 1 .. Len(shipment') /\ Len(shipment') = Len(shipment) + 1
        /\ shipment'[Len(shipment) + 1] = row
        /\ \A n \in 1 .. Len(shipment) : shipment'[n] = shipment[n]
    BY AppendProperties, LenProperties DEF TypeOK
  <2>2. Len(shipment) \in Nat /\ DOMAIN shipment = N /\ IsFiniteSet(N)
    BY Shipments
  <2> QED
    BY <2>1, <2>2
<1>2. \A n \in N : f[n] \in Nat /\ g[n] = f[n]
  BY <1>1, Shipments DEF Portion
<1>3. g[new] = (IF row.order = o THEN row.sent[i] ELSE 0) /\ g[new] \in Nat
  BY <1>1 DEF Portion, ShipmentRow, Quantities
<1>4. SentOf(o, i) = SumFunctionOnSet(f, N)
  BY <1>1 DEF SentOf
<1>5. SentOf(o, i)' = SumFunctionOnSet(g, N \cup {new})
  BY <1>1 DEF SentOf
<1> HIDE DEF f, g, N, new
<1>6. SumFunctionOnSet(g, N \cup {new}) = g[new] + SumFunctionOnSet(g, N)
  BY <1>1, <1>2, <1>3, SumAdd
<1>7. SumFunctionOnSet(g, N) = SumFunctionOnSet(f, N)
  BY <1>1, <1>2, SumSame
<1>8. SumFunctionOnSet(f, N) \in Int
  BY <1>1, <1>2, SumInt
<1> QED
  BY <1>3, <1>4, <1>5, <1>6, <1>7, <1>8

LEMMA ShipWriteKeepsSent ==
  ASSUME IInv, SentIInv, OrdersFit', NEW r \in Request, ShipWrite(r)
  PROVE  SentIInv'
<1> DEFINE q == request[r]
           row == [order |-> q.order, sent |-> q.taken]
<1>1. q.pc = "counted" /\ TypeOK /\ q.order \in Order /\ Present(q.order)
      /\ q.taken \in Quantities
  BY Locals DEF ShipWrite, IInv, Sound, Idle
<1>2. order[q.order] \in OrderRow /\ \A i \in Item : order[q.order].shipped[i] \in Nat
  BY <1>1, Rows
<1>3. shipment' = Append(shipment, row) /\ row \in ShipmentRow
  BY <1>1 DEF ShipWrite, ShipmentRow
<1>4. /\ \A o \in Order : o # q.order => order'[o] = order[o]
      /\ order'[q.order].shipped = WithTaken(q.order, q.taken)
      /\ order'[q.order] # Absent
  <2> DEFINE new == [order[q.order] EXCEPT !.status = Refreshed(order[q.order].status, q.status),
                                           !.shipped = WithTaken(q.order, q.taken)]
  <2>1. order' = [order EXCEPT ![q.order] = new]
    BY DEF ShipWrite
  <2>2. new.shipped = WithTaken(q.order, q.taken) /\ new # Absent
    BY <1>2 DEF OrderRow, Absent
  <2> HIDE DEF new, q
  <2> QED
    BY <1>1, <2>1, <2>2 DEF TypeOK
<1>5. ShipmentsHaveOrders'
  <2>1. \A n \in DOMAIN shipment' : shipment'[n] = row \/ (n \in DOMAIN shipment /\ shipment'[n] = shipment[n])
    BY <1>1, <1>3, AppendProperties, LenProperties, Shipments DEF TypeOK
  <2>2. \A n \in DOMAIN shipment : Present(shipment[n].order) /\ shipment[n].order \in Order
    BY <1>1, Shipments DEF SentIInv, ShipmentsHaveOrders, ShipmentRow
  <2>3. \A o \in Order : Present(o) => order'[o] # Absent
    BY <1>4 DEF Present
  <2>4. ASSUME NEW n \in DOMAIN shipment' PROVE order'[shipment'[n].order] # Absent
    <3>1. CASE shipment'[n] = row
      BY <1>1, <2>3, <3>1
    <3>2. CASE n \in DOMAIN shipment /\ shipment'[n] = shipment[n]
      BY <2>2, <2>3, <3>2
    <3> QED
      BY <2>1, <3>1, <3>2
  <2> QED
    BY <2>4 DEF ShipmentsHaveOrders, Present
<1>6. ASSUME NEW o \in Order, Present(o)', NEW i \in Item
      PROVE  order'[o].shipped[i] = SentOf(o, i)'
  <2>1. SentOf(o, i)' = SentOf(o, i) + (IF q.order = o THEN q.taken[i] ELSE 0)
    <3>1. row.order = q.order /\ row.sent = q.taken
      OBVIOUS
    <3> HIDE DEF row
    <3> QED
      BY <1>1, <1>3, <3>1, SentGrows
  <2>2. Present(o) /\ order[o].shipped[i] = SentOf(o, i) /\ order[o].shipped[i] \in Nat
    <3>1. Present(o)
      BY <1>1, <1>4, <1>6 DEF Present
    <3> QED
      BY <1>1, <3>1, Rows DEF SentIInv, ShippedIsSent, Present
  <2>3. CASE o = q.order
    BY <1>4, <2>1, <2>2, <2>3 DEF WithTaken
  <2>4. CASE o # q.order
    BY <1>4, <2>1, <2>2, <2>4
  <2> QED
    BY <2>3, <2>4
<1> QED
  BY <1>5, <1>6 DEF SentIInv, ShippedIsSent, OrdersFit, Present

(* Every other step leaves the shipments, and an order it creates has      *)
(* shipped nothing.                                                        *)
LEMMA RestKeepsSent ==
  ASSUME IInv, SentIInv, OrdersFit', UNCHANGED shipment,
         \A o \in Order :
           IF Present(o) THEN Present(o)' /\ order'[o].shipped = order[o].shipped
           ELSE Present(o)' => order'[o].shipped = Nothing
  PROVE  SentIInv'
<1>1. \A n \in DOMAIN shipment : shipment[n].order \in Order
  BY Shipments DEF IInv, ShipmentRow
<1>2. ShipmentsHaveOrders'
  BY <1>1 DEF SentIInv, ShipmentsHaveOrders
<1>3. ASSUME NEW o \in Order, Present(o)', NEW i \in Item
      PROVE  order'[o].shipped[i] = SentOf(o, i)'
  <2>1. SentOf(o, i)' = SentOf(o, i)
    BY DEF SentOf, Portion
  <2>2. CASE Present(o)
    BY <2>1, <2>2 DEF SentIInv, ShippedIsSent, Present
  <2>3. CASE ~Present(o)
    <3> DEFINE f == [n \in DOMAIN shipment |-> Portion(n, o, i)]
    <3>1. \A n \in DOMAIN shipment : f[n] = 0
      BY <2>3 DEF SentIInv, ShipmentsHaveOrders, Portion
    <3>2. SumFunctionOnSet(f, DOMAIN shipment) = 0
      <4> HIDE DEF f
      <4> QED
        BY <3>1, Shipments, SumZero DEF IInv
    <3>3. order'[o].shipped[i] = 0
      BY <1>3, <2>3 DEF Nothing
    <3> QED
      BY <2>1, <3>2, <3>3 DEF SentOf
  <2> QED
    BY <2>2, <2>3
<1> QED
  BY <1>2, <1>3 DEF SentIInv, ShippedIsSent, OrdersFit, Present

LEMMA SentKept == IInv /\ SentIInv /\ [Next]_vars => SentIInv'
<1> SUFFICES ASSUME IInv, SentIInv, [Next]_vars PROVE SentIInv'
  OBVIOUS
<1> DEFINE ItemsStay ==
      \A o \in Order :
        IF Present(o) THEN Present(o)' /\ order'[o].shipped = order[o].shipped
        ELSE Present(o)' => order'[o].shipped = Nothing
<1>1. TypeOK /\ TypeOK' /\ OrdersFit'
  BY NextKeeps DEF IInv
<1>2. UNCHANGED order => ItemsStay
  BY DEF Present
<1>3. ASSUME NEW p \in Order, NEW status \in OpenStatus, NEW q, NEW qty, NewOrder(p, status, q, qty)
      PROVE  ItemsStay
  BY <1>1, <1>3 DEF NewOrder, TypeOK, Present, Absent, OpenStatus
<1>4. ASSUME NEW p \in Order, Cancel(p) PROVE ItemsStay
  BY <1>1, <1>4 DEF Cancel, TypeOK, Present, Absent, OrderRow
<1>5. ASSUME NEW r \in Request, InvoiceMark(r) PROVE ItemsStay
  <2>1. PICK p \in Order : p = request[r].order
    BY <1>1, <1>5, Locals DEF InvoiceMark
  <2>2. order' = order \/ order' = [order EXCEPT ![p] = [@ EXCEPT !.status = "INVOICED",
                                                                  !.sale = request[r].sale]]
    BY <1>5, <2>1 DEF InvoiceMark
  <2>3. CASE order' # order
    <3>1. /\ \A o \in Order : o # p => order'[o] = order[o]
          /\ order'[p] = [order[p] EXCEPT !.status = "INVOICED", !.sale = request[r].sale]
      BY <1>1, <2>2, <2>3 DEF TypeOK
    <3>2. Present(p)
      BY <1>1, <2>1, <1>5, Locals DEF InvoiceMark, IInv, Sound, Idle
    <3>3. order[p] \in OrderRow
      BY <1>1, <3>2, Rows
    <3>4. order'[p] # Absent /\ order'[p].shipped = order[p].shipped
      BY <3>1, <3>3 DEF OrderRow, Absent
    <3> QED
      BY <3>1, <3>2, <3>4 DEF Present
  <2> QED
    BY <1>2, <2>3
<1>6. ASSUME ItemsStay, UNCHANGED shipment PROVE SentIInv'
  BY <1>1, <1>6, RestKeepsSent
<1> HIDE DEF ItemsStay
<1>7. CASE Office
  <2>1. "PENDING" \in OpenStatus /\ "CONFIRMED" \in OpenStatus
    BY DEF OpenStatus
  <2> QED
    BY <1>2, <1>3, <1>4, <1>6, <1>7, <2>1 DEF Office, CreateQuotation, Convert, ShopOrder, Cancel
<1>8. ASSUME NEW r \in Request, Step(r) PROVE SentIInv'
  <2>1. CASE ShipWrite(r)
    BY <1>1, <2>1, ShipWriteKeepsSent
  <2>2. CASE InvoiceMark(r)
    BY <1>5, <1>6, <2>2 DEF InvoiceMark
  <2>3. CASE ~ShipWrite(r) /\ ~InvoiceMark(r)
    BY <1>2, <1>6, <1>8, <2>3 DEF Step, ShipRead, ShipNumber, ShipInsert, ShipTake, ShipCount,
       InvoiceRead, InvoiceSell, Abort
  <2> QED
    BY <2>1, <2>2, <2>3
<1> QED
  BY <1>2, <1>6, <1>7, <1>8 DEF Next, vars

LEMMA InitSent == Init => SentIInv
BY DEF Init, SentIInv, ShipmentsHaveOrders, ShippedIsSent

(* Whatever shipments overlap, fail or are rolled back, what an order has  *)
(* shipped of an item is the sum of what its shipments sent, and at most   *)
(* what was ordered.                                                       *)
THEOREM ShippedIsSentAlways == Spec => []ShippedIsSent
<1>1. Init => SentIInv
  BY InitSent
<1>2. SentIInv => ShippedIsSent
  BY DEF SentIInv
<1> QED
  BY <1>1, <1>2, SentKept, Invariance, PTL DEF Spec
-----------------------------------------------------------------------------
(* One step of the chain keeps an invoiced order and its sale.             *)
LEMMA StepKeepsInvoice ==
  ASSUME TypeOK, [Next]_vars, NEW o \in Order, order[o].status = "INVOICED"
  PROVE  order'[o].status \in {"INVOICED", "CANCELLED"} /\ order'[o].sale = order[o].sale
<1>1. order[o] # Absent /\ order[o] \in OrderRow
  BY DEF TypeOK, Absent
<1>2. ASSUME NEW p \in Order, NEW status, NEW q, NEW qty, NewOrder(p, status, q, qty)
      PROVE  order'[o] = order[o]
  BY <1>1, <1>2 DEF NewOrder, TypeOK
<1>3. CASE Office
  <2>1. CASE \E p \in Order : Cancel(p)
    BY <1>1, <2>1 DEF Cancel, TypeOK, OrderRow
  <2>2. CASE ~\E p \in Order : Cancel(p)
    BY <1>2, <1>3, <2>2 DEF Office, CreateQuotation, Convert, ShopOrder
  <2> QED
    BY <2>1, <2>2
<1>4. ASSUME NEW r \in Request, Step(r)
      PROVE  order'[o].status \in {"INVOICED", "CANCELLED"} /\ order'[o].sale = order[o].sale
  <2>1. CASE ShipWrite(r)
    BY <1>1, <2>1 DEF ShipWrite, Refreshed, TypeOK, OrderRow
  <2>2. CASE InvoiceMark(r)
    BY <1>1, <2>2 DEF InvoiceMark, TypeOK, OrderRow
  <2>3. CASE ~ShipWrite(r) /\ ~InvoiceMark(r)
    BY <1>4, <2>3 DEF Step, ShipRead, ShipNumber, ShipInsert, ShipTake, ShipCount,
       InvoiceRead, InvoiceSell, Abort
  <2> QED
    BY <2>1, <2>2, <2>3
<1> QED
  BY <1>3, <1>4 DEF Next, vars

(* Whatever shipment or second invoice was under way, an invoiced order    *)
(* keeps its sale and its status until the office cancels it.              *)
THEOREM InvoicedIsKeptAlways == Spec => InvoicedIsKept
<1>1. TypeOK /\ [Next]_vars =>
        [\A o \in Order : order[o].status = "INVOICED" =>
           /\ order'[o].status \in {"INVOICED", "CANCELLED"}
           /\ order'[o].sale = order[o].sale]_vars
  BY StepKeepsInvoice
<1> QED
  BY <1>1, TypeCorrect, PTL DEF Spec, InvoicedIsKept
=============================================================================
