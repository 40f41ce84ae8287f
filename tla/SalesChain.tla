----------------------------- MODULE SalesChain -----------------------------
(***************************************************************************)
(* The sales chain (SalesChainService): a quotation becomes an order, an   *)
(* order is shipped in parts and becomes an invoice.                       *)
(*                                                                         *)
(* createShipment is one transaction: it numbers the shipment, inserts it, *)
(* raises shippedQty item by item and computes the status of the order.    *)
(* What it has not committed is held in request; the unique key on the     *)
(* number and the locks of the item rows make others wait for it.          *)
(* invoiceOrder is three transactions: it reads the order, SalesService    *)
(* creates the sale (Sales), and the order is marked.                      *)
(*                                                                         *)
(* Data abstraction: one company; prices, customers, carriers and the      *)
(* status of a shipment itself are left out; the items of an order are a   *)
(* quantity per item, 0 for an item it does not have.                      *)
(***************************************************************************)
EXTENDS FiniteSetsExt, Integers, Sequences

CONSTANTS Quotation,    \* ids of quotations
          Order,        \* ids of sales orders
          Sale,         \* ids of invoices
          NoQuotation,  \* quotationId is null
          NoSale,       \* saleId is null
          Item,         \* the items of orders
          Request,      \* concurrent requests
          MaxQty,       \* bound: the largest quantity of a request
          MaxShipments  \* bound: the number of shipments

ASSUME SalesChainConstants ==
  MaxQty \in Nat /\ MaxShipments \in Nat /\ NoQuotation \notin Quotation /\ NoSale \notin Sale

VARIABLES quotation, \* Quotation rows
          order,     \* SalesOrder rows with their items
          shipment,  \* Shipment rows with their items, by number
          sale,      \* the order each sale was created for
          request    \* the requests and their locals

vars == <<quotation, order, shipment, sale, request>>

Absent == [status |-> "NONE"]
Idle == [pc |-> "idle"]
NoOrder == "none"

Quantities == [Item -> Nat]
Wanted == [Item -> 0 .. MaxQty]
Nothing == [i \in Item |-> 0]

QuotationRow == [status : {"DRAFT", "CONVERTED"}, expired : BOOLEAN, qty : Wanted]

OpenStatus == {"PENDING", "CONFIRMED", "PARTIALLY_SHIPPED", "SHIPPED"}

OrderRow ==
  [status : OpenStatus \cup {"INVOICED", "CANCELLED"}, quotation : Quotation \cup {NoQuotation},
   sale : Sale \cup {NoSale}, qty : Quantities, shipped : Quantities]

ShipmentRow == [order : Order, sent : Quantities]

RequestStates ==
  [pc : {"numbering"}, order : Order, todo : Quantities]
  \cup [pc : {"inserting"}, order : Order, todo : Quantities, number : Nat]
  \cup [pc : {"taking"}, order : Order, todo : Quantities, taken : Quantities, number : Nat]
  \cup [pc : {"counted"}, order : Order, todo : Quantities, taken : Quantities, number : Nat,
        status : OpenStatus]
  \cup [pc : {"invoicing"}, order : Order]
  \cup [pc : {"sold"}, order : Order, sale : Sale]
  \cup {Idle}

TypeOK ==
  /\ quotation \in [Quotation -> QuotationRow \cup {Absent}]
  /\ order \in [Order -> OrderRow \cup {Absent}]
  /\ shipment \in Seq(ShipmentRow)
  /\ sale \in [Sale -> Order \cup {NoOrder}]
  /\ request \in [Request -> RequestStates]

Init ==
  /\ quotation = [q \in Quotation |-> Absent]
  /\ order = [o \in Order |-> Absent]
  /\ shipment = << >>
  /\ sale = [s \in Sale |-> NoOrder]
  /\ request = [r \in Request |-> Idle]
-----------------------------------------------------------------------------
Done(r) == request' = [request EXCEPT ![r] = Idle]

CreateQuotation(q, qty, expired) ==
  /\ quotation[q] = Absent /\ qty # Nothing
  /\ quotation' = [quotation EXCEPT ![q] = [status |-> "DRAFT", expired |-> expired, qty |-> qty]]
  /\ UNCHANGED <<order, shipment, sale, request>>

NewOrder(o, status, q, qty) ==
  /\ order[o] = Absent
  /\ order' = [order EXCEPT ![o] = [status |-> status, quotation |-> q, sale |-> NoSale,
                                    qty |-> qty, shipped |-> Nothing]]

\* convertQuotationToOrder: the conditional UPDATE decides.
Convert(q, o) ==
  /\ quotation[q].status = "DRAFT" /\ ~quotation[q].expired
  /\ quotation' = [quotation EXCEPT ![q].status = "CONVERTED"]
  /\ NewOrder(o, "PENDING", q, quotation[q].qty)
  /\ UNCHANGED <<shipment, sale, request>>

\* confirmOrder of the web shop makes a confirmed order of the basket.
ShopOrder(o, qty) ==
  /\ qty # Nothing
  /\ NewOrder(o, "CONFIRMED", NoQuotation, qty)
  /\ UNCHANGED <<quotation, shipment, sale, request>>

\* The office cancels an order by an update of its row (SalesOrdersService).
Cancel(o) ==
  /\ order[o] # Absent
  /\ order' = [order EXCEPT ![o].status = "CANCELLED"]
  /\ UNCHANGED <<quotation, shipment, sale, request>>
-----------------------------------------------------------------------------
Shipping(r) == request[r].pc \in {"taking", "counted"}

ShipRead(r, o, todo) ==
  /\ request[r] = Idle /\ todo # Nothing
  /\ order[o] # Absent /\ order[o].status \notin {"CANCELLED", "INVOICED"}
  /\ request' = [request EXCEPT ![r] = [pc |-> "numbering", order |-> o, todo |-> todo]]
  /\ UNCHANGED <<quotation, order, shipment, sale>>

\* nextNo: the largest committed number and one.
ShipNumber(r) ==
  LET q == request[r] IN
  /\ q.pc = "numbering" /\ Len(shipment) < MaxShipments
  /\ request' = [request EXCEPT ![r] = [pc |-> "inserting", order |-> q.order, todo |-> q.todo,
                                        number |-> Len(shipment) + 1]]
  /\ UNCHANGED <<quotation, order, shipment, sale>>

\* Mutant: Shipment_company_no_key does not exist.
NumberFreeAlways(r, n) == TRUE

\* Shipment_company_no_key: who inserts a number waits for the other that has.
NumberFree(r, n) == \A x \in Request \ {r} : Shipping(x) => request[x].number # n

ShipInsert(r) ==
  LET q == request[r] IN
  /\ q.pc = "inserting" /\ NumberFree(r, q.number)
  /\ IF q.number <= Len(shipment)
     THEN Done(r)
     ELSE request' = [request EXCEPT ![r] = [pc |-> "taking", order |-> q.order, todo |-> q.todo,
                                             taken |-> Nothing, number |-> q.number]]
  /\ UNCHANGED <<quotation, order, shipment, sale>>

\* Another shipment has raised the item and not committed.
ItemLocked(r, o, i) ==
  \E x \in Request \ {r} : Shipping(x) /\ request[x].order = o /\ request[x].taken[i] > 0

\* Mutant: SalesOrderItem_shipped_chk does not exist.
AnyQuantity(o, i, shipped) == TRUE

\* SalesOrderItem_shipped_chk
WithinOrder(o, i, shipped) == shipped <= order[o].qty[i]

\* The UPDATE of one item; too much, or no such item, rolls all back.
ShipTake(r, i) ==
  LET q == request[r] IN
  /\ q.pc = "taking" /\ q.todo[i] > 0 /\ ~ItemLocked(r, q.order, i)
  /\ IF WithinOrder(q.order, i, order[q.order].shipped[i] + q.todo[i])
     THEN request' = [request EXCEPT ![r] = [q EXCEPT !.todo[i] = 0, !.taken[i] = q.todo[i]]]
     ELSE Done(r)
  /\ UNCHANGED <<quotation, order, shipment, sale>>

ShipStatus(qty, shipped) ==
  IF \A i \in Item : shipped[i] >= qty[i] THEN "SHIPPED"
  ELSE IF \E i \in Item : shipped[i] > 0 THEN "PARTIALLY_SHIPPED"
  ELSE "CONFIRMED"

\* What the items of an order have shipped, with what the request took.
WithTaken(o, taken) == [i \in Item |-> order[o].shipped[i] + taken[i]]

\* refreshOrderShipStatus counts what is committed and what its transaction took.
ShipCount(r) ==
  LET q == request[r] IN
  /\ q.pc = "taking" /\ q.todo = Nothing
  /\ request' = [request EXCEPT ![r] =
       [pc |-> "counted", order |-> q.order, todo |-> q.todo, taken |-> q.taken, number |-> q.number,
        status |-> ShipStatus(order[q.order].qty, WithTaken(q.order, q.taken))]]
  /\ UNCHANGED <<quotation, order, shipment, sale>>

\* Mutant: only a cancelled order keeps its status.
RefreshedUnlessCancelled(old, new) == IF old = "CANCELLED" THEN old ELSE new

\* UPDATE ... WHERE status NOT IN ('INVOICED','CANCELLED')
Refreshed(old, new) == IF old \in {"INVOICED", "CANCELLED"} THEN old ELSE new

ShipWrite(r) ==
  LET q == request[r] IN
  /\ q.pc = "counted"
  /\ order' = [order EXCEPT ![q.order] =
       [@ EXCEPT !.status = Refreshed(order[q.order].status, q.status),
                 !.shipped = WithTaken(q.order, q.taken)]]
  /\ shipment' = Append(shipment, [order |-> q.order, sent |-> q.taken])
  /\ Done(r) /\ UNCHANGED <<quotation, sale>>
-----------------------------------------------------------------------------
InvoiceRead(r, o) ==
  /\ request[r] = Idle
  /\ order[o] # Absent /\ order[o].status \notin {"INVOICED", "CANCELLED"}
  /\ request' = [request EXCEPT ![r] = [pc |-> "invoicing", order |-> o]]
  /\ UNCHANGED <<quotation, order, shipment, sale>>

\* SalesService.create, in a transaction of its own.
InvoiceSell(r, s) ==
  /\ request[r].pc = "invoicing" /\ sale[s] = NoOrder
  /\ sale' = [sale EXCEPT ![s] = request[r].order]
  /\ request' = [request EXCEPT ![r] = [pc |-> "sold", order |-> request[r].order, sale |-> s]]
  /\ UNCHANGED <<quotation, order, shipment>>

\* UPDATE ... WHERE status <> 'INVOICED'
InvoiceMark(r) ==
  LET q == request[r] IN
  /\ q.pc = "sold"
  /\ order' = IF order[q.order].status = "INVOICED" THEN order
              ELSE [order EXCEPT ![q.order] = [@ EXCEPT !.status = "INVOICED", !.sale = q.sale]]
  /\ Done(r) /\ UNCHANGED <<quotation, shipment, sale>>

\* The process stops or an error ends the request: what is not committed is lost.
Abort(r) ==
  /\ request[r] # Idle
  /\ Done(r) /\ UNCHANGED <<quotation, order, shipment, sale>>
-----------------------------------------------------------------------------
Office ==
  \/ \E q \in Quotation, qty \in Wanted, expired \in BOOLEAN : CreateQuotation(q, qty, expired)
  \/ \E q \in Quotation, o \in Order : Convert(q, o)
  \/ \E o \in Order, qty \in Wanted : ShopOrder(o, qty)
  \/ \E o \in Order : Cancel(o)

Step(r) ==
  \/ \E o \in Order, todo \in Wanted : ShipRead(r, o, todo)
  \/ ShipNumber(r) \/ ShipInsert(r) \/ ShipCount(r) \/ ShipWrite(r)
  \/ \E i \in Item : ShipTake(r, i)
  \/ \E o \in Order : InvoiceRead(r, o)
  \/ \E s \in Sale : InvoiceSell(r, s)
  \/ InvoiceMark(r) \/ Abort(r)

Next == Office \/ \E r \in Request : Step(r)

Spec == Init /\ [][Next]_vars
-----------------------------------------------------------------------------
Portion(n, o, i) == IF shipment[n].order = o THEN shipment[n].sent[i] ELSE 0

SentOf(o, i) == SumFunctionOnSet([n \in DOMAIN shipment |-> Portion(n, o, i)], DOMAIN shipment)

(* What the items of an order have shipped is what its shipments sent, and *)
(* never more than was ordered, whatever overlaps or is rolled back.       *)
ShippedIsSent ==
  \A o \in Order : order[o] # Absent =>
    \A i \in Item :
      /\ order[o].shipped[i] <= order[o].qty[i]
      /\ order[o].shipped[i] = SentOf(o, i)

(* The status of an order that is neither invoiced nor cancelled says what *)
(* it has shipped: all, a part, or nothing.  refreshOrderShipStatus reads  *)
(* items other shipments may be raising; only their numbers keep two       *)
(* shipments from committing statuses that each miss the other's items.    *)
StatusFollowsShipments ==
  \A o \in Order : order[o] # Absent /\ order[o].status \in OpenStatus =>
    IF \E i \in Item : order[o].shipped[i] > 0
    THEN order[o].status = ShipStatus(order[o].qty, order[o].shipped)
    ELSE order[o].status \in {"PENDING", "CONFIRMED"}

(* An invoiced order keeps its sale, and no shipment that was under way    *)
(* gives it back a status of shipping; only the office cancels it.         *)
InvoicedIsKept ==
  [][\A o \in Order : order[o].status = "INVOICED" =>
       /\ order'[o].status \in {"INVOICED", "CANCELLED"}
       /\ order'[o].sale = order[o].sale]_vars

(* An order has at most one sale (invoiceOrder: the status is checked      *)
(* again so that two requests cannot make two invoices of one order).      *)
OneSalePerOrder ==
  \A s, t \in Sale : sale[s] # NoOrder /\ sale[s] = sale[t] => s = t

\* A cancelled order stays cancelled (invoiceOrder and createShipment refuse it).
CancelledStaysCancelled ==
  [][\A o \in Order : order[o].status = "CANCELLED" => order'[o].status = "CANCELLED"]_vars
=============================================================================
