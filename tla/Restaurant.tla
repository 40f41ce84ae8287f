----------------------------- MODULE Restaurant -----------------------------
(***************************************************************************)
(* An order of the restaurant from the table to the ledger:                *)
(* RestaurantService (create, add, remove, kitchen, settle, cancel),       *)
(* SelfOrderService.order (the guest's own order, with its cap) and the    *)
(* CashierShiftService whose count it enters.                              *)
(*                                                                         *)
(* Almost every handler reads the order with a plain SELECT, checks its    *)
(* status and writes afterwards, in statements or transactions that name   *)
(* the row and not its status.  The reads of a request before its first    *)
(* write are one step here; everything after them is a step of its own.    *)
(*                                                                         *)
(* Data abstraction: a dish is one unit of money, of cost and of           *)
(* ingredients; there is no discount, tax or tip, and the guest tenders    *)
(* what the cashier reads.                                                 *)
(***************************************************************************)
EXTENDS FiniteSetsExt, Integers

CONSTANTS RestaurantOrders, Tables, Slots, \* orders, tables, the dishes an order can hold
          Calls,              \* concurrent requests
          Shifts,                \* shifts of the one cashier of the one drawer
          NoShift,
          Marks,                 \* dish statuses the kitchen sets
          TableMarks,            \* table statuses the staff sets by hand
          Services,              \* service charge per dish of a waiter's order ...
          SelfService,           \* ... and of a guest's, from the self-order settings
          Cap,                   \* maxOrderAmount of the self-order settings
          LedgerOn               \* Company.ledgerEnabled

DishStatuses == {"PENDING", "PREPARING", "READY", "SERVED", "CANCELLED"}

ASSUME RestaurantConstants ==
  /\ Marks \subseteq DishStatuses /\ TableMarks \subseteq {"FREE", "CLEANING", "OUT_OF_SERVICE"}
  /\ IsFiniteSet(RestaurantOrders) /\ IsFiniteSet(Slots) /\ IsFiniteSet(Shifts)
  /\ Services \subseteq Nat /\ SelfService \in Nat /\ Cap \in Nat
  /\ LedgerOn \in BOOLEAN /\ NoShift \notin Shifts

VARIABLES order,    \* RestaurantOrder rows
          dish,     \* RestaurantOrderItem.status per order and slot
          table,    \* RestaurantTable.status
          shift,    \* CashierShift rows
          drawer,   \* CashBox.balance
          stock,    \* ingredients taken out of the warehouse
          revenue,  \* the posted 'RestaurantOrder' entry of an order, 0 for none
          cost,     \* the posted 'RestaurantCogs' entry of an order, 0 for none
          call   \* the requests and their locals

restaurantVars == <<order, dish, table, shift, drawer, stock, revenue, cost, call>>
money == <<drawer, stock, revenue, cost>>

Closed == {"PAID", "CANCELLED"}
OrderStatuses == {"OPEN", "IN_KITCHEN", "READY", "SERVED"} \cup Closed
Amounts == 0..Cardinality(Slots)
Rates == Services \cup {0, SelfService}
Charges == {k * rate : k \in Amounts, rate \in Rates}

Absent == [status |-> "none"]
NoCall == [pc |-> "idle"]
Doing(pc, o) == [pc |-> pc, order |-> o]

OrderRow == [status : OrderStatuses, self : BOOLEAN, table : Tables, subtotal : Amounts,
             service : Charges, paid : Nat, shift : Shifts \cup {NoShift}]

ShiftRow == [status : {"open"}] \cup [status : {"closed"}, expected : Nat] \cup {Absent}

CallStates ==
  [pc : {"creating"}, order : RestaurantOrders, table : Tables, service : Rates, self : BOOLEAN]
  \cup [pc : {"voiding", "recalc", "sending", "sent", "sync", "cancelling"},
        order : RestaurantOrders]
  \cup [pc : {"adding", "removing"}, order : RestaurantOrders, slot : Slots]
  \cup [pc : {"recalcWrite"}, order : RestaurantOrders, subtotal : Amounts, service : Charges]
  \cup [pc : {"syncWrite"}, order : RestaurantOrders, status : OrderStatuses]
  \cup [pc : {"settling"}, order : RestaurantOrders, subtotal : Amounts, service : Charges,
        used : Amounts, shift : Shifts \cup {NoShift}]
  \cup [pc : {"counted"}, shift : Shifts, cash : Nat]
  \cup {NoCall}

RestaurantTypeOK ==
  /\ order \in [RestaurantOrders -> OrderRow \cup {Absent}]
  /\ dish \in [RestaurantOrders -> [Slots -> DishStatuses \cup {"none"}]]
  /\ table \in [Tables -> {"FREE", "OCCUPIED", "CLEANING", "OUT_OF_SERVICE"}]
  /\ shift \in [Shifts -> ShiftRow]
  /\ drawer \in Nat /\ stock \in Nat
  /\ revenue \in [RestaurantOrders -> Nat] /\ cost \in [RestaurantOrders -> Amounts]
  /\ call \in [Calls -> CallStates]

RestaurantInit ==
  /\ order = [o \in RestaurantOrders |-> Absent]
  /\ dish = [o \in RestaurantOrders |-> [i \in Slots |-> "none"]]
  /\ table = [t \in Tables |-> "FREE"]
  /\ shift = [s \in Shifts |-> Absent]
  /\ drawer = 0 /\ stock = 0
  /\ revenue = [o \in RestaurantOrders |-> 0] /\ cost = [o \in RestaurantOrders |-> 0]
  /\ call = [r \in Calls |-> NoCall]
-----------------------------------------------------------------------------
Exists(o) == order[o] # Absent
IsOpen(o) == Exists(o) /\ order[o].status \notin Closed
Bill(row) == row.subtotal + row.service
Dishes(o) == {i \in Slots : dish[o][i] # "none"}
Active(o) == {i \in Dishes(o) : dish[o][i] # "CANCELLED"}

At(r, pc) == call[r].pc = pc
Goto(r, locals) == call' = [call EXCEPT ![r] = locals]
Done(r) == Goto(r, NoCall)
SetOrder(o, status) == order' = [order EXCEPT ![o].status = status]

OpenShift(s) == shift[s].status = "open"

\* consumeIngredients: the recipes of the dishes that were not cancelled.
Used(o) == Cardinality(Active(o))

\* Mutant: the table keeps its mark.
LeaveAsIs(t, status) == table

\* The party of a closed order leaves its table.
Leave(t, status) == [table EXCEPT ![t] = status]

\* CashierShiftService.current
CurrentShift == IF \E s \in Shifts : OpenShift(s) THEN CHOOSE s \in Shifts : OpenShift(s) ELSE NoShift
-----------------------------------------------------------------------------
(* createOrder, for a waiter or for a guest (SelfOrderService.order).  A    *)
(* guest's order over the cap is voided by an update of the order alone.    *)

CreateRead(r, o, t, service, self) ==
  /\ At(r, "idle") /\ ~Exists(o)
  /\ \A x \in Calls : At(x, "creating") => call[x].order # o
  /\ table[t] # "OUT_OF_SERVICE"
  /\ Goto(r, [pc |-> "creating", order |-> o, table |-> t, service |-> service, self |-> self])
  /\ UNCHANGED <<order, dish, table, shift, money>>

\* SelfOrderService.order: the guest names the dishes and nothing else.
SelfOrderRead(r, o, t) == CreateRead(r, o, t, SelfService, TRUE)

CreateOrder(r, slots) ==
  /\ At(r, "creating") /\ slots # {}
  /\ LET q == call[r]
         row == [status |-> "OPEN", self |-> q.self, table |-> q.table, subtotal |-> Cardinality(slots),
                 service |-> Cardinality(slots) * q.service, paid |-> 0, shift |-> NoShift]
     IN  /\ order' = [order EXCEPT ![q.order] = row]
         /\ dish' = [dish EXCEPT ![q.order] =
                       [i \in Slots |-> IF i \in slots THEN "PENDING" ELSE "none"]]
         /\ table' = [table EXCEPT ![q.table] = "OCCUPIED"]
         /\ IF q.self /\ Cap > 0 /\ Bill(row) > Cap
            THEN Goto(r, Doing("voiding", q.order))
            ELSE Done(r)
  /\ UNCHANGED <<shift, money>>

VoidOverCap(r) ==
  /\ At(r, "voiding")
  /\ SetOrder(call[r].order, "CANCELLED") /\ Done(r)
  /\ UNCHANGED <<dish, table, shift, money>>
-----------------------------------------------------------------------------
(* addItems, removeItem and the recalc that follows them, outside of any    *)
(* transaction: it reads the row, reads the sum, and writes the amounts.    *)

AddRead(r, o, i) ==
  /\ At(r, "idle") /\ IsOpen(o) /\ dish[o][i] = "none"
  /\ Goto(r, [pc |-> "adding", order |-> o, slot |-> i])
  /\ UNCHANGED <<order, dish, table, shift, money>>

AddItem(r) ==
  LET q == call[r] IN
  /\ At(r, "adding") /\ dish[q.order][q.slot] = "none"
  /\ dish' = [dish EXCEPT ![q.order][q.slot] = "PENDING"]
  /\ Goto(r, Doing("recalc", q.order))
  /\ UNCHANGED <<order, table, shift, money>>

RemoveRead(r, o, i) ==
  /\ At(r, "idle") /\ IsOpen(o) /\ dish[o][i] \notin {"none", "SERVED"}
  /\ Goto(r, [pc |-> "removing", order |-> o, slot |-> i])
  /\ UNCHANGED <<order, dish, table, shift, money>>

RemoveItem(r) ==
  /\ At(r, "removing")
  /\ dish' = [dish EXCEPT ![call[r].order][call[r].slot] = "none"]
  /\ Goto(r, Doing("recalc", call[r].order))
  /\ UNCHANGED <<order, table, shift, money>>

\* The service charge keeps its ratio to the amount it was charged on.
KeepRatio(row, subtotal) ==
  IF row.subtotal > 0 THEN subtotal * (row.service \div row.subtotal) ELSE 0

RecalcRead(r) ==
  LET o == call[r].order  sum == Cardinality(Active(o)) IN
  /\ At(r, "recalc")
  /\ Goto(r, [pc |-> "recalcWrite", order |-> o, subtotal |-> sum,
              service |-> KeepRatio(order[o], sum)])
  /\ UNCHANGED <<order, dish, table, shift, money>>

RecalcWrite(r) ==
  LET q == call[r] IN
  /\ At(r, "recalcWrite")
  /\ order' = [order EXCEPT ![q.order].subtotal = q.subtotal, ![q.order].service = q.service]
  /\ Done(r)
  /\ UNCHANGED <<dish, table, shift, money>>
-----------------------------------------------------------------------------
(* sendToKitchen and setItemStatus with syncOrderStatus.                    *)

SendRead(r, o) ==
  /\ At(r, "idle") /\ IsOpen(o)
  /\ Goto(r, Doing("sending", o))
  /\ UNCHANGED <<order, dish, table, shift, money>>

SendItems(r) ==
  LET o == call[r].order
      pending == {i \in Slots : dish[o][i] = "PENDING"} IN
  /\ At(r, "sending")
  /\ dish' = [dish EXCEPT ![o] = [i \in Slots |-> IF i \in pending THEN "PREPARING" ELSE @[i]]]
  /\ IF pending = {} THEN Done(r) ELSE Goto(r, Doing("sent", o))
  /\ UNCHANGED <<order, table, shift, money>>

MarkInKitchen(r) ==
  /\ At(r, "sent")
  /\ SetOrder(call[r].order, "IN_KITCHEN") /\ Done(r)
  /\ UNCHANGED <<dish, table, shift, money>>

SetItemStatus(r, o, i, status) ==
  /\ At(r, "idle") /\ dish[o][i] # "none"
  /\ dish' = [dish EXCEPT ![o][i] = status]
  /\ Goto(r, Doing("sync", o))
  /\ UNCHANGED <<order, table, shift, money>>

StatusOfDishes(o) ==
  IF \A i \in Active(o) : dish[o][i] = "SERVED" THEN "SERVED"
  ELSE IF \A i \in Active(o) : dish[o][i] \in {"READY", "SERVED"} THEN "READY"
  ELSE "IN_KITCHEN"

SyncRead(r) ==
  LET o == call[r].order IN
  /\ At(r, "sync")
  /\ IF Active(o) = {} \/ ~IsOpen(o)
     THEN Done(r)
     ELSE Goto(r, [pc |-> "syncWrite", order |-> o, status |-> StatusOfDishes(o)])
  /\ UNCHANGED <<order, dish, table, shift, money>>

SyncWrite(r) ==
  /\ At(r, "syncWrite")
  /\ SetOrder(call[r].order, call[r].status) /\ Done(r)
  /\ UNCHANGED <<dish, table, shift, money>>
-----------------------------------------------------------------------------
(* settle: the order, its dishes and the open shift are read first; one     *)
(* transaction then takes the ingredients, closes the order, fills the      *)
(* drawer and posts the revenue and the cost.                               *)

SettleRead(r, o) ==
  /\ At(r, "idle") /\ IsOpen(o)
  /\ Goto(r, [pc |-> "settling", order |-> o, subtotal |-> order[o].subtotal,
              service |-> order[o].service, used |-> Used(o),
              shift |-> CurrentShift])
  /\ UNCHANGED <<order, dish, table, shift, money>>

\* Mutant: the sale entry does not name its source.
TakenNever(o, amount) == FALSE

\* JournalEntry_source_key: a document has one live entry.
Taken(o, amount) == LedgerOn /\ amount > 0 /\ revenue[o] > 0

\* The same index, for the cost of the dishes the order has now.
CostTaken(o) == LedgerOn /\ Dishes(o) # {} /\ cost[o] > 0

\* Mutant: the entry is made from the order as it is now.
PostedNow(q) == Bill(order[q.order])

\* The entry is made from the order as it was read.
Posted(q) == Bill(q)

\* saleEntry credits the subtotal and debits the total.
Balanced(row) == Bill(row) = row.subtotal

Refused(q) ==
  \/ LedgerOn /\ ~Balanced(q)
  \/ Taken(q.order, Bill(q)) \/ CostTaken(q.order)

Settle(r) ==
  LET q == call[r]  o == q.order IN
  /\ At(r, "settling") /\ ~Refused(q)
  /\ order' = [order EXCEPT ![o].status = "PAID", ![o].paid = Bill(q), ![o].shift = q.shift]
  /\ dish' = [dish EXCEPT ![o] =
                [i \in Slots |-> IF i \in Active(o) THEN "SERVED" ELSE @[i]]]
  /\ table' = Leave(order[o].table, "CLEANING")
  /\ stock' = stock + q.used
  /\ drawer' = drawer + Bill(q)
  /\ revenue' = IF LedgerOn THEN [revenue EXCEPT ![o] = @ + Posted(q)] ELSE revenue
  /\ cost' = IF LedgerOn THEN [cost EXCEPT ![o] = @ + Cardinality(Dishes(o))] ELSE cost
  /\ Done(r)
  /\ UNCHANGED shift

SettleRefused(r) ==
  /\ At(r, "settling") /\ Refused(call[r])
  /\ Done(r)
  /\ UNCHANGED <<order, dish, table, shift, money>>

CancelRead(r, o) ==
  /\ At(r, "idle") /\ Exists(o) /\ order[o].status # "PAID"
  /\ Goto(r, Doing("cancelling", o))
  /\ UNCHANGED <<order, dish, table, shift, money>>

CancelOrder(r) ==
  LET o == call[r].order IN
  /\ At(r, "cancelling")
  /\ SetOrder(o, "CANCELLED")
  /\ dish' = [dish EXCEPT ![o] = [i \in Slots |-> IF @[i] = "none" THEN "none" ELSE "CANCELLED"]]
  /\ table' = Leave(order[o].table, "FREE")
  /\ Done(r)
  /\ UNCHANGED <<shift, money>>

\* updateTable, by the staff at the table.
UpdateTable(t, status) ==
  /\ table[t] # status
  /\ table' = [table EXCEPT ![t] = status]
  /\ UNCHANGED <<order, dish, shift, money, call>>
-----------------------------------------------------------------------------
(* CashierShiftService.open and .close                                      *)

OpenAShift(s) ==
  /\ shift[s] = Absent /\ \A x \in Shifts : ~OpenShift(x)
  /\ shift' = [shift EXCEPT ![s] = [status |-> "open"]]
  /\ UNCHANGED <<order, dish, table, money, call>>

PaidIn(s) ==
  {o \in RestaurantOrders : Exists(o) /\ order[o].status = "PAID" /\ order[o].shift = s}

SumPaid(rows) == SumFunctionOnSet([o \in rows |-> order[o].paid], rows)

\* Mutant: the totals of a shift are those of the whole drawer.
CashOfAll(s) == SumPaid(UNION {PaidIn(x) : x \in Shifts})

\* totals: the PAID orders of the shift.
CashOf(s) == SumPaid(PaidIn(s))

CountShift(r, s) ==
  /\ At(r, "idle") /\ OpenShift(s)
  /\ Goto(r, [pc |-> "counted", shift |-> s, cash |-> CashOf(s)])
  /\ UNCHANGED <<order, dish, table, shift, money>>

CloseShift(r) ==
  /\ At(r, "counted")
  /\ shift' = [shift EXCEPT ![call[r].shift] =
                 [status |-> "closed", expected |-> call[r].cash]]
  /\ Done(r)
  /\ UNCHANGED <<order, dish, table, money>>
-----------------------------------------------------------------------------
Step(r) ==
  \/ \E o \in RestaurantOrders, t \in Tables :
       \/ \E service \in Services : CreateRead(r, o, t, service, FALSE)
       \/ SelfOrderRead(r, o, t)
  \/ \E slots \in SUBSET Slots : CreateOrder(r, slots)
  \/ VoidOverCap(r)
  \/ \E o \in RestaurantOrders, i \in Slots :
       \/ AddRead(r, o, i) \/ RemoveRead(r, o, i)
       \/ \E status \in Marks : SetItemStatus(r, o, i, status)
  \/ AddItem(r) \/ RemoveItem(r) \/ RecalcRead(r) \/ RecalcWrite(r)
  \/ \E o \in RestaurantOrders : SendRead(r, o) \/ SettleRead(r, o) \/ CancelRead(r, o)
  \/ SendItems(r) \/ MarkInKitchen(r) \/ SyncRead(r) \/ SyncWrite(r)
  \/ Settle(r) \/ SettleRefused(r) \/ CancelOrder(r)
  \/ \E s \in Shifts : CountShift(r, s)
  \/ CloseShift(r)

RestaurantNext ==
  \/ \E r \in Calls : Step(r)
  \/ \E t \in Tables, status \in TableMarks : UpdateTable(t, status)
  \/ \E s \in Shifts : OpenAShift(s)

RestaurantSpec == RestaurantInit /\ [][RestaurantNext]_restaurantVars
-----------------------------------------------------------------------------
(* settle moves the drawer and the ledger in one transaction, and the        *)
(* unique index on the source of an entry undoes a second settle of the      *)
(* order with the money it brought: whatever stale totals were settled, the  *)
(* drawer holds exactly the posted revenue.                                  *)
DrawerMatchesRevenue == LedgerOn => drawer = SumFunctionOnSet(revenue, RestaurantOrders)

(* What an order says it was paid is what the ledger posted for it, however  *)
(* many requests settled it at once.                                         *)
PaidIsPosted ==
  \A o \in RestaurantOrders :
    LedgerOn /\ Exists(o) /\ order[o].paid > 0 => revenue[o] = order[o].paid

ClosedShifts == {s \in Shifts : shift[s].status = "closed"}

(* No money is expected twice: whatever is settled, revived or settled again *)
(* while shifts are counted, what the closed shifts of the drawer expect     *)
(* together is in the drawer.                                                *)
ExpectedWithinDrawer ==
  LedgerOn =>
    SumFunctionOnSet([s \in ClosedShifts |-> shift[s].expected], ClosedShifts) <= drawer

(* Whatever closes the last order of a table takes the OCCUPIED mark off it, *)
(* except the voiding of a guest's order over the cap.                       *)
OccupiedTableIsExplained ==
  \A t \in Tables : table[t] = "OCCUPIED" =>
    \E o \in RestaurantOrders : /\ Exists(o) /\ order[o].table = t
                     /\ (IsOpen(o) \/ order[o].self)

(* "We void it so that the table does not stay occupied".                    *)
VoidedOrderFreesTable ==
  \A t \in Tables : table[t] = "OCCUPIED" =>
    \E o \in RestaurantOrders : IsOpen(o) /\ order[o].table = t

(* "A settled order cannot be cancelled": once paid, an order stays paid.    *)
SettledStaysSettled ==
  [][\A o \in RestaurantOrders :
       Exists(o) /\ order[o].status = "PAID" => order'[o].status = "PAID"]_restaurantVars

(* A closed shift expects all the money of the orders tied to it.            *)
ClosedShiftIsComplete ==
  \A s \in Shifts : shift[s].status = "closed" => shift[s].expected = CashOf(s)

(* The sale entry of any open order balances, so that it can be settled.     *)
OpenOrderCanBePosted == \A o \in RestaurantOrders : IsOpen(o) /\ LedgerOn => Balanced(order[o])

(* Recalculation keeps the ratio of the service charge.                      *)
ServiceRatioIsKept ==
  [][\A o \in RestaurantOrders : IsOpen(o) /\ order[o].service > 0 /\ order'[o].subtotal > 0
       => order'[o].service > 0]_restaurantVars
-----------------------------------------------------------------------------
(* The inductive invariant.                                                 *)

AtRate(row) == \E rate \in Rates : row.service = row.subtotal * rate

\* What a call relies on between two of its steps.
CallHolds(q) ==
  /\ q.pc = "creating" => ~Exists(q.order)
  /\ q.pc \notin {"idle", "creating", "counted"} => Exists(q.order)
  /\ q.pc = "voiding" => order[q.order].self
  /\ q.pc = "syncWrite" => q.status \notin Closed
  /\ q.pc \in {"recalcWrite", "settling"} => AtRate(q)

CallsHold ==
  /\ \A r \in Calls : CallHolds(call[r])
  /\ \A r, x \in Calls : At(r, "creating") /\ At(x, "creating") /\ r # x
                         => call[r].order # call[x].order

DishesHaveOrders == \A o \in RestaurantOrders : Dishes(o) # {} => Exists(o)

ServiceIsAtRate == \A o \in RestaurantOrders : Exists(o) => AtRate(order[o])

\* The revenue that came in under a shift.
Takings(taker, s) == SumFunctionOnSet(revenue, {o \in RestaurantOrders : taker[o] = s})

(* Every order has one shift its money came in under, even if a later       *)
(* settlement without money names another; what is counted and expected of  *)
(* a shift is money of these orders.                                        *)
MoneyHasOneShift ==
  LedgerOn => \E taker \in [RestaurantOrders -> Shifts \cup {NoShift}] :
    /\ \A o \in RestaurantOrders :
         Exists(o) /\ order[o].paid > 0 => taker[o] = order[o].shift
    /\ \A s \in ClosedShifts : shift[s].expected <= Takings(taker, s)
    /\ \A r \in Calls : At(r, "counted") => call[r].cash <= Takings(taker, call[r].shift)

RestaurantInv ==
  /\ RestaurantTypeOK /\ CallsHold /\ DishesHaveOrders /\ ServiceIsAtRate
  /\ DrawerMatchesRevenue /\ PaidIsPosted /\ MoneyHasOneShift /\ OccupiedTableIsExplained
=============================================================================
