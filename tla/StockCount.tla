----------------------------- MODULE StockCount -----------------------------
(***************************************************************************)
(* A physical count of a warehouse while the shop goes on selling:         *)
(* StockCountService (open, setCounted, apply, cancel) with the counting   *)
(* page in front of it and the page's offline queue, where a count waits   *)
(* for the network (web/lib/offline-queue.ts).                             *)
(*                                                                         *)
(* The server's operations are one statement each, except apply: it locks  *)
(* the count, reads its lines and posts the differences in one             *)
(* transaction, and setCounted does not wait for it.                       *)
(* On the page, saving, each step of a flush and the sales interleave at   *)
(* every await; a flush is started on opening the page and whenever the    *)
(* browser is back online, so two may overlap.                             *)
(*                                                                         *)
(* "shelf" is what is really there; the worker's number is what the shelf  *)
(* holds when it is counted.                                               *)
(***************************************************************************)
EXTENDS Integers

CONSTANTS Products,     \* goods of the warehouse
          Flushers,     \* flushes of the queue that may run at once
          Null,         \* not counted
          InitialStock, \* units of every product at the start
          MaxAttempts,  \* MAX_ATTEMPTS of the queue
          MaxSaves,     \* bound: numbers entered by the worker
          MaxSales,     \* bound: units sold of a product while the count is open
          MaxLosses,    \* bound: units that disappear unrecorded
          MaxCloses     \* bound: times the page is closed

Number == [product : Products, qty : Nat]
Latest == [id : Nat, qty : Nat, sold : Nat, lost : Nat]

ASSUME StockCountConstants ==
  /\ Null \notin Nat \cup Number \cup Latest
  /\ InitialStock \in Nat /\ MaxAttempts \in Nat \ {0}
  /\ MaxSaves \in Nat /\ MaxSales \in Nat /\ MaxLosses \in Nat /\ MaxCloses \in Nat

VARIABLES status,     \* StockCount.status, "NONE" before it is opened
          systemQty,  \* StockCountLine.systemQty
          countedQty, \* StockCountLine.countedQty
          applying,   \* the lines apply has read, Null when none is running
          posted,     \* the COUNT movement of a product, 0 for none
          quantity,   \* Inventory.quantity
          shelf,      \* what is really there
          saving,     \* the number on its way to the server, or Null
          queue,      \* the records in IndexedDB, by their order of creation
          flush,      \* what a flush still has to send, by the same order
          saves,      \* numbers entered so far
          latest,     \* the last number entered per product, and the units
                      \* sold and lost when it was taken
          sold, lost, \* units sold since the opening, units lost
          dropped,    \* products whose last number the page gave up on
          mixed,      \* products saved directly with an older number waiting
          closes      \* times the page was closed

server == <<status, systemQty, applying, posted, quantity>>
goods == <<shelf, sold, lost>>
page == <<saving, queue, flush, saves, latest, dropped, mixed, closes>>
countVars == <<server, countedQty, goods, page>>

Item == [product : Products, qty : Nat, attempts : 0..MaxAttempts]
AreRecords(x) == DOMAIN x \subseteq 1..MaxSaves /\ x \in [DOMAIN x -> Item]
NoRecords == [id \in {} |-> Null]

CountTypeOK ==
  /\ status \in {"NONE", "OPEN", "APPLIED", "CANCELLED"}
  /\ systemQty \in [Products -> Nat]
  /\ countedQty \in [Products -> Nat \cup {Null}]
  /\ applying \in [Products -> Nat \cup {Null}] \cup {Null}
  /\ posted \in [Products -> Int]
  /\ quantity \in [Products -> Nat] /\ shelf \in [Products -> Nat]
  /\ saving \in Number \cup {Null}
  /\ AreRecords(queue)
  /\ DOMAIN flush = Flushers /\ \A f \in Flushers : AreRecords(flush[f])
  /\ saves \in 0..MaxSaves /\ closes \in 0..MaxCloses
  /\ latest \in [Products -> Latest \cup {Null}]
  /\ sold \in [Products -> 0..MaxSales] /\ lost \in [Products -> 0..MaxLosses]
  /\ dropped \subseteq Products /\ mixed \subseteq Products

CountInit ==
  /\ status = "NONE" /\ applying = Null
  /\ systemQty = [p \in Products |-> 0]
  /\ countedQty = [p \in Products |-> Null]
  /\ posted = [p \in Products |-> 0]
  /\ quantity = [p \in Products |-> InitialStock]
  /\ shelf = [p \in Products |-> InitialStock]
  /\ saving = Null /\ queue = NoRecords /\ flush = [f \in Flushers |-> NoRecords]
  /\ saves = 0 /\ closes = 0
  /\ latest = [p \in Products |-> Null]
  /\ sold = [p \in Products |-> 0] /\ lost = [p \in Products |-> 0]
  /\ dropped = {} /\ mixed = {}
-----------------------------------------------------------------------------
(* Sales and losses.                                                       *)
Sell(p) ==
  /\ status = "OPEN" /\ sold[p] < MaxSales
  /\ quantity[p] > 0 /\ shelf[p] > 0
  /\ quantity' = [quantity EXCEPT ![p] = @ - 1]
  /\ shelf' = [shelf EXCEPT ![p] = @ - 1]
  /\ sold' = [sold EXCEPT ![p] = @ + 1]
  /\ UNCHANGED <<status, systemQty, applying, posted, countedQty, lost, page>>

Lose(p) ==
  /\ lost[p] < MaxLosses /\ shelf[p] > 0
  /\ shelf' = [shelf EXCEPT ![p] = @ - 1]
  /\ lost' = [lost EXCEPT ![p] = @ + 1]
  /\ UNCHANGED <<server, countedQty, sold, page>>
-----------------------------------------------------------------------------
(* open: every line gets the quantity of the system.                       *)
Open ==
  /\ status = "NONE"
  /\ status' = "OPEN"
  /\ systemQty' = quantity
  /\ UNCHANGED <<applying, posted, quantity, countedQty, goods, page>>

(* setCounted, as long as the count is open for all that is committed.     *)
Counted(p, qty) == status = "OPEN" /\ countedQty' = [countedQty EXCEPT ![p] = qty]

(* apply locks the count and reads the lines ...                           *)
ApplyRead ==
  /\ status = "OPEN" /\ applying = Null
  /\ applying' = countedQty
  /\ UNCHANGED <<status, systemQty, posted, quantity, countedQty, goods, page>>

\* Mutant: the difference is taken from the quantity of now.
DeltaFromNow(p) == IF applying[p] = Null THEN 0 ELSE applying[p] - quantity[p]

\* What was counted against what the system held when the count was opened.
Delta(p) == IF applying[p] = Null THEN 0 ELSE applying[p] - systemQty[p]

Applies == \A p \in Products : quantity[p] + Delta(p) >= 0

(* ... and posts the differences.                                          *)
ApplyPost ==
  /\ applying # Null /\ Applies
  /\ status' = "APPLIED" /\ applying' = Null
  /\ posted' = [p \in Products |-> Delta(p)]
  /\ quantity' = [p \in Products |-> quantity[p] + Delta(p)]
  /\ UNCHANGED <<systemQty, countedQty, goods, page>>

(* apply is refused if a quantity became negative; all is rolled back.     *)
ApplyRefused ==
  /\ applying # Null /\ ~Applies
  /\ applying' = Null
  /\ UNCHANGED <<status, systemQty, posted, quantity, countedQty, goods, page>>

Cancel ==
  /\ status = "OPEN" /\ applying = Null
  /\ status' = "CANCELLED"
  /\ UNCHANGED <<systemQty, applying, posted, quantity, countedQty, goods, page>>
-----------------------------------------------------------------------------
Waiting(p) ==
  \/ \E id \in DOMAIN queue : queue[id].product = p
  \/ \E f \in Flushers : \E id \in DOMAIN flush[f] : flush[f][id].product = p

(* The worker counts the shelf and saves the number.                       *)
SaveStart(p) ==
  /\ status # "NONE" /\ saving = Null /\ saves < MaxSaves
  /\ saving' = [product |-> p, qty |-> shelf[p]]
  /\ saves' = saves + 1
  /\ latest' = [latest EXCEPT ![p] = [id |-> saves + 1, qty |-> shelf[p],
                                      sold |-> sold[p], lost |-> lost[p]]]
  /\ dropped' = dropped \ {p}
  /\ UNCHANGED <<server, countedQty, goods, queue, flush, mixed, closes>>

(* The server takes the number and its answer arrives.                     *)
SaveDone ==
  /\ saving # Null
  /\ Counted(saving.product, saving.qty)
  /\ saving' = Null
  /\ mixed' = IF Waiting(saving.product) THEN mixed \cup {saving.product}
              ELSE mixed \ {saving.product}
  /\ UNCHANGED <<server, goods, queue, flush, saves, latest, dropped, closes>>

(* The server refuses it: the count is not open any more.                  *)
SaveRejected ==
  /\ saving # Null /\ status # "OPEN"
  /\ saving' = Null
  /\ dropped' = dropped \cup {saving.product}
  /\ UNCHANGED <<server, countedQty, goods, queue, flush, saves, latest, mixed, closes>>

\* s.put, s.add: the record stands under its id.
With(id, item) ==
  queue' = [x \in DOMAIN queue \cup {id} |-> IF x = id THEN item ELSE queue[x]]

(* The network fails, before or after the server took it: into the queue.  *)
SaveQueued ==
  /\ saving # Null
  /\ Counted(saving.product, saving.qty) \/ UNCHANGED countedQty
  /\ saving' = Null
  /\ With(saves, [product |-> saving.product, qty |-> saving.qty, attempts |-> 0])
  /\ mixed' = mixed \ {saving.product}
  /\ UNCHANGED <<server, goods, flush, saves, latest, dropped, closes>>
-----------------------------------------------------------------------------
Without(records, id) == [x \in DOMAIN records \ {id} |-> records[x]]

\* Mutant: the records are sent newest first.
Newest(records) == CHOOSE id \in DOMAIN records : \A x \in DOMAIN records : x <= id

\* pending: the records are sent oldest first.
Oldest(records) == CHOOSE id \in DOMAIN records : \A x \in DOMAIN records : id <= x

Sending(f) == DOMAIN flush[f] # {}
Current(f) == Oldest(flush[f])
Sent(f) == flush[f][Current(f)]

(* flush begins with the pending records of this moment.                   *)
FlushStart(f) ==
  /\ ~Sending(f) /\ DOMAIN queue # {}
  /\ flush' = [flush EXCEPT ![f] = queue]
  /\ UNCHANGED <<server, countedQty, goods, saving, queue, saves, latest, dropped, mixed, closes>>

\* remove, and on to the next record.
Remove(f) ==
  /\ queue' = Without(queue, Current(f))
  /\ flush' = [flush EXCEPT ![f] = Without(@, Current(f))]

(* A record is taken by the server, and removed.                           *)
Taken(f) ==
  /\ Sending(f)
  /\ Counted(Sent(f).product, Sent(f).qty)
  /\ Remove(f)
  /\ UNCHANGED <<server, goods, saving, saves, latest, dropped, mixed, closes>>

GiveUp(f) ==
  /\ Remove(f)
  /\ dropped' = IF latest[Sent(f).product].id = Current(f)
                THEN dropped \cup {Sent(f).product} ELSE dropped

(* A record the server refuses is removed, too.                            *)
Rejected(f) ==
  /\ Sending(f) /\ status # "OPEN"
  /\ GiveUp(f)
  /\ UNCHANGED <<server, countedQty, goods, saving, saves, latest, mixed, closes>>

\* Mutant: a failed attempt is not written back.
BumpForgotten(item) == item.attempts

Bump(item) == item.attempts + 1

(* The network fails, before or after the server took the record: the      *)
(* last attempt removes it, any other is noted and ends the flush.         *)
Unsent(f) ==
  /\ Sending(f)
  /\ Counted(Sent(f).product, Sent(f).qty) \/ UNCHANGED countedQty
  /\ IF Sent(f).attempts + 1 >= MaxAttempts
     THEN GiveUp(f)
     ELSE /\ With(Current(f), [Sent(f) EXCEPT !.attempts = Bump(Sent(f))])
          /\ flush' = [flush EXCEPT ![f] = NoRecords]
          /\ UNCHANGED dropped
  /\ UNCHANGED <<server, goods, saving, saves, latest, mixed, closes>>

(* The page is closed: what it was doing ends, the queue stays; a request  *)
(* that was under way may have reached the server.                         *)
Close ==
  /\ closes < MaxCloses
  /\ closes' = closes + 1
  /\ saving' = Null /\ flush' = [f \in Flushers |-> NoRecords]
  /\ dropped' = IF saving = Null THEN dropped ELSE dropped \cup {saving.product}
  /\ \/ UNCHANGED countedQty
     \/ saving # Null /\ Counted(saving.product, saving.qty)
     \/ \E f \in Flushers : Sending(f) /\ Counted(Sent(f).product, Sent(f).qty)
  /\ UNCHANGED <<server, goods, queue, saves, latest, mixed>>

Flush(f) == Taken(f) \/ Rejected(f) \/ Unsent(f)

CountNext ==
  \/ \E p \in Products : Sell(p) \/ Lose(p) \/ SaveStart(p)
  \/ Open \/ ApplyRead \/ ApplyPost \/ ApplyRefused \/ Cancel
  \/ SaveDone \/ SaveRejected \/ SaveQueued
  \/ \E f \in Flushers : FlushStart(f) \/ Flush(f)
  \/ Close

CountSpec == CountInit /\ [][CountNext]_countVars

(* A flush goes on by itself (each await settles: the requests time out),  *)
(* and another one starts as long as records wait: the page is opened      *)
(* again, or the browser comes back online.                                *)
Fairness ==
  /\ WF_countVars(\E f \in Flushers : FlushStart(f))
  /\ \A f \in Flushers : WF_countVars(Flush(f))

CountFairSpec == CountSpec /\ Fairness
-----------------------------------------------------------------------------
TakesLatest(p) == latest[p] # Null /\ applying[p] = latest[p].qty

LeavesOnlyLaterLosses(p) == (quantity[p] - shelf[p])' = lost[p] - latest[p].lost

(* Applying a count brings the system to the shelf: if a number was taken  *)
(* before anything was sold and is the one applied, then what the system   *)
(* has too much afterwards is what got lost after the counting.  Sales     *)
(* between counting and applying are not charged to the worker.            *)
AppliedCountMatchesShelf ==
  [][ApplyPost => \A p \in Products :
       TakesLatest(p) /\ latest[p].sold = 0 => LeavesOnlyLaterLosses(p)]_countVars

(* The same whenever the goods were sold: sales while the count is open    *)
(* are not charged as a shortage.                                          *)
SalesAreNotShortage ==
  [][ApplyPost => \A p \in Products : TakesLatest(p) => LeavesOnlyLaterLosses(p)]_countVars

(* setCounted: a count is changed only while it is open; what was applied  *)
(* is what its lines say.                                                  *)
LinesAreWhatWasApplied ==
  status = "APPLIED" =>
    \A p \in Products :
      countedQty[p] # Null => posted[p] = countedQty[p] - systemQty[p]

Settled == saving = Null /\ DOMAIN queue = {} /\ \A f \in Flushers : ~Sending(f)

LatestIsOnTheServer(p) ==
  Settled /\ status = "OPEN" /\ latest[p] # Null => countedQty[p] = latest[p].qty

(* flush: the queue keeps the order.  When all is sent, the server has the *)
(* last number of a product, unless the page gave up on one or an older    *)
(* number was queued when a newer one was saved directly.                  *)
QueueKeepsOrder == \A p \in Products \ (dropped \cup mixed) : LatestIsOnTheServer(p)

(* offline-queue: the last number wins.                                    *)
LastNumberWins == \A p \in Products \ dropped : LatestIsOnTheServer(p)

(* MAX_ATTEMPTS: no record locks the queue; each one leaves it, sent or    *)
(* given up, however the network behaves.                                  *)
EveryRecordLeaves ==
  \A id \in 1..MaxSaves : id \in DOMAIN queue ~> id \notin DOMAIN queue
-----------------------------------------------------------------------------
(* The inductive invariants: one of the goods, and one of the queue, which *)
(* holds as long as flushes do not overlap.                                *)

GoodsFollow ==
  /\ \A p \in Products :
       /\ shelf[p] = (InitialStock - sold[p]) - lost[p]
       /\ status = "NONE" => sold[p] = 0
       /\ status # "NONE" => systemQty[p] = InitialStock
       /\ status \in {"NONE", "OPEN"} => quantity[p] = InitialStock - sold[p]
       /\ latest[p] # Null => latest[p].qty = (InitialStock - latest[p].sold) - latest[p].lost
  /\ applying # Null => status = "OPEN"
  /\ saving # Null => saves > 0

GoodsInv == CountTypeOK /\ GoodsFollow

\* No two flushes overlap.
FlushesAlone == \A f, g \in Flushers : Sending(f) /\ Sending(g) => f = g

\* The number on its way is the last one, and the queue holds older ones.
NumbersFollow ==
  /\ saving # Null =>
       LET last == latest[saving.product] IN
       last # Null /\ last.id = saves /\ last.qty = saving.qty
  /\ \A p \in Products : latest[p] # Null => latest[p].id <= saves /\ status # "NONE"
  /\ \A id \in DOMAIN queue :
       /\ saving # Null => id < saves
       /\ latest[queue[id].product] # Null
       /\ id <= latest[queue[id].product].id

\* A flush sends what the queue holds, and what came after it is newer.
FlushFollowsQueue ==
  \A f \in Flushers : \A x \in DOMAIN flush[f] :
    /\ x \in DOMAIN queue /\ flush[f][x] = queue[x]
    /\ \A id \in DOMAIN queue \ DOMAIN flush[f] : x < id

Queued(p) == {id \in DOMAIN queue : queue[id].product = p}

\* The last number is on its way, or waits, or is on the server with no
\* other that could replace it.
Arrives(p) ==
  \/ saving # Null /\ saving.product = p
  \/ latest[p].id \in Queued(p) /\ queue[latest[p].id].qty = latest[p].qty
  \/ countedQty[p] = latest[p].qty /\ Queued(p) = {}

LatestArrives ==
  status = "OPEN" =>
    \A p \in Products \ (dropped \cup mixed) : latest[p] # Null => Arrives(p)

QueueInv == GoodsInv /\ NumbersFollow /\ FlushFollowsQueue /\ LatestArrives
=============================================================================
