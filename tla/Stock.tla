------------------------------- MODULE Stock -------------------------------
(***************************************************************************)
(* The stock tables: one "Inventory" row per (warehouse, product) and the  *)
(* "StockMovement" kardex behind it, with applyStockDelta, the statement   *)
(* through which the services change both.                                 *)
(*                                                                         *)
(* applyStockDelta is one SQL statement: it locks the row it updates until *)
(* the surrounding transaction ends and it refuses (returns null) instead  *)
(* of driving a quantity below zero.  A transaction that reads nothing it  *)
(* has not locked is therefore one atomic step of the modules that extend  *)
(* this one; what a transaction reads without a lock is a step of its own. *)
(*                                                                         *)
(* Data abstraction: a quantity is an integer; a cost is an integer number *)
(* of the sixth decimals that round(..., 6) keeps; the kardex of a cell is *)
(* the sum of its deltas, the sum of its TRANSFER_IN/TRANSFER_OUT deltas   *)
(* and the balance written on its newest row.                              *)
(***************************************************************************)
EXTENDS StockRow

CONSTANTS Warehouses, Products

VARIABLES inventory,   \* [Cells -> Row]: the "Inventory" table
          kardex       \* [Cells -> Kardex]: the "StockMovement" table

stockVars == <<inventory, kardex>>

Cells == Warehouses \X Products

StockInit == /\ inventory = [c \in Cells |-> NoRow]
             /\ kardex = [c \in Cells |-> EmptyKardex]

StockTypeOK == /\ inventory \in [Cells -> Row]
               /\ kardex \in [Cells -> Kardex]
-----------------------------------------------------------------------------
\* applyStockDelta with a context; disabled where the code returns null.
ApplyStockDelta(c, delta, reason, unitCost) ==
  /\ CanApply(inventory[c], delta)
  /\ inventory' = [inventory EXCEPT ![c] = ApplyDelta(@, delta, unitCost)]
  /\ kardex' = [kardex EXCEPT ![c] =
                  Record(@, delta, inventory[c].quantity + delta, reason)]
-----------------------------------------------------------------------------
(* Every unit on the shelf is explained: the movements of a cell add up to *)
(* its quantity and the newest movement shows it (the state migration 010  *)
(* and the comment above the INSERT of applyStockDelta ask for).           *)
KardexExplainsStock ==
  \A c \in Cells : /\ kardex[c].total = inventory[c].quantity
                   /\ kardex[c].balance = inventory[c].quantity

(* A missing row holds nothing.                                            *)
AbsentRowIsEmpty == \A c \in Cells : ~inventory[c].exists => inventory[c] = NoRow

(* What every step keeps of the two tables, whichever service takes it.    *)
StockInv == StockTypeOK /\ AbsentRowIsEmpty /\ KardexExplainsStock
=============================================================================
