------------------------------ MODULE Inventory ------------------------------
(***************************************************************************)
(* What checkout promises about stock, with no transactions, locks or      *)
(* snapshots in sight: an order takes all of its units off the shelf in    *)
(* one step and only if all are there, a customer's idempotency key makes  *)
(* at most one order, and nothing but an order or the back office changes  *)
(* what is available.  Checkout.tla is shown to implement it.              *)
(***************************************************************************)
EXTENDS Integers

CONSTANTS
  Variants,   \* what is sold
  Shelf,      \* units of each variant at the start
  Levels,     \* the stock levels the back office sets
  Orders,     \* every order there can be: [id, owner, key, lines]
  NoKey       \* the key of a guest's order

VARIABLES
  avail,      \* units that can still be ordered
  supply,     \* units ever put on the shelf
  placed      \* the orders

inventoryVars == <<avail, supply, placed>>

InventoryInit == avail = Shelf /\ supply = Shelf /\ placed = {}

SameRequest(o, q) == o.key # NoKey /\ o.owner = q.owner /\ o.key = q.key

Place(o) ==
  /\ placed' = placed \cup {o}
  /\ \A q \in placed : q.id # o.id /\ ~ SameRequest(o, q)
  /\ \A v \in Variants : o.lines[v] <= avail[v]
  /\ avail' = [v \in Variants |-> avail[v] - o.lines[v]]
  /\ UNCHANGED supply

Restock(v, n) ==
  /\ avail' = [avail EXCEPT ![v] = n]
  /\ supply' = [supply EXCEPT ![v] = @ + n - avail[v]]
  /\ UNCHANGED placed

(* The order that a step places is the one that is new after it.           *)
InventoryNext ==
  \/ \E o \in placed' \ placed : o \in Orders /\ Place(o)
  \/ \E v \in Variants, n \in Levels : Restock(v, n)

InventorySpec == InventoryInit /\ [][InventoryNext]_inventoryVars
=============================================================================
