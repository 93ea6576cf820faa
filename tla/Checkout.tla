------------------------------ MODULE Checkout ------------------------------
(***************************************************************************)
(* Checkout: POST /checkout (internal/http/handlers/checkout.go), the one  *)
(* long transaction of CreateFromCart (internal/modules/orders/service.go) *)
(* with DeductStockInTx (internal/modules/checkout/stock.go) inside it,    *)
(* and what else writes carts and stock meanwhile.                         *)
(*                                                                         *)
(* The database is InnoDB at its default isolation, REPEATABLE READ: plain *)
(* SELECTs see the snapshot of the transaction's first read, locking reads *)
(* and writes see the latest committed row and keep its lock to the end,   *)
(* and a unique index makes an INSERT wait for an uncommitted rival.       *)
(***************************************************************************)
EXTENDS Integers, FiniteSetsExt

CONSTANTS
  Variants,    \* ids of product variants; numbers, as they are locked in order
  Shelf,       \* product_variants.stock at the start
  Levels,      \* stock levels the admin form is sent with
  MaxSupply,   \* bound: units of a variant ever put on the shelf
  MaxQty,      \* bound: quantity of a cart line
  Users,       \* customers who are signed in
  Requests,    \* POSTs of the checkout form, each is sent once
  Keys,        \* idempotency keys in the forms
  NoKey,       \* a guest's checkout has none
  NoRequest,   \* the lock of a free row
  MayFail      \* whether a transaction can fail: crash, error, sold-out product

Lines == [Variants -> 0 .. MaxQty]
EmptyLines == [v \in Variants |-> 0]
Items(lines) == {v \in Variants : lines[v] > 0}

ASSUME CheckoutAssumption ==
  /\ Variants \subseteq Nat
  /\ Shelf \in [Variants -> Nat]
  /\ Levels \subseteq Nat \ {0}
  /\ MaxSupply \in Nat /\ MaxQty \in Nat
  /\ Users \cap Requests = {}
  /\ NoKey \notin Keys /\ NoRequest \notin Requests
  /\ MayFail \in BOOLEAN

VARIABLES
  stock,    \* product_variants.stock, with the writes of open transactions
  supply,   \* history: units ever put on the shelf
  lock,     \* the transaction that holds the row lock of a variant
  cart,     \* cart_items of the users' carts and of the guests' temporary carts
  post      \* the requests: where they are and what they have read

checkoutVars == <<stock, supply, lock, cart, post>>
-----------------------------------------------------------------------------
InTransaction == {"begin", "lock", "deduct", "insert", "commit"}
Answers == {"created", "existing", "empty", "out of stock", "conflict", "failed"}

CheckoutTypeOK ==
  /\ stock \in [Variants -> Nat]
  /\ supply \in [Variants -> Int]
  /\ lock \in [Variants -> Requests \cup {NoRequest}]
  /\ cart \in [Users \cup Requests -> Lines]
  /\ post \in [Requests -> [pc : {"idle"} \cup InTransaction \cup Answers,
                            cart : Users \cup Requests,
                            key : Keys \cup {NoKey},
                            lines : Lines,
                            seen : SUBSET Requests]]

CheckoutInit ==
  /\ stock = Shelf
  /\ supply = Shelf
  /\ lock = [v \in Variants |-> NoRequest]
  /\ cart = [c \in Users \cup Requests |-> EmptyLines]
  /\ post = [r \in Requests |-> [pc |-> "idle", cart |-> r, key |-> NoKey,
                                 lines |-> EmptyLines, seen |-> {}]]

(* The requests whose order is committed; lines are its order_items.       *)
Placed == {r \in Requests : post[r].pc = "created"}

(* Two orders that the unique index (user_id, idempotency_key) keeps       *)
(* apart; guests have NULL in both columns.                                *)
SameKey(r, q) ==
  /\ r # q
  /\ post[r].key # NoKey
  /\ post[r].cart = post[q].cart
  /\ post[r].key = post[q].key
-----------------------------------------------------------------------------
(* The cart page, the form and the key in its hidden field.                *)
Post(r, u, k) ==
  /\ post[r].pc = "idle"
  /\ post' = [post EXCEPT ![r] =
                [pc |-> IF cart[u] = EmptyLines THEN "empty" ELSE "begin",
                 cart |-> u, key |-> k, lines |-> EmptyLines, seen |-> {}]]
  /\ UNCHANGED <<stock, supply, lock, cart>>

(* A guest's cart comes from the cookie: a temporary cart is made for it.  *)
GuestPost(r, lines) ==
  /\ post[r].pc = "idle"
  /\ cart' = [cart EXCEPT ![r] = lines]
  /\ post' = [post EXCEPT ![r].pc = IF lines = EmptyLines THEN "empty" ELSE "begin"]
  /\ UNCHANGED <<stock, supply, lock>>

(* A faulty ReadSnapshot without the idempotency read.                     *)
ReadSnapshotOnly(r) ==
  /\ post[r].pc = "begin"
  /\ LET lines == cart[post[r].cart]
     IN  post' = [post EXCEPT ![r] =
                    [pc |-> IF lines = EmptyLines THEN "empty" ELSE "lock",
                     cart |-> @.cart, key |-> @.key, lines |-> lines, seen |-> Placed]]
  /\ UNCHANGED <<stock, supply, lock, cart>>

(* The first plain read fixes the snapshot: orders with the same key, and  *)
(* the lines of the cart, as they are now.                                 *)
ReadSnapshot(r) ==
  /\ post[r].pc = "begin"
  /\ LET lines == cart[post[r].cart]
     IN  post' = [post EXCEPT ![r] =
                    [pc |-> IF \E q \in Placed : SameKey(r, q) THEN "existing"
                            ELSE IF lines = EmptyLines THEN "empty" ELSE "lock",
                     cart |-> @.cart, key |-> @.key, lines |-> lines, seen |-> Placed]]
  /\ UNCHANGED <<stock, supply, lock, cart>>
-----------------------------------------------------------------------------
Unlocked(r) == {v \in Items(post[r].lines) : lock[v] # r}

(* A faulty order of locking: whatever row comes first.                    *)
AnyRow(r) == Unlocked(r)

(* SELECT ... FOR UPDATE ... ORDER BY id takes the rows in the order of    *)
(* their ids.                                                              *)
NextRow(r) == {v \in Unlocked(r) : \A w \in Unlocked(r) : v <= w}

(* A faulty LockVariant: a plain SELECT, which waits for nobody.           *)
LockVariantShared(r) ==
  /\ post[r].pc = "lock"
  /\ \E v \in NextRow(r) : lock' = [lock EXCEPT ![v] = r]
  /\ UNCHANGED <<stock, supply, cart, post>>

LockVariant(r) ==
  /\ post[r].pc = "lock"
  /\ \E v \in NextRow(r) : /\ lock[v] = NoRequest
                           /\ lock' = [lock EXCEPT ![v] = r]
  /\ UNCHANGED <<stock, supply, cart, post>>

Released(r) == [v \in Variants |-> IF lock[v] = r THEN NoRequest ELSE lock[v]]
Deducted(r) == post[r].pc \in {"insert", "commit"}

(* A faulty Rollback: the stock was written outside the transaction.       *)
RollbackKeepsStock(r, answer) ==
  /\ post' = [post EXCEPT ![r].pc = answer]
  /\ lock' = Released(r)
  /\ UNCHANGED <<stock, supply, cart>>

(* An error return of the transaction's function, or a lost connection.    *)
Rollback(r, answer) ==
  /\ stock' = IF Deducted(r) THEN [v \in Variants |-> stock[v] + post[r].lines[v]]
                             ELSE stock
  /\ post' = [post EXCEPT ![r].pc = answer]
  /\ lock' = Released(r)
  /\ UNCHANGED <<supply, cart>>

(* All rows are locked: the quantities are compared with the stock read.   *)
CheckStock(r) ==
  /\ post[r].pc = "lock"
  /\ Unlocked(r) = {}
  /\ IF \A v \in Variants : post[r].lines[v] <= stock[v]
     THEN /\ post' = [post EXCEPT ![r].pc = "deduct"]
          /\ UNCHANGED <<stock, supply, lock, cart>>
     ELSE Rollback(r, "out of stock")

(* UPDATE ... SET stock = stock - qty, for every line.                     *)
Deduct(r) ==
  /\ post[r].pc = "deduct"
  /\ stock' = [v \in Variants |-> stock[v] - post[r].lines[v]]
  /\ post' = [post EXCEPT ![r].pc = "insert"]
  /\ UNCHANGED <<supply, lock, cart>>

(* A faulty InsertOrder: no unique index.                                  *)
InsertOrderUnchecked(r) ==
  /\ post[r].pc = "insert"
  /\ post' = [post EXCEPT ![r].pc = "commit"]
  /\ UNCHANGED <<stock, supply, lock, cart>>

(* The order and its items are inserted; an uncommitted order with the     *)
(* same key makes the INSERT wait.                                         *)
InsertOrder(r) ==
  /\ post[r].pc = "insert"
  /\ \A q \in Requests : SameKey(r, q) => post[q].pc \notin {"commit", "created"}
  /\ post' = [post EXCEPT ![r].pc = "commit"]
  /\ UNCHANGED <<stock, supply, lock, cart>>

(* A committed rival: the code looks it up with a plain SELECT.  If the    *)
(* snapshot shows it the function returns nil, and the transaction         *)
(* commits with the stock deducted; if not, the error rolls it back.       *)
DuplicateKey(r) ==
  /\ post[r].pc = "insert"
  /\ \E q \in Placed : SameKey(r, q)
  /\ IF \E q \in post[r].seen : SameKey(r, q)
     THEN /\ post' = [post EXCEPT ![r].pc = "existing"]
          /\ lock' = Released(r)
          /\ UNCHANGED <<stock, supply, cart>>
     ELSE Rollback(r, "conflict")

(* DELETE FROM cart_items takes what is in the cart by now, and COMMIT.    *)
Commit(r) ==
  /\ post[r].pc = "commit"
  /\ cart' = [cart EXCEPT ![post[r].cart] = EmptyLines]
  /\ post' = [post EXCEPT ![r].pc = "created"]
  /\ lock' = Released(r)
  /\ UNCHANGED <<stock, supply>>

(* Any other error return, a product that is no longer active, a lock      *)
(* time-out, a crash: the database undoes the transaction.                 *)
Fail(r) ==
  /\ MayFail
  /\ post[r].pc \in InTransaction
  /\ Rollback(r, "failed")
-----------------------------------------------------------------------------
(* The customer goes on shopping.  A new cart row refers to its variant,   *)
(* so that inserting it waits for the variant's row lock.                  *)
AddToCart(u, v) ==
  /\ cart[u][v] < MaxQty
  /\ cart[u][v] = 0 => lock[v] = NoRequest
  /\ cart' = [cart EXCEPT ![u][v] = @ + 1]
  /\ UNCHANGED <<stock, supply, lock, post>>

RemoveFromCart(u, v) ==
  /\ cart[u][v] > 0
  /\ cart' = [cart EXCEPT ![u][v] = 0]
  /\ UNCHANGED <<stock, supply, lock, post>>

(* The admin form writes the stock it was sent with, never zero (a zero    *)
(* fails "required"); the UPDATE waits for the row lock.                   *)
UpdateVariant(v, n) ==
  /\ lock[v] = NoRequest
  /\ supply[v] + n - stock[v] <= MaxSupply
  /\ stock' = [stock EXCEPT ![v] = n]
  /\ supply' = [supply EXCEPT ![v] = @ + n - stock[v]]
  /\ UNCHANGED <<lock, cart, post>>
-----------------------------------------------------------------------------
CreateFromCart(r) ==
  \/ ReadSnapshot(r) \/ LockVariant(r) \/ CheckStock(r) \/ Deduct(r)
  \/ InsertOrder(r) \/ DuplicateKey(r) \/ Commit(r)

CheckoutNext ==
  \/ \E r \in Requests :
       \/ \E u \in Users, k \in Keys : Post(r, u, k)
       \/ \E lines \in Lines : GuestPost(r, lines)
       \/ CreateFromCart(r)
       \/ Fail(r)
  \/ \E u \in Users, v \in Variants : AddToCart(u, v) \/ RemoveFromCart(u, v)
  \/ \E v \in Variants, n \in Levels : UpdateVariant(v, n)

CheckoutSpec == CheckoutInit /\ [][CheckoutNext]_checkoutVars

(* A transaction that can go on goes on.  Nobody has to check out, shop or *)
(* restock.                                                                *)
FairCheckoutSpec ==
  CheckoutSpec /\ \A r \in Requests : WF_checkoutVars(CreateFromCart(r))
-----------------------------------------------------------------------------
(* The orders and open transactions that have taken units off the shelf.   *)
Takers == {r \in Requests : post[r].pc \in {"insert", "commit", "created"}}

Taken(v) == SumFunctionOnSet([r \in Requests |-> post[r].lines[v]], Takers)

(* No unit is lost and none is sold twice: what was put on the shelf is    *)
(* still there, or in an order, or in a transaction that has deducted it.  *)
(* The branch of DuplicateKey that returns nil would break it.             *)
StockConserved == \A v \in Variants : stock[v] + Taken(v) = supply[v]

(* A form that is sent twice, or again after an answer that got lost,      *)
(* makes one order, although both transactions may find none to begin      *)
(* with.                                                                   *)
OneOrderPerKey == \A r, q \in Placed : ~ SameKey(r, q)

(* Every checkout gets its answer: transactions that lock several variants *)
(* and wait for each other's keys never all wait for one another.          *)
EveryPostAnswers ==
  \A r \in Requests : post[r].pc \in InTransaction ~> post[r].pc \in Answers

(* "on idempotency unique conflict: return the existing order"             *)
(* (orders/service.go:305): a repeated form never ends in an error for     *)
(* being a repetition.                                                     *)
ConflictReturnsOrder == \A r \in Requests : post[r].pc # "conflict"

(* The detailed specification implements the promise of Inventory.  Units  *)
(* that an open transaction has deducted still count as available, since   *)
(* it may roll back.                                                       *)
OrderOf(r) == [id |-> r, owner |-> post[r].cart, key |-> post[r].key,
               lines |-> post[r].lines]

Promise == INSTANCE Inventory WITH
  avail  <- [v \in Variants |->
               stock[v] + IF lock[v] \in Requests /\ Deducted(lock[v])
                          THEN post[lock[v]].lines[v] ELSE 0],
  placed <- {OrderOf(r) : r \in Placed},
  Orders <- [id : Requests, owner : Users \cup Requests, key : Keys \cup {NoKey},
             lines : Lines]

ImplementsInventory == Promise!InventorySpec
=============================================================================
