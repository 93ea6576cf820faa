--------------------------- MODULE CheckoutProofs ---------------------------
(***************************************************************************)
(* Proofs about Checkout, for any number of variants, customers, requests  *)
(* and keys: stock never runs below zero, one key makes one order, and     *)
(* checkout implements Inventory.                                          *)
(***************************************************************************)
EXTENDS Checkout, SumLemmas, TLAPS

(* Row locks do their work: from the comparison of the stock to the end of *)
(* the transaction the rows of all lines are locked, and so the stock that *)
(* was found sufficient stays sufficient until it is deducted.             *)
LocksHeld ==
  \A r \in Requests :
    post[r].pc \in {"deduct", "insert", "commit"}
      => \A v \in Items(post[r].lines) : lock[v] = r

StockReserved ==
  \A r \in Requests :
    post[r].pc = "deduct" => \A v \in Variants : post[r].lines[v] <= stock[v]

StockInv == CheckoutTypeOK /\ LocksHeld /\ StockReserved

(* Keys: a snapshot shows committed orders only, no transaction goes on    *)
(* whose key it shows taken, and the index lets one of a kind in.          *)
SeenArePlaced == \A r \in Requests : post[r].seen \subseteq Placed

NoneSeen ==
  \A r \in Requests :
    post[r].pc \in InTransaction \ {"begin"} => \A q \in post[r].seen : ~ SameKey(r, q)

OneInserted ==
  \A r, q \in Requests :
    /\ post[r].pc \in {"commit", "created"}
    /\ post[q].pc \in {"commit", "created"}
    => ~ SameKey(r, q)

KeyInv == SeenArePlaced /\ NoneSeen /\ OneInserted
-----------------------------------------------------------------------------
LEMMA LinesType ==
  /\ EmptyLines \in Lines
  /\ \A lines \in Lines, v \in Variants : lines[v] \in Nat
  BY CheckoutAssumption DEF EmptyLines, Lines

LEMMA PcType ==
  ASSUME CheckoutTypeOK, NEW r \in Requests,
         NEW to \in {"idle"} \cup InTransaction \cup Answers,
         post' = [post EXCEPT ![r].pc = to]
  PROVE  post' \in [Requests -> [pc : {"idle"} \cup InTransaction \cup Answers,
                                 cart : Users \cup Requests,
                                 key : Keys \cup {NoKey},
                                 lines : Lines,
                                 seen : SUBSET Requests]]
  BY DEF CheckoutTypeOK

LEMMA ReleasedType ==
  ASSUME CheckoutTypeOK, NEW r \in Requests
  PROVE  /\ Released(r) \in [Variants -> Requests \cup {NoRequest}]
         /\ \A v \in Variants : lock[v] # r => Released(r)[v] = lock[v]
  BY DEF Released, CheckoutTypeOK

(* Undoing a transaction keeps the types and everybody else's locks and    *)
(* stock.                                                                  *)
LEMMA RollbackKeepsInv ==
  ASSUME StockInv, NEW r \in Requests, NEW answer \in Answers, Rollback(r, answer)
  PROVE  StockInv'
  <1> USE DEF StockInv
  <1>1. post' = [post EXCEPT ![r].pc = answer]
    BY DEF Rollback
  <1>2. \A v \in Variants : stock'[v] \in Nat /\ stock'[v] >= stock[v]
    BY LinesType DEF Rollback, CheckoutTypeOK
  <1>3. stock' \in [Variants -> Nat]
    BY <1>2 DEF Rollback, CheckoutTypeOK
  <1>4. CheckoutTypeOK'
    <2>1. post' \in [Requests -> [pc : {"idle"} \cup InTransaction \cup Answers,
                                  cart : Users \cup Requests,
                                  key : Keys \cup {NoKey},
                                  lines : Lines,
                                  seen : SUBSET Requests]]
      BY <1>1, PcType
    <2>2. QED  BY <2>1, <1>3, ReleasedType DEF Rollback, CheckoutTypeOK
  <1>5. \A q \in Requests : post'[q].pc \in InTransaction
                              => q # r /\ post'[q] = post[q]
    <2>1. \A q \in Requests : q # r => post'[q] = post[q]
      BY <1>1 DEF CheckoutTypeOK
    <2>2. post'[r].pc = answer
      BY <1>1 DEF CheckoutTypeOK
    <2>3. answer \notin InTransaction
      BY DEF InTransaction, Answers
    <2>4. QED  BY <2>1, <2>2, <2>3
  <1>6. LocksHeld'
    <2> SUFFICES ASSUME NEW q \in Requests, post'[q].pc \in {"deduct", "insert", "commit"},
                        NEW v \in Items(post'[q].lines)
                 PROVE  lock'[v] = q
      BY DEF LocksHeld
    <2>1. q # r /\ post'[q] = post[q]
      BY <1>5 DEF InTransaction
    <2>2. lock[v] = q /\ v \in Variants
      BY <2>1 DEF LocksHeld, Items
    <2>3. QED  BY <2>1, <2>2, ReleasedType DEF Rollback
  <1>7. StockReserved'
    <2> SUFFICES ASSUME NEW q \in Requests, post'[q].pc = "deduct", NEW v \in Variants
                 PROVE  post'[q].lines[v] <= stock'[v]
      BY DEF StockReserved
    <2>1. post'[q] = post[q]
      BY <1>5 DEF InTransaction
    <2>2. post[q].lines[v] <= stock[v] /\ post[q].lines[v] \in Nat /\ stock[v] \in Nat
      BY <2>1, LinesType DEF StockReserved, CheckoutTypeOK
    <2>3. QED  BY <1>2, <2>1, <2>2
  <1>8. QED  BY <1>4, <1>6, <1>7

(* Every step keeps the rows of open transactions locked and their stock   *)
(* reserved.                                                               *)
LEMMA StockStep == StockInv /\ [CheckoutNext]_checkoutVars => StockInv'
  <1> SUFFICES ASSUME StockInv, [CheckoutNext]_checkoutVars
               PROVE  StockInv'
    OBVIOUS
  <1> USE CheckoutAssumption, LinesType DEF StockInv
  <1>1. ASSUME NEW r \in Requests, NEW u \in Users, NEW k \in Keys, Post(r, u, k)
        PROVE  StockInv'
    <2>1. CheckoutTypeOK'
      BY <1>1 DEF Post, CheckoutTypeOK, InTransaction, Answers
    <2>2. \A q \in Requests : \/ post'[q] = post[q]
                              \/ post'[q].pc \in {"empty", "begin"}
      BY <1>1 DEF Post, CheckoutTypeOK
    <2>3. LocksHeld' /\ StockReserved'
      BY <1>1, <2>2 DEF Post, LocksHeld, StockReserved, Items
    <2>4. QED  BY <2>1, <2>3
  <1>2. ASSUME NEW r \in Requests, NEW lines \in Lines, GuestPost(r, lines)
        PROVE  StockInv'
    <2>1. CheckoutTypeOK'
      <3>1. PICK pc \in {"empty", "begin"} : post' = [post EXCEPT ![r].pc = pc]
        BY <1>2 DEF GuestPost
      <3>2. pc \in {"idle"} \cup InTransaction \cup Answers
        BY DEF InTransaction, Answers
      <3>3. cart' \in [Users \cup Requests -> Lines]
        BY <1>2 DEF GuestPost, CheckoutTypeOK
      <3>4. QED  BY <1>2, <3>1, <3>2, <3>3 DEF GuestPost, CheckoutTypeOK
    <2>2. \A q \in Requests : /\ post'[q].lines = post[q].lines
                              /\ post'[q].pc = post[q].pc \/ post'[q].pc \in {"empty", "begin"}
      BY <1>2 DEF GuestPost, CheckoutTypeOK
    <2>3. LocksHeld' /\ StockReserved'
      BY <1>2, <2>2 DEF GuestPost, LocksHeld, StockReserved, Items
    <2>4. QED  BY <2>1, <2>3
  <1>3. ASSUME NEW r \in Requests, ReadSnapshot(r)
        PROVE  StockInv'
    <2>1. Placed \in SUBSET Requests /\ cart[post[r].cart] \in Lines
      BY DEF Placed, CheckoutTypeOK
    <2>2. CheckoutTypeOK'
      BY <1>3, <2>1 DEF ReadSnapshot, CheckoutTypeOK, InTransaction, Answers
    <2>3. \A q \in Requests : \/ post'[q] = post[q]
                              \/ post'[q].pc \in {"existing", "empty", "lock"}
      BY <1>3 DEF ReadSnapshot, CheckoutTypeOK
    <2>4. LocksHeld' /\ StockReserved'
      BY <1>3, <2>3 DEF ReadSnapshot, LocksHeld, StockReserved, Items
    <2>5. QED  BY <2>2, <2>4
  <1>4. ASSUME NEW r \in Requests, LockVariant(r)
        PROVE  StockInv'
    <2>1. CheckoutTypeOK'
      BY <1>4 DEF LockVariant, CheckoutTypeOK
    <2>2. \A v \in Variants : lock[v] # NoRequest => lock'[v] = lock[v]
      BY <1>4 DEF LockVariant, CheckoutTypeOK
    <2>3. LocksHeld'
      BY <1>4, <2>2 DEF LockVariant, LocksHeld, Items
    <2>4. StockReserved'
      BY <1>4 DEF LockVariant, StockReserved
    <2>5. QED  BY <2>1, <2>3, <2>4
  <1>5. ASSUME NEW r \in Requests, CheckStock(r)
        PROVE  StockInv'
    <2>1. CASE Rollback(r, "out of stock")
      BY <2>1, RollbackKeepsInv DEF Answers
    <2>2. CASE ~ Rollback(r, "out of stock")
      <3>1. /\ post' = [post EXCEPT ![r].pc = "deduct"]
            /\ UNCHANGED <<stock, supply, lock, cart>>
            /\ \A v \in Variants : post[r].lines[v] <= stock[v]
            /\ Unlocked(r) = {}
        BY <1>5, <2>2 DEF CheckStock
      <3>2. CheckoutTypeOK'
        BY <3>1 DEF CheckoutTypeOK, InTransaction
      <3>3. \A q \in Requests : /\ post'[q].lines = post[q].lines
                                /\ q # r => post'[q].pc = post[q].pc
        BY <3>1 DEF CheckoutTypeOK
      <3>4. \A v \in Items(post[r].lines) : lock[v] = r
        BY <3>1 DEF Unlocked
      <3>5. LocksHeld'
        BY <3>1, <3>3, <3>4 DEF LocksHeld, Items
      <3>6. StockReserved'
        BY <3>1, <3>3 DEF StockReserved
      <3>7. QED  BY <3>2, <3>5, <3>6
    <2>3. QED  BY <2>1, <2>2
  <1>6. ASSUME NEW r \in Requests, Deduct(r)
        PROVE  StockInv'
    <2>1. \A v \in Variants : /\ stock'[v] = stock[v] - post[r].lines[v]
                              /\ stock'[v] \in Nat
      BY <1>6 DEF Deduct, CheckoutTypeOK, StockReserved
    <2>2. CheckoutTypeOK'
      <3>1. stock' \in [Variants -> Nat]
        BY <1>6, <2>1 DEF Deduct
      <3>2. QED  BY <1>6, <3>1 DEF Deduct, CheckoutTypeOK, InTransaction
    <2>3. \A q \in Requests : /\ post'[q].lines = post[q].lines
                              /\ q # r => post'[q].pc = post[q].pc
                              /\ q = r => post'[q].pc = "insert"
      BY <1>6 DEF Deduct, CheckoutTypeOK
    <2>4. LocksHeld'
      BY <1>6, <2>3 DEF Deduct, LocksHeld, Items
    <2>5. StockReserved'
      <3> SUFFICES ASSUME NEW q \in Requests, post'[q].pc = "deduct", NEW v \in Variants
                   PROVE  post'[q].lines[v] <= stock'[v]
        BY DEF StockReserved
      <3>1. q # r /\ post[q].pc = "deduct" /\ post'[q].lines = post[q].lines
        BY <2>3
      <3>2. post[q].lines[v] \in Nat /\ post[r].lines[v] \in Nat
        BY DEF CheckoutTypeOK
      <3>3. CASE post[q].lines[v] = 0
        BY <2>1, <3>1, <3>3
      <3>4. CASE post[q].lines[v] > 0
        <4>1. lock[v] = q
          BY <3>1, <3>4 DEF LocksHeld, Items
        <4>2. post[r].lines[v] = 0
          BY <1>6, <3>1, <3>2, <4>1 DEF Deduct, LocksHeld, Items
        <4>3. stock'[v] = stock[v]
          BY <2>1, <4>2 DEF CheckoutTypeOK
        <4>4. QED  BY <3>1, <4>3 DEF StockReserved
      <3>5. QED  BY <3>2, <3>3, <3>4
    <2>6. QED  BY <2>2, <2>4, <2>5
  <1>7. ASSUME NEW r \in Requests, InsertOrder(r)
        PROVE  StockInv'
    <2>1. CheckoutTypeOK'
      BY <1>7 DEF InsertOrder, CheckoutTypeOK, InTransaction
    <2>2. \A q \in Requests : /\ post'[q].lines = post[q].lines
                              /\ q # r => post'[q].pc = post[q].pc
                              /\ q = r => post'[q].pc = "commit" /\ post[q].pc = "insert"
      BY <1>7 DEF InsertOrder, CheckoutTypeOK
    <2>3. LocksHeld'
      BY <1>7, <2>2 DEF InsertOrder, LocksHeld, Items
    <2>4. StockReserved'
      BY <1>7, <2>2 DEF InsertOrder, StockReserved
    <2>5. QED  BY <2>1, <2>3, <2>4
  <1>8. ASSUME NEW r \in Requests, NEW answer \in {"existing", "created"},
               post' = [post EXCEPT ![r].pc = answer], lock' = Released(r),
               cart' \in [Users \cup Requests -> Lines], UNCHANGED <<stock, supply>>
        PROVE  StockInv'
    <2>1. CheckoutTypeOK'
      <3>1. answer \in {"idle"} \cup InTransaction \cup Answers
        BY DEF Answers
      <3>2. post' \in [Requests -> [pc : {"idle"} \cup InTransaction \cup Answers,
                                    cart : Users \cup Requests,
                                    key : Keys \cup {NoKey},
                                    lines : Lines,
                                    seen : SUBSET Requests]]
        BY <1>8, <3>1, PcType
      <3>3. lock' \in [Variants -> Requests \cup {NoRequest}]
        BY <1>8, ReleasedType
      <3>4. QED  BY <1>8, <3>2, <3>3 DEF CheckoutTypeOK
    <2>2. \A q \in Requests : /\ q # r => post'[q] = post[q]
                              /\ q = r => post'[q].pc = answer
      BY <1>8 DEF CheckoutTypeOK
    <2>3. LocksHeld'
      <3> SUFFICES ASSUME NEW q \in Requests, post'[q].pc \in {"deduct", "insert", "commit"},
                          NEW v \in Items(post'[q].lines)
                   PROVE  lock'[v] = q
        BY DEF LocksHeld
      <3>1. q # r /\ post'[q] = post[q]
        BY <2>2
      <3>2. lock[v] = q /\ v \in Variants
        BY <3>1 DEF LocksHeld, Items
      <3>3. QED  BY <1>8, <3>1, <3>2, ReleasedType
    <2>4. StockReserved'
      BY <1>8, <2>2 DEF StockReserved
    <2>5. QED  BY <2>1, <2>3, <2>4
  <1>9. ASSUME NEW r \in Requests, DuplicateKey(r)
        PROVE  StockInv'
    <2>1. CASE Rollback(r, "conflict")
      BY <2>1, RollbackKeepsInv DEF Answers
    <2>2. CASE ~ Rollback(r, "conflict")
      BY <1>8, <1>9, <2>2 DEF DuplicateKey, CheckoutTypeOK
    <2>3. QED  BY <2>1, <2>2
  <1>10. ASSUME NEW r \in Requests, Commit(r)
         PROVE  StockInv'
    <2>1. cart' \in [Users \cup Requests -> Lines]
      BY <1>10 DEF Commit, CheckoutTypeOK
    <2>2. QED  BY <1>8, <1>10, <2>1 DEF Commit
  <1>11. ASSUME NEW r \in Requests, Fail(r)
         PROVE  StockInv'
    BY <1>11, RollbackKeepsInv DEF Fail, Answers
  <1>12. ASSUME NEW u \in Users, NEW v \in Variants, AddToCart(u, v) \/ RemoveFromCart(u, v)
         PROVE  StockInv'
    <2>1. PICK n \in 0 .. MaxQty : cart' = [cart EXCEPT ![u][v] = n]
      <3>1. cart[u][v] \in 0 .. MaxQty
        BY DEF CheckoutTypeOK, Lines
      <3>2. QED  BY <1>12, <3>1 DEF AddToCart, RemoveFromCart
    <2>2. [cart[u] EXCEPT ![v] = n] \in Lines
      BY DEF CheckoutTypeOK, Lines
    <2>3. cart' \in [Users \cup Requests -> Lines]
      BY <2>1, <2>2 DEF CheckoutTypeOK
    <2>4. QED
      BY <1>12, <2>3 DEF AddToCart, RemoveFromCart, CheckoutTypeOK, LocksHeld, StockReserved
  <1>13. ASSUME NEW v \in Variants, NEW n \in Levels, UpdateVariant(v, n)
         PROVE  StockInv'
    <2>1. CheckoutTypeOK'
      BY <1>13 DEF UpdateVariant, CheckoutTypeOK
    <2>2. LocksHeld'
      BY <1>13 DEF UpdateVariant, LocksHeld
    <2>3. StockReserved'
      <3> SUFFICES ASSUME NEW q \in Requests, post[q].pc = "deduct", NEW w \in Variants
                   PROVE  post[q].lines[w] <= stock'[w]
        BY <1>13 DEF UpdateVariant, StockReserved
      <3>1. CASE w # v
        BY <1>13, <3>1 DEF UpdateVariant, StockReserved, CheckoutTypeOK
      <3>2. CASE w = v
        <4>1. post[q].lines[w] = 0
          BY <1>13, <3>2 DEF UpdateVariant, LocksHeld, Items, CheckoutTypeOK
        <4>2. QED  BY <1>13, <3>2, <4>1 DEF UpdateVariant, CheckoutTypeOK
      <3>3. QED  BY <3>1, <3>2
    <2>4. QED  BY <2>1, <2>2, <2>3
  <1>14. CASE UNCHANGED checkoutVars
    BY <1>14 DEF checkoutVars, CheckoutTypeOK, LocksHeld, StockReserved
  <1>15. QED
    BY <1>1, <1>2, <1>3, <1>4, <1>5, <1>6, <1>7, <1>9, <1>10, <1>11, <1>12, <1>13, <1>14
    DEF CheckoutNext, CreateFromCart

LEMMA StockInitially == CheckoutInit => StockInv
  BY CheckoutAssumption, LinesType
  DEF CheckoutInit, StockInv, CheckoutTypeOK, LocksHeld, StockReserved

(* No overselling: stock stays a natural number, and every variable keeps  *)
(* its type (the UPDATE of DeductStockInTx has no guard of its own).       *)
THEOREM StockNeverNegative == CheckoutSpec => []CheckoutTypeOK
  <1>1. StockInv => CheckoutTypeOK
    BY DEF StockInv
  <1>2. QED  BY <1>1, StockInitially, StockStep, PTL DEF CheckoutSpec
-----------------------------------------------------------------------------
(* The moves of a request: it is sent, it takes its snapshot, or it goes   *)
(* on with the key, the cart and the snapshot it has.                      *)
Later == { <<"lock", "deduct">>, <<"lock", "out of stock">>, <<"deduct", "insert">>,
           <<"insert", "commit">>, <<"insert", "existing">>, <<"insert", "conflict">>,
           <<"commit", "created">> }
         \cup (InTransaction \X {"failed"})

Sent(q) ==
  /\ post[q].pc = "idle"
  /\ post'[q].pc \in {"empty", "begin"}
  /\ post'[q].seen \in {{}, post[q].seen}

TakesSnapshot(q) ==
  /\ post[q].pc = "begin"
  /\ post'[q].pc \in {"existing", "empty", "lock"}
  /\ post'[q].pc = "lock" => \A w \in Placed : ~ SameKey(q, w)
  /\ post'[q].cart = post[q].cart /\ post'[q].key = post[q].key
  /\ post'[q].seen = Placed

GoesOn(q) ==
  /\ <<post[q].pc, post'[q].pc>> \in Later
  /\ post'[q].pc = "commit" => InsertOrder(q)
  /\ post'[q].cart = post[q].cart /\ post'[q].key = post[q].key
  /\ post'[q].seen = post[q].seen
  /\ post'[q].lines = post[q].lines

LEMMA RequestMoves ==
  ASSUME CheckoutTypeOK, CheckoutNext, NEW q \in Requests
  PROVE  post'[q] = post[q] \/ Sent(q) \/ TakesSnapshot(q) \/ GoesOn(q)
  <1>1. ASSUME NEW r \in Requests, NEW u \in Users, NEW k \in Keys, Post(r, u, k)
        PROVE  post'[q] = post[q] \/ Sent(q)
    BY <1>1 DEF Post, Sent, CheckoutTypeOK
  <1>2. ASSUME NEW r \in Requests, NEW lines \in Lines, GuestPost(r, lines)
        PROVE  post'[q] = post[q] \/ Sent(q)
    BY <1>2 DEF GuestPost, Sent, CheckoutTypeOK
  <1>3. ASSUME NEW r \in Requests, ReadSnapshot(r)
        PROVE  post'[q] = post[q] \/ TakesSnapshot(q)
    BY <1>3 DEF ReadSnapshot, TakesSnapshot, CheckoutTypeOK
  <1>4. ASSUME NEW r \in Requests, NEW to \in Answers \cup InTransaction,
               post' = [post EXCEPT ![r].pc = to], <<post[r].pc, to>> \in Later,
               to = "commit" => InsertOrder(r)
        PROVE  post'[q] = post[q] \/ GoesOn(q)
    BY <1>4 DEF GoesOn, CheckoutTypeOK
  <1>5. ASSUME NEW r \in Requests, CheckStock(r) \/ Deduct(r) \/ InsertOrder(r)
                                     \/ DuplicateKey(r) \/ Commit(r) \/ Fail(r)
        PROVE  post'[q] = post[q] \/ GoesOn(q)
    <2> DEFINE Goes(to) == /\ to \in Answers \cup InTransaction
                           /\ post' = [post EXCEPT ![r].pc = to]
                           /\ <<post[r].pc, to>> \in Later
                           /\ to = "commit" => InsertOrder(r)
    <2>1. CheckStock(r) => Goes("deduct") \/ Goes("out of stock")
      BY DEF CheckStock, Rollback, Answers, InTransaction, Later
    <2>2. Deduct(r) => Goes("insert")
      BY DEF Deduct, InTransaction, Later
    <2>3. InsertOrder(r) => Goes("commit")
      BY DEF InsertOrder, InTransaction, Later
    <2>4. DuplicateKey(r) => Goes("existing") \/ Goes("conflict")
      BY DEF DuplicateKey, Rollback, Answers, Later
    <2>5. Commit(r) => Goes("created")
      BY DEF Commit, Answers, Later
    <2>6. Fail(r) => Goes("failed")
      BY DEF Fail, Rollback, Answers, Later
    <2>7. \E to : Goes(to)
      BY <1>5, <2>1, <2>2, <2>3, <2>4, <2>5, <2>6
    <2>8. QED  BY <1>4, <2>7
  <1>6. ASSUME NEW r \in Requests, LockVariant(r)
        PROVE  post' = post
    BY <1>6 DEF LockVariant
  <1>7. ASSUME NEW u \in Users, NEW v \in Variants,
               AddToCart(u, v) \/ RemoveFromCart(u, v)
        PROVE  post' = post
    BY <1>7 DEF AddToCart, RemoveFromCart
  <1>8. ASSUME NEW v \in Variants, NEW n \in Levels, UpdateVariant(v, n)
        PROVE  post' = post
    BY <1>8 DEF UpdateVariant
  <1>9. QED
    BY <1>1, <1>2, <1>3, <1>5, <1>6, <1>7, <1>8 DEF CheckoutNext, CreateFromCart

(* A request that is under way keeps its key, a placed order its record.   *)
LEMMA KeysStay ==
  ASSUME CheckoutTypeOK, CheckoutNext, NEW q \in Requests
  PROVE  /\ post[q].pc # "idle" => post'[q].cart = post[q].cart /\ post'[q].key = post[q].key
         /\ q \in Placed => post'[q] = post[q] /\ q \in Placed'
  <1>1. post[q].pc = "created" => post'[q] = post[q]
    BY RequestMoves DEF Sent, TakesSnapshot, GoesOn, Later, InTransaction
  <1>2. QED  BY <1>1, RequestMoves DEF Sent, TakesSnapshot, GoesOn, Placed

LEMMA KeyStep == CheckoutTypeOK /\ KeyInv /\ CheckoutNext => KeyInv'
  <1> SUFFICES ASSUME CheckoutTypeOK, KeyInv, CheckoutNext
               PROVE  KeyInv'
    OBVIOUS
  <1> USE DEF KeyInv
  <1>1. SeenArePlaced'
    <2> SUFFICES ASSUME NEW r \in Requests, NEW q \in post'[r].seen
                 PROVE  q \in Placed'
      BY DEF SeenArePlaced
    <2>1. q \in post[r].seen \/ q \in Placed
      BY RequestMoves DEF Sent, TakesSnapshot, GoesOn
    <2>2. q \in Placed
      BY <2>1 DEF SeenArePlaced
    <2>3. QED  BY <2>2, KeysStay DEF Placed
  <1>2. NoneSeen'
    <2> SUFFICES ASSUME NEW r \in Requests, post'[r].pc \in InTransaction \ {"begin"},
                        NEW q \in post'[r].seen
                 PROVE  ~ SameKey(r, q)'
      BY DEF NoneSeen
    <2>1. /\ q \in Placed
          /\ ~ SameKey(r, q)
          /\ post[r].pc # "idle"
      <3>1. CASE post'[r] = post[r] \/ GoesOn(r)
        <4>1. post'[r].seen = post[r].seen /\ post[r].pc \in InTransaction \ {"begin"}
          BY <3>1 DEF GoesOn, Later, InTransaction
        <4>2. QED  BY <4>1 DEF SeenArePlaced, NoneSeen, InTransaction
      <3>2. CASE TakesSnapshot(r)
        BY <3>2 DEF TakesSnapshot, InTransaction
      <3>3. CASE Sent(r)
        BY <3>3 DEF Sent, InTransaction
      <3>4. QED  BY <3>1, <3>2, <3>3, RequestMoves
    <2>2. q \in Requests /\ post'[q] = post[q]
      BY <2>1, KeysStay DEF Placed
    <2>3. post'[r].cart = post[r].cart /\ post'[r].key = post[r].key
      BY <2>1, KeysStay
    <2>4. QED  BY <2>1, <2>2, <2>3 DEF SameKey
  <1>3. OneInserted'
    <2> SUFFICES ASSUME NEW r \in Requests, NEW q \in Requests,
                        post'[r].pc \in {"commit", "created"},
                        post'[q].pc \in {"commit", "created"}
                 PROVE  ~ SameKey(r, q)'
      BY DEF OneInserted
    <2>1. \A w \in {r, q} : /\ post'[w].cart = post[w].cart /\ post'[w].key = post[w].key
                            /\ post[w].pc \in {"commit", "created", "insert"}
      <3>1. \A w \in Requests : ~ (Sent(w) \/ TakesSnapshot(w))
                                 \/ post'[w].pc \notin {"commit", "created"}
        BY DEF Sent, TakesSnapshot
      <3>2. \A w \in Requests : GoesOn(w) /\ post'[w].pc \in {"commit", "created"}
                                 => post[w].pc \in {"commit", "insert"}
        BY DEF GoesOn, Later
      <3>3. QED  BY <3>1, <3>2, RequestMoves DEF GoesOn
    <2>2. SameKey(r, q)' <=> SameKey(r, q)
      BY <2>1 DEF SameKey
    <2>3. CASE post[r].pc # "insert" /\ post[q].pc # "insert"
      BY <2>1, <2>2, <2>3 DEF OneInserted
    <2>4. CASE post[r].pc = "insert" \/ post[q].pc = "insert"
      <3>1. \E w \in {r, q} : InsertOrder(w)
        <4>1. \A w \in {r, q} : post[w].pc = "insert" => InsertOrder(w)
          BY RequestMoves DEF Sent, TakesSnapshot, GoesOn, Later, InTransaction
        <4>2. QED  BY <2>4, <4>1
      <3>2. PICK w \in {r, q} : InsertOrder(w)
        BY <3>1
      <3>3. \A x \in Requests : x # w => post'[x] = post[x]
        BY <3>2 DEF InsertOrder, CheckoutTypeOK
      <3>4. \A x \in Requests : SameKey(w, x) => post'[x].pc \notin {"commit", "created"}
        BY <3>2, <3>3 DEF InsertOrder, SameKey
      <3>5. SameKey(r, q) => SameKey(q, r)
        BY DEF SameKey
      <3>6. QED  BY <2>2, <3>4, <3>5
    <2>5. QED  BY <2>3, <2>4
  <1>4. QED  BY <1>1, <1>2, <1>3

LEMMA KeyInitially == CheckoutInit => KeyInv
  BY DEF CheckoutInit, KeyInv, SeenArePlaced, NoneSeen, OneInserted, InTransaction

CheckoutInv == StockInv /\ KeyInv

THEOREM CheckoutInvariant == CheckoutSpec => []CheckoutInv
  <1>1. CheckoutInit => CheckoutInv
    BY StockInitially, KeyInitially DEF CheckoutInv
  <1>2. CheckoutInv /\ [CheckoutNext]_checkoutVars => CheckoutInv'
    <2>1. CheckoutInv /\ CheckoutNext => KeyInv'
      BY KeyStep DEF CheckoutInv, StockInv
    <2>2. CheckoutInv /\ UNCHANGED checkoutVars => KeyInv'
      BY DEF CheckoutInv, checkoutVars, KeyInv, SeenArePlaced, NoneSeen, OneInserted,
             SameKey, Placed
    <2>3. QED  BY <2>1, <2>2, StockStep DEF CheckoutInv
  <1>3. QED  BY <1>1, <1>2, PTL DEF CheckoutSpec

(* A key makes one order: the read at the start of CreateFromCart and the  *)
(* unique index leave no gap between them.                                 *)
THEOREM OneOrderForOneKey == CheckoutSpec => []OneOrderPerKey
  <1>1. CheckoutInv => OneOrderPerKey
    BY DEF CheckoutInv, KeyInv, OneInserted, OneOrderPerKey, Placed
  <1>2. QED  BY <1>1, CheckoutInvariant, PTL
-----------------------------------------------------------------------------
(* Units off the shelf.  A request that is among the takers before or      *)
(* after a step keeps its lines in it.                                     *)
LEMMA TakersKeepLines ==
  ASSUME CheckoutTypeOK, CheckoutNext, NEW r \in Takers \cup Takers'
  PROVE  post'[r].lines = post[r].lines
  BY RequestMoves DEF Takers, Sent, TakesSnapshot, GoesOn, Later, InTransaction

(* What they have taken changes as takers come and go.                     *)
LEMMA TakenMoves ==
  ASSUME CheckoutTypeOK, CheckoutNext, IsFiniteSet(Takers), NEW v \in Variants
  PROVE  /\ Takers' = Takers => Taken(v)' = Taken(v)
         /\ \A r \in Requests :
              /\ r \notin Takers /\ Takers' = Takers \cup {r}
                   => Taken(v)' = post[r].lines[v] + Taken(v)
              /\ r \in Takers /\ Takers' = Takers \ {r}
                   => Taken(v) = post[r].lines[v] + Taken(v)'
         /\ Taken(v) \in Int /\ (IsFiniteSet(Takers') => Taken(v)' \in Int)
         /\ \A r \in Requests : post[r].lines[v] \in Int
  <1> DEFINE lines == [r \in Requests |-> post[r].lines[v]]
             next  == [r \in Requests |-> post'[r].lines[v]]
  <1>1. /\ Takers \subseteq Requests /\ Takers' \subseteq Requests
        /\ \A r \in Requests : lines[r] \in Int
        /\ \A r \in Takers' : next[r] = lines[r]
    BY LinesType, TakersKeepLines DEF Takers, CheckoutTypeOK
  <1>2. /\ Taken(v) = SumFunctionOnSet(lines, Takers)
        /\ Taken(v)' = SumFunctionOnSet(next, Takers')
    BY DEF Taken
  <1>3. IsFiniteSet(Takers') => Taken(v)' = SumFunctionOnSet(lines, Takers')
    <2> HIDE DEF lines, next
    <2>1. QED  BY <1>1, <1>2, SumSame
  <1>4. \A r \in Requests : lines[r] = post[r].lines[v]
    OBVIOUS
  <1> HIDE DEF lines, next
  <1>5. Takers' = Takers => Taken(v)' = Taken(v)
    BY <1>2, <1>3
  <1>6. ASSUME NEW r \in Requests, r \notin Takers, Takers' = Takers \cup {r}
        PROVE  Taken(v)' = post[r].lines[v] + Taken(v)
    <2>1. IsFiniteSet(Takers')
      BY <1>6, FS_AddElement
    <2>2. SumFunctionOnSet(lines, Takers \cup {r}) = lines[r] + SumFunctionOnSet(lines, Takers)
      BY <1>1, <1>6, SumAdd
    <2>3. QED  BY <1>2, <1>3, <1>4, <1>6, <2>1, <2>2
  <1>7. ASSUME NEW r \in Requests, r \in Takers, Takers' = Takers \ {r}
        PROVE  Taken(v) = post[r].lines[v] + Taken(v)'
    <2>1. IsFiniteSet(Takers')
      BY <1>7, FS_RemoveElement
    <2>2. SumFunctionOnSet(lines, Takers) = lines[r] + SumFunctionOnSet(lines, Takers \ {r})
      BY <1>1, <1>7, SumRemove
    <2>3. QED  BY <1>2, <1>3, <1>4, <1>7, <2>1, <2>2
  <1>8. Taken(v) \in Int /\ (IsFiniteSet(Takers') => Taken(v)' \in Int)
    <2>1. \A r \in Takers' : lines[r] \in Int
      BY <1>1
    <2>2. QED  BY <1>1, <1>2, <1>3, <2>1, SumType
  <1>9. QED  BY <1>1, <1>4, <1>5, <1>6, <1>7, <1>8

Conserved == StockConserved /\ IsFiniteSet(Takers)

(* A step that leaves stock, supply and takers as they are.                *)
LEMMA SameTakers ==
  ASSUME CheckoutTypeOK, CheckoutNext, Conserved, UNCHANGED <<stock, supply>>,
         NEW r \in Requests, \A q \in Requests \ {r} : post'[q].pc = post[q].pc,
         r \in Takers <=> r \in Takers'
  PROVE  Conserved'
  <1>1. Takers' = Takers
    BY DEF Takers
  <1>2. QED  BY <1>1, TakenMoves DEF Conserved, StockConserved

(* Undoing a transaction puts back what it had taken.                      *)
LEMMA RollbackConserves ==
  ASSUME CheckoutTypeOK, CheckoutNext, Conserved, NEW r \in Requests,
         post[r].pc \in InTransaction, NEW answer \in Answers, answer # "created",
         Rollback(r, answer)
  PROVE  Conserved'
  <1>1. /\ \A q \in Requests \ {r} : post'[q].pc = post[q].pc
        /\ post'[r].pc = answer
    BY DEF Rollback, CheckoutTypeOK
  <1>2. CASE ~ Deducted(r)
    BY <1>1, <1>2, SameTakers DEF Rollback, Deducted, Takers, InTransaction, Answers
  <1>3. CASE Deducted(r)
    <2>1. r \in Takers /\ Takers' = Takers \ {r}
      BY <1>1, <1>3 DEF Takers, Deducted, Answers
    <2>2. IsFiniteSet(Takers')
      BY <2>1, FS_RemoveElement DEF Conserved
    <2>3. ASSUME NEW v \in Variants
          PROVE  stock'[v] + Taken(v)' = supply'[v]
      <3>1. /\ stock'[v] = stock[v] + post[r].lines[v]
            /\ supply' = supply
        BY <1>3 DEF Rollback, CheckoutTypeOK
      <3>2. Taken(v) = post[r].lines[v] + Taken(v)' /\ Taken(v) \in Int
        BY <2>1, TakenMoves DEF Conserved
      <3>3. Taken(v)' \in Int /\ post[r].lines[v] \in Int
        BY <2>2, TakenMoves DEF Conserved
      <3>4. stock[v] \in Nat /\ stock'[v] \in Int
        <4>1. stock[v] \in Nat
          BY DEF CheckoutTypeOK
        <4>2. QED  BY <3>1, <3>3, <4>1
      <3>5. stock[v] + Taken(v) = supply[v]
        BY DEF Conserved, StockConserved
      <3>6. QED  BY <3>1, <3>2, <3>3, <3>4, <3>5
    <2>4. QED  BY <2>2, <2>3 DEF Conserved, StockConserved
  <1>4. QED  BY <1>2, <1>3

LEMMA ConservedStep ==
  ASSUME CheckoutInv, CheckoutNext, Conserved
  PROVE  Conserved'
  <1>1. CheckoutTypeOK
    BY DEF CheckoutInv, StockInv
  <1>2. ASSUME NEW r \in Requests,
               \/ \E u \in Users, k \in Keys : Post(r, u, k)
               \/ \E lines \in Lines : GuestPost(r, lines)
               \/ ReadSnapshot(r) \/ LockVariant(r) \/ InsertOrder(r) \/ Commit(r)
        PROVE  Conserved'
    <2>1. UNCHANGED <<stock, supply>>
      BY <1>2 DEF Post, GuestPost, ReadSnapshot, LockVariant, InsertOrder, Commit
    <2>2. \A q \in Requests \ {r} : post'[q].pc = post[q].pc
      BY <1>1, <1>2
      DEF Post, GuestPost, ReadSnapshot, LockVariant, InsertOrder, Commit, CheckoutTypeOK
    <2>3. r \in Takers <=> r \in Takers'
      BY <1>1, <1>2
      DEF Post, GuestPost, ReadSnapshot, LockVariant, InsertOrder, Commit, CheckoutTypeOK,
          Takers
    <2>4. QED  BY <1>1, <2>1, <2>2, <2>3, SameTakers
  <1>3. ASSUME NEW r \in Requests, CheckStock(r)
        PROVE  Conserved'
    <2>1. CASE Rollback(r, "out of stock")
      BY <1>1, <1>3, <2>1, RollbackConserves DEF CheckStock, InTransaction, Answers
    <2>2. CASE ~ Rollback(r, "out of stock")
      BY <1>1, <1>3, <2>2, SameTakers DEF CheckStock, Takers, CheckoutTypeOK
    <2>3. QED  BY <2>1, <2>2
  <1>4. ASSUME NEW r \in Requests, Deduct(r)
        PROVE  Conserved'
    <2>1. r \notin Takers /\ Takers' = Takers \cup {r}
      BY <1>1, <1>4 DEF Deduct, Takers, CheckoutTypeOK
    <2>2. IsFiniteSet(Takers')
      BY <2>1, FS_AddElement DEF Conserved
    <2>3. ASSUME NEW v \in Variants
          PROVE  stock'[v] + Taken(v)' = supply'[v]
      <3>1. stock'[v] = stock[v] - post[r].lines[v] /\ supply' = supply
        BY <1>4 DEF Deduct
      <3>2. Taken(v)' = post[r].lines[v] + Taken(v) /\ Taken(v) \in Int
        BY <1>1, <2>1, TakenMoves DEF Conserved
      <3>3. stock[v] \in Int /\ post[r].lines[v] \in Int
        BY <1>1, TakenMoves DEF CheckoutTypeOK, Conserved
      <3>4. QED  BY <3>1, <3>2, <3>3 DEF Conserved, StockConserved
    <2>4. QED  BY <2>2, <2>3 DEF Conserved, StockConserved
  <1>5. ASSUME NEW r \in Requests, DuplicateKey(r)
        PROVE  Conserved'
    <2>1. ~ \E q \in post[r].seen : SameKey(r, q)
      BY <1>5 DEF DuplicateKey, CheckoutInv, KeyInv, NoneSeen, InTransaction
    <2>2. QED  BY <1>1, <1>5, <2>1, RollbackConserves
          DEF DuplicateKey, InTransaction, Answers
  <1>6. ASSUME NEW r \in Requests, Fail(r)
        PROVE  Conserved'
    BY <1>1, <1>6, RollbackConserves DEF Fail, Answers
  <1>7. ASSUME UNCHANGED post,
               \A w \in Variants : supply'[w] - stock'[w] = supply[w] - stock[w],
               \A w \in Variants : stock'[w] \in Int /\ supply'[w] \in Int
        PROVE  Conserved'
    <2>1. Takers' = Takers /\ \A w \in Variants : Taken(w)' = Taken(w) /\ Taken(w) \in Int
      BY <1>1, <1>7, TakenMoves DEF Takers, Conserved
    <2>2. \A w \in Variants : stock[w] \in Int /\ supply[w] \in Int
      BY <1>1 DEF CheckoutTypeOK
    <2>3. \A w \in Variants : stock'[w] + Taken(w)' = supply'[w]
      BY <1>7, <2>1, <2>2 DEF Conserved, StockConserved
    <2>4. QED  BY <2>1, <2>3 DEF Conserved, StockConserved
  <1>8. ASSUME NEW u \in Users, NEW v \in Variants, AddToCart(u, v) \/ RemoveFromCart(u, v)
        PROVE  Conserved'
    BY <1>1, <1>7, <1>8 DEF AddToCart, RemoveFromCart, CheckoutTypeOK
  <1>9. ASSUME NEW v \in Variants, NEW n \in Levels, UpdateVariant(v, n)
        PROVE  Conserved'
    <2>1. \A w \in Variants : /\ stock[w] \in Int /\ supply[w] \in Int /\ n \in Int
                              /\ stock'[w] = IF w = v THEN n ELSE stock[w]
                              /\ supply'[w] = IF w = v THEN supply[w] + n - stock[w]
                                              ELSE supply[w]
      BY <1>1, <1>9, CheckoutAssumption DEF UpdateVariant, CheckoutTypeOK
    <2>2. \A w \in Variants : /\ supply'[w] - stock'[w] = supply[w] - stock[w]
                              /\ stock'[w] \in Int /\ supply'[w] \in Int
      BY <2>1
    <2>3. QED  BY <1>7, <1>9, <2>2 DEF UpdateVariant
  <1>10. QED
    BY <1>2, <1>3, <1>4, <1>5, <1>6, <1>8, <1>9 DEF CheckoutNext, CreateFromCart

(* No unit is lost or sold twice, however many checkouts run at once, fail *)
(* half way or repeat each other.                                          *)
THEOREM NoUnitLost == CheckoutSpec => []StockConserved
  <1>1. CheckoutInit => Conserved
    <2> SUFFICES ASSUME CheckoutInit  PROVE Conserved
      OBVIOUS
    <2>1. Takers = {}
      BY DEF CheckoutInit, Takers
    <2>2. \A v \in Variants : Taken(v) = 0 /\ stock[v] \in Nat /\ supply[v] = stock[v]
      BY <2>1, SumEmpty, CheckoutAssumption DEF Taken, CheckoutInit
    <2>3. QED  BY <2>1, <2>2, FS_EmptySet DEF Conserved, StockConserved
  <1>2. CheckoutInv /\ Conserved /\ [CheckoutNext]_checkoutVars => Conserved'
    <2>1. CheckoutInv /\ Conserved /\ UNCHANGED checkoutVars => Conserved'
      BY DEF checkoutVars, Conserved, StockConserved, Taken, Takers
    <2>2. QED  BY <2>1, ConservedStep
  <1>3. Conserved => StockConserved
    BY DEF Conserved
  <1>4. QED  BY <1>1, <1>2, <1>3, CheckoutInvariant, PTL DEF CheckoutSpec
-----------------------------------------------------------------------------
(* What the promise sees of a state: the units that open transactions hold *)
(* count as available.                                                     *)
HeldAt(v) ==
  IF lock[v] \in Requests /\ Deducted(lock[v]) THEN post[lock[v]].lines[v] ELSE 0

Avail == [v \in Variants |-> stock[v] + HeldAt(v)]
PlacedOrders == {OrderOf(r) : r \in Placed}

LEMMA HeldElsewhere ==
  ASSUME CheckoutTypeOK, NEW r \in Requests, NEW v \in Variants,
         \A q \in Requests : q # r => post'[q] = post[q],
         lock[v] # r, lock'[v] = lock[v]
  PROVE  HeldAt(v)' = HeldAt(v)
  BY DEF HeldAt, Deducted

LEMMA HeldType ==
  ASSUME CheckoutTypeOK, NEW v \in Variants
  PROVE  HeldAt(v) \in Nat /\ stock[v] \in Nat
  BY LinesType DEF HeldAt, CheckoutTypeOK

(* What a transaction that has deducted holds, row by row.                 *)
LEMMA HeldByOne ==
  ASSUME StockInv, NEW r \in Requests, NEW v \in Variants
  PROVE  /\ Deducted(r) /\ lock[v] # r => post[r].lines[v] = 0
         /\ lock[v] = r => HeldAt(v) = IF Deducted(r) THEN post[r].lines[v] ELSE 0
  <1>1. post[r].lines[v] \in Nat
    BY LinesType DEF StockInv, CheckoutTypeOK
  <1>2. Deducted(r) /\ lock[v] # r => post[r].lines[v] = 0
    BY <1>1 DEF StockInv, LocksHeld, Items, Deducted
  <1>3. QED  BY <1>2 DEF HeldAt

(* Undoing a transaction changes nothing that can be ordered.              *)
LEMMA RollbackKeepsAvail ==
  ASSUME StockInv, NEW r \in Requests, NEW answer \in Answers, Rollback(r, answer)
  PROVE  Avail' = Avail
  <1> SUFFICES ASSUME NEW v \in Variants
               PROVE  stock'[v] + HeldAt(v)' = stock[v] + HeldAt(v)
    BY DEF Avail
  <1>1. CheckoutTypeOK
    BY DEF StockInv
  <1>2. stock'[v] = stock[v] + (IF Deducted(r) THEN post[r].lines[v] ELSE 0)
    BY <1>1 DEF Rollback, CheckoutTypeOK
  <1>3. CASE lock[v] = r
    <2>1. HeldAt(v)' = 0
      BY <1>3, CheckoutAssumption DEF Rollback, Released, HeldAt
    <2>2. HeldAt(v) = IF Deducted(r) THEN post[r].lines[v] ELSE 0
      BY <1>3, HeldByOne
    <2>3. stock[v] \in Nat /\ post[r].lines[v] \in Nat
      BY <1>1, LinesType DEF CheckoutTypeOK
    <2>4. QED  BY <1>2, <2>1, <2>2, <2>3
  <1>4. CASE lock[v] # r
    <2>1. lock'[v] = lock[v]
      BY <1>1, <1>4, ReleasedType DEF Rollback
    <2>2. \A q \in Requests : q # r => post'[q] = post[q]
      BY <1>1 DEF Rollback, CheckoutTypeOK
    <2>3. HeldAt(v)' = HeldAt(v)
      BY <1>1, <1>4, <2>1, <2>2, HeldElsewhere
    <2>4. stock'[v] = stock[v]
      BY <1>1, <1>2, <1>4, HeldByOne, HeldType
    <2>5. QED  BY <2>3, <2>4
  <1>5. QED  BY <1>3, <1>4

(* A request that moves without touching stock or locks, and holds after   *)
(* the step what it held before it.                                        *)
LEMMA MoveKeepsAvail ==
  ASSUME CheckoutTypeOK, NEW r \in Requests, UNCHANGED <<stock, lock>>,
         \A q \in Requests : q # r => post'[q] = post[q],
         \/ ~ Deducted(r) /\ ~ Deducted(r)'
         \/ Deducted(r) /\ Deducted(r)' /\ post'[r].lines = post[r].lines
  PROVE  Avail' = Avail
  BY DEF Avail, HeldAt, Deducted
-----------------------------------------------------------------------------
(* Steps that the promise does not see.                                    *)
Quiet == UNCHANGED <<Avail, supply, PlacedOrders>>

LEMMA PlacedStays ==
  ASSUME CheckoutTypeOK, CheckoutNext,
         \A q \in Requests : post'[q].pc = "created" => post[q].pc = "created"
  PROVE  PlacedOrders' = PlacedOrders
  <1>1. Placed' = Placed
    BY KeysStay DEF Placed
  <1>2. \A q \in Placed : OrderOf(q)' = OrderOf(q)
    BY KeysStay DEF OrderOf, Placed
  <1>3. QED  BY <1>1, <1>2 DEF PlacedOrders

(* Deducting moves units from the shelf to the transaction that holds the  *)
(* rows: the sum is the same.                                              *)
LEMMA DeductKeepsAvail ==
  ASSUME StockInv, NEW r \in Requests, Deduct(r)
  PROVE  Avail' = Avail
  <1> SUFFICES ASSUME NEW v \in Variants
               PROVE  stock'[v] + HeldAt(v)' = stock[v] + HeldAt(v)
    BY DEF Avail
  <1>1. CheckoutTypeOK
    BY DEF StockInv
  <1>2. /\ stock'[v] = stock[v] - post[r].lines[v]
        /\ stock[v] \in Nat /\ post[r].lines[v] \in Nat
    BY <1>1, LinesType DEF Deduct, CheckoutTypeOK
  <1>3. /\ post[r].pc = "deduct"
        /\ post'[r].pc = "insert" /\ post'[r].lines = post[r].lines
        /\ \A q \in Requests : q # r => post'[q] = post[q]
        /\ lock' = lock
    BY <1>1 DEF Deduct, CheckoutTypeOK
  <1>4. CASE lock[v] = r
    <2>1. HeldAt(v) = 0 /\ HeldAt(v)' = post[r].lines[v]
      BY <1>3, <1>4 DEF HeldAt, Deducted
    <2>2. QED  BY <1>2, <2>1
  <1>5. CASE lock[v] # r
    <2>1. HeldAt(v)' = HeldAt(v)
      BY <1>1, <1>3, <1>5, HeldElsewhere
    <2>2. post[r].lines[v] = 0
      BY <1>2, <1>3, <1>5 DEF StockInv, LocksHeld, Items
    <2>3. QED  BY <1>2, <2>1, <2>2
  <1>6. QED  BY <1>4, <1>5

(* COMMIT is the step that places the order.                               *)
LEMMA CommitPlaces ==
  ASSUME CheckoutInv, CheckoutNext, NEW r \in Requests, Commit(r),
         NEW o, o = OrderOf(r)
  PROVE  Promise!Place(o) /\ o \in PlacedOrders' \ PlacedOrders
  <1> USE DEF CheckoutInv, KeyInv
  <1>1. CheckoutTypeOK
    BY DEF StockInv
  <1>2. /\ post[r].pc = "commit" /\ Deducted(r) /\ r \notin Placed
        /\ \A q \in Requests : q # r => post'[q] = post[q]
        /\ OrderOf(r)' = OrderOf(r)
        /\ Placed' = Placed \cup {r}
        /\ UNCHANGED <<stock, supply>> /\ lock' = Released(r)
    BY <1>1 DEF Commit, CheckoutTypeOK, Deducted, Placed, OrderOf
  <1>3. PlacedOrders' = PlacedOrders \cup {OrderOf(r)}
    <2>1. \A q \in Placed : OrderOf(q)' = OrderOf(q)
      BY <1>2 DEF OrderOf, Placed
    <2>2. QED  BY <1>2, <2>1 DEF PlacedOrders
  <1>4. \A other \in PlacedOrders :
          other.id # r /\ ~ Promise!SameRequest(OrderOf(r), other)
    <2> SUFFICES ASSUME NEW q \in Placed
                 PROVE  q # r /\ ~ Promise!SameRequest(OrderOf(r), OrderOf(q))
      BY DEF PlacedOrders, OrderOf
    <2>1. q \in Requests /\ q # r /\ post[q].pc = "created"
      BY <1>2 DEF Placed
    <2>2. ~ SameKey(r, q)
      BY <1>2, <2>1 DEF OneInserted
    <2>3. QED  BY <2>1, <2>2 DEF SameKey, Promise!SameRequest, OrderOf
  <1>5. ASSUME NEW v \in Variants
        PROVE  /\ post[r].lines[v] <= Avail[v]
               /\ Avail'[v] = Avail[v] - post[r].lines[v]
    <2>1. /\ stock[v] \in Nat /\ HeldAt(v) \in Nat /\ post[r].lines[v] \in Nat
          /\ Avail[v] = stock[v] + HeldAt(v) /\ Avail'[v] = stock[v] + HeldAt(v)'
      BY <1>1, <1>2, HeldType, LinesType DEF Avail, CheckoutTypeOK
    <2>2. CASE lock[v] = r
      <3>1. HeldAt(v) = post[r].lines[v]
        BY <1>2, <2>2, HeldByOne
      <3>2. HeldAt(v)' = 0
        BY <1>2, <2>2, CheckoutAssumption DEF HeldAt, Released
      <3>3. QED  BY <2>1, <3>1, <3>2
    <2>3. CASE lock[v] # r
      <3>1. post[r].lines[v] = 0
        BY <1>2, <2>3, HeldByOne
      <3>2. lock'[v] = lock[v]
        BY <1>1, <1>2, <2>3, ReleasedType
      <3>3. HeldAt(v)' = HeldAt(v)
        BY <1>1, <1>2, <2>3, <3>2, HeldElsewhere
      <3>4. QED  BY <2>1, <3>1, <3>3
    <2>4. QED  BY <2>2, <2>3
  <1>6. Avail' = [v \in Variants |-> Avail[v] - post[r].lines[v]]
    BY <1>5 DEF Avail
  <1>7. QED
    <2>1. o.id = r /\ o.lines = post[r].lines
      BY DEF OrderOf
    <2>2. \A q \in PlacedOrders : q.id # o.id /\ ~ Promise!SameRequest(o, q)
      BY <1>4, <2>1
    <2>3. QED
      BY <1>2, <1>3, <1>4, <1>5, <1>6, <2>1, <2>2
      DEF Promise!Place, Avail, HeldAt, PlacedOrders

(* Every step places one order, restocks, or is quiet.                     *)
LEMMA CheckoutSimulates ==
  ASSUME CheckoutInv, CheckoutNext
  PROVE  Promise!InventoryNext \/ Quiet
  <1> USE DEF CheckoutInv
  <1>0. StockInv /\ CheckoutTypeOK
    BY DEF StockInv
  <1>1. ASSUME NEW r \in Requests, UNCHANGED <<stock, supply, lock>>,
               \A q \in Requests : q # r => post'[q] = post[q],
               \/ ~ Deducted(r) /\ ~ Deducted(r)'
               \/ Deducted(r) /\ Deducted(r)' /\ post'[r].lines = post[r].lines,
               post'[r].pc # "created" \/ post[r].pc = "created"
        PROVE  Quiet
    <2>1. Avail' = Avail
      BY <1>0, <1>1, MoveKeepsAvail
    <2>2. PlacedOrders' = PlacedOrders
      BY <1>0, <1>1, PlacedStays
    <2>3. QED  BY <1>1, <2>1, <2>2 DEF Quiet
  <1>2. ASSUME NEW r \in Requests,
               NEW answer \in {"out of stock", "conflict", "failed"}, Rollback(r, answer)
        PROVE  Quiet
    <2>1. Avail' = Avail
      BY <1>0, <1>2, RollbackKeepsAvail DEF Answers
    <2>2. \A q \in Requests : post'[q].pc = "created" => post[q].pc = "created"
      BY <1>0, <1>2 DEF Rollback, CheckoutTypeOK
    <2>3. QED  BY <1>0, <1>2, <2>1, <2>2, PlacedStays DEF Quiet, Rollback
  <1>3. ASSUME NEW r \in Requests, NEW u \in Users, NEW k \in Keys, Post(r, u, k)
        PROVE  Quiet
    BY <1>0, <1>1, <1>3 DEF Post, Deducted, CheckoutTypeOK
  <1>4. ASSUME NEW r \in Requests, NEW lines \in Lines, GuestPost(r, lines)
        PROVE  Quiet
    BY <1>0, <1>1, <1>4 DEF GuestPost, Deducted, CheckoutTypeOK
  <1>5. ASSUME NEW r \in Requests, ReadSnapshot(r)
        PROVE  Quiet
    BY <1>0, <1>1, <1>5 DEF ReadSnapshot, Deducted, CheckoutTypeOK
  <1>6. ASSUME NEW r \in Requests, LockVariant(r)
        PROVE  Quiet
    <2>1. PICK v \in Variants : lock[v] = NoRequest /\ lock' = [lock EXCEPT ![v] = r]
      BY <1>6 DEF LockVariant, NextRow, Unlocked, Items
    <2>2. post[r].pc = "lock" /\ UNCHANGED <<stock, supply, post>>
      BY <1>6 DEF LockVariant
    <2>3. \A w \in Variants : HeldAt(w)' = HeldAt(w)
      BY <1>0, <2>1, <2>2, CheckoutAssumption DEF HeldAt, Deducted, CheckoutTypeOK
    <2>4. QED
      BY <1>0, <2>2, <2>3, PlacedStays DEF Quiet, Avail
  <1>7. ASSUME NEW r \in Requests, CheckStock(r)
        PROVE  Quiet
    <2>1. CASE Rollback(r, "out of stock")
      BY <1>2, <2>1
    <2>2. CASE ~ Rollback(r, "out of stock")
      BY <1>0, <1>1, <1>7, <2>2 DEF CheckStock, Deducted, CheckoutTypeOK
    <2>3. QED  BY <2>1, <2>2
  <1>8. ASSUME NEW r \in Requests, Deduct(r)
        PROVE  Quiet
    <2>1. \A q \in Requests : post'[q].pc = "created" => post[q].pc = "created"
      BY <1>0, <1>8 DEF Deduct, CheckoutTypeOK
    <2>2. QED
      BY <1>0, <1>8, <2>1, DeductKeepsAvail, PlacedStays DEF Quiet, Deduct
  <1>9. ASSUME NEW r \in Requests, InsertOrder(r)
        PROVE  Quiet
    BY <1>0, <1>1, <1>9 DEF InsertOrder, Deducted, CheckoutTypeOK
  <1>10. ASSUME NEW r \in Requests, DuplicateKey(r)
         PROVE  Quiet
    <2>1. ~ \E q \in post[r].seen : SameKey(r, q)
      BY <1>10 DEF DuplicateKey, KeyInv, NoneSeen, InTransaction
    <2>2. QED  BY <1>2, <1>10, <2>1 DEF DuplicateKey
  <1>11. ASSUME NEW r \in Requests, Commit(r)
         PROVE  Promise!InventoryNext
    <2>1. PICK o \in [id : Requests, owner : Users \cup Requests,
                     key : Keys \cup {NoKey}, lines : Lines] : o = OrderOf(r)
      BY <1>0 DEF OrderOf, CheckoutTypeOK
    <2>2. Promise!Place(o) /\ o \in PlacedOrders' \ PlacedOrders
      BY <1>11, <2>1, CommitPlaces
    <2>3. QED  BY <2>1, <2>2 DEF Promise!InventoryNext, PlacedOrders
  <1>12. ASSUME NEW r \in Requests, Fail(r)
         PROVE  Quiet
    BY <1>2, <1>12 DEF Fail
  <1>13. ASSUME NEW u \in Users, NEW v \in Variants, AddToCart(u, v) \/ RemoveFromCart(u, v)
         PROVE  Quiet
    BY <1>0, <1>13, PlacedStays
    DEF AddToCart, RemoveFromCart, Quiet, Avail, HeldAt, Deducted
  <1>14. ASSUME NEW v \in Variants, NEW n \in Levels, UpdateVariant(v, n)
         PROVE  Promise!InventoryNext
    <2>1. UNCHANGED <<lock, post>> /\ lock[v] = NoRequest
      BY <1>14 DEF UpdateVariant
    <2>2. \A w \in Variants : HeldAt(w)' = HeldAt(w)
      BY <2>1 DEF HeldAt, Deducted
    <2>3. HeldAt(v) = 0 /\ stock[v] \in Nat /\ n \in Nat
      BY <1>0, <2>1, CheckoutAssumption DEF HeldAt, CheckoutTypeOK
    <2>4. Avail' = [Avail EXCEPT ![v] = n]
      <3>1. \A w \in Variants : stock'[w] = IF w = v THEN n ELSE stock[w]
        BY <1>0, <1>14 DEF UpdateVariant, CheckoutTypeOK
      <3>2. \A w \in Variants :
              stock'[w] + HeldAt(w)' = IF w = v THEN n ELSE stock[w] + HeldAt(w)
        BY <2>2, <2>3, <3>1
      <3>3. Avail' = [w \in Variants |-> IF w = v THEN n ELSE stock[w] + HeldAt(w)]
        BY <3>2 DEF Avail
      <3>4. QED  BY <3>3 DEF Avail
    <2>5. supply' = [supply EXCEPT ![v] = @ + n - Avail[v]]
      <3>1. Avail[v] = stock[v]
        BY <2>3 DEF Avail
      <3>2. QED  BY <1>14, <3>1 DEF UpdateVariant
    <2>6. PlacedOrders' = PlacedOrders
      BY <1>0, <2>1, PlacedStays
    <2>7. QED
      BY <2>4, <2>5, <2>6 DEF Promise!InventoryNext, Promise!Restock, Avail, HeldAt,
                              PlacedOrders
  <1>15. QED
    BY <1>3, <1>4, <1>5, <1>6, <1>7, <1>8, <1>9, <1>10, <1>11, <1>12, <1>13, <1>14
    DEF CheckoutNext, CreateFromCart

(* Checkout implements the promise of Inventory: whatever locks, snapshots *)
(* and failures do, orders take their units at once or not at all.         *)
THEOREM CheckoutImplementsInventory == CheckoutSpec => ImplementsInventory
  <1>1. CheckoutInit => Promise!InventoryInit
    <2> SUFFICES ASSUME CheckoutInit  PROVE Promise!InventoryInit
      OBVIOUS
    <2>1. Placed = {}
      BY DEF CheckoutInit, Placed
    <2>2. Avail = Shelf
      BY CheckoutAssumption DEF CheckoutInit, Avail, HeldAt
    <2>3. QED
      BY <2>1, <2>2 DEF CheckoutInit, Promise!InventoryInit, Avail, HeldAt
  <1>2. CheckoutInv /\ [CheckoutNext]_checkoutVars
          => [Promise!InventoryNext]_(Promise!inventoryVars)
    <2> SUFFICES ASSUME CheckoutInv, [CheckoutNext]_checkoutVars
                 PROVE  Promise!InventoryNext \/ Quiet
      BY DEF Promise!inventoryVars, Quiet, Avail, HeldAt, PlacedOrders
    <2>1. CASE CheckoutNext
      BY <2>1, CheckoutSimulates
    <2>2. CASE UNCHANGED checkoutVars
      BY <2>2 DEF checkoutVars, Quiet, Avail, HeldAt, Deducted, PlacedOrders, Placed, OrderOf
    <2>3. QED  BY <2>1, <2>2
  <1>3. QED
    BY <1>1, <1>2, CheckoutInvariant, PTL
    DEF CheckoutSpec, ImplementsInventory, Promise!InventorySpec
=============================================================================
