----------------------------- MODULE OrderAdmin -----------------------------
(***************************************************************************)
(* The rows of the orders table that payments, refunds and the back office *)
(* write, and the one operation the back office has on them:               *)
(* AdminService.Transition (internal/modules/orders/admin_service.go).     *)
(*                                                                         *)
(* Every order of an instance exists from the start: checkout has created  *)
(* it with status "created" and with refunded_cents zero.  Each operation  *)
(* that locks the order row (SELECT ... FOR UPDATE) before it reads or     *)
(* writes anything runs as one action.                                     *)
(***************************************************************************)
EXTENDS Integers

CONSTANTS
  Orders,   \* ids of the orders
  Total     \* orders.total_cents; one value serves every order of an instance

ASSUME OrderAssumption == Total \in Nat

VARIABLES
  status,     \* orders.status
  refunded,   \* orders.refunded_cents
  audit       \* the order_events rows

orderVars == <<status, refunded, audit>>
-----------------------------------------------------------------------------
OrderStatus == {"created", "cancelled", "paid", "shipped", "delivered",
                "partially_refunded", "refunded"}

(* The statuses of an order whose money has come in.                       *)
Settled == OrderStatus \ {"created", "cancelled"}

(* nextStatus(from, action): the allowed <<action, from, to>> triples.     *)
NextStatus == { <<"cancel",  "created", "cancelled">>,
                <<"ship",    "paid",    "shipped">>,
                <<"deliver", "shipped", "delivered">>,
                <<"refund",  "paid",    "refunded">> }

(* What POST /admin/orders/:id/:action can ask for.  "refund" is missing:  *)
(* the router sends POST /admin/orders/:id/refund to RefundOrder.          *)
AdminAction == {"cancel", "ship", "deliver"}

(* order_events rows; the refund and shipping services write some, too.    *)
AuditRow == [order : Orders,
             action : AdminAction \cup {"refund", "ship_manual", "shipment_queue"},
             from : OrderStatus, to : OrderStatus]

OrderTypeOK ==
  /\ status \in [Orders -> OrderStatus]
  /\ refunded \in [Orders -> 0 .. Total]
  /\ audit \subseteq AuditRow

OrderInit ==
  /\ status = [o \in Orders |-> "created"]
  /\ refunded = [o \in Orders |-> 0]
  /\ audit = {}
-----------------------------------------------------------------------------
(* A faulty MarkPaid: the status guard of the UPDATE is missing.           *)
MarkPaidUnguarded(o) == [status EXCEPT ![o] = "paid"]

(* UPDATE orders SET status = 'paid' WHERE id = o AND status = 'created':  *)
(* the value of status after it.                                           *)
MarkPaid(o) == [status EXCEPT ![o] = IF @ = "created" THEN "paid" ELSE @]

(* The refund bookkeeping on the order row: amount is added to             *)
(* refunded_cents, capped at the total, and the status follows from it.    *)
RefundsFully(o, amount) == refunded[o] + amount >= Total

(* A faulty AddRefund: the order's status is forgotten.                    *)
AddRefundKeepsStatus(o, amount) ==
  /\ refunded' = [refunded EXCEPT ![o] = IF RefundsFully(o, amount)
                                         THEN Total ELSE @ + amount]
  /\ UNCHANGED status

AddRefund(o, amount) ==
  /\ refunded' = [refunded EXCEPT ![o] = IF RefundsFully(o, amount)
                                         THEN Total ELSE @ + amount]
  /\ status' = [status EXCEPT ![o] = IF RefundsFully(o, amount)
                                     THEN "refunded"
                                     ELSE "partially_refunded"]

(* A faulty Transition that trusts a status read before the lock: it ships *)
(* or cancels whatever the order has become since.                         *)
TransitionStale(o, action) ==
  \E from \in {"created", "paid", "shipped"}, to \in OrderStatus :
    /\ <<action, from, to>> \in NextStatus
    /\ status' = [status EXCEPT ![o] = to]
    /\ audit' = audit \cup {[order |-> o, action |-> action,
                             from |-> from, to |-> to]}
    /\ UNCHANGED refunded

(* Transition: the row is locked, the target status comes from NextStatus  *)
(* and an order_events row records the step.  Any other action or status   *)
(* returns ErrInvalidTransition and rolls back.                            *)
Transition(o, action) ==
  \E to \in OrderStatus :
    /\ <<action, status[o], to>> \in NextStatus
    /\ status' = [status EXCEPT ![o] = to]
    /\ audit' = audit \cup {[order |-> o, action |-> action,
                             from |-> status[o], to |-> to]}
    /\ UNCHANGED refunded

RefundAuditRow(o, to) == [order |-> o, action |-> "refund", from |-> status[o], to |-> to]

(* Everything that payments, refunds and the back office ever do to an     *)
(* order: what a component beside them has to be prepared for.             *)
OrderStep(o) ==
  \/ status' = MarkPaid(o) /\ UNCHANGED <<refunded, audit>>
  \/ /\ status[o] \in Settled
     /\ \E amount \in 1 .. Total : AddRefund(o, amount)
     /\ audit' \in {audit, audit \cup {RefundAuditRow(o, status'[o])}}
  \/ /\ status[o] \in Settled
     /\ audit' = audit \cup {RefundAuditRow(o, status[o])}
     /\ UNCHANGED <<status, refunded>>
  \/ \E a \in AdminAction : Transition(o, a)
-----------------------------------------------------------------------------
(* Where an order can go from where it is.  Cancelled is final, refunded   *)
(* is final, nothing goes back to created, and only an open order is       *)
(* cancelled.                                                              *)
Moves == { <<"created", "cancelled">>, <<"created", "paid">>,
           <<"paid", "shipped">>, <<"shipped", "delivered">> }
         \cup ((Settled \ {"refunded"}) \X {"partially_refunded", "refunded"})

(* Whatever admins, PayOrder calls, refunds and webhooks do concurrently,  *)
(* the status column only moves along Moves: the guards of nextStatus and  *)
(* of UPDATE ... WHERE status = 'created' are enough against stale reads.  *)
StatusMoves ==
  [][\A o \in Orders :
       status'[o] # status[o] => <<status[o], status'[o]>> \in Moves]_orderVars

(* Payments, refunds and the back office touch the orders in these ways    *)
(* only: no refund for an order whose money has not come in, none of zero. *)
OrderSteps == [][\E o \in Orders : OrderStep(o)]_orderVars

Recorded(o, action) == \E row \in audit : row.order = o /\ row.action = action

ShipRecorded(o) == Recorded(o, "ship") \/ Recorded(o, "ship_manual")

(* order_events tells the truth about the warehouse: a shipped order has   *)
(* its ship row, a delivered order also its deliver row, a cancelled order *)
(* its cancel row, and no order was both cancelled and shipped.            *)
AuditTrail ==
  \A o \in Orders :
    /\ status[o] \in {"shipped", "delivered"} => ShipRecorded(o)
    /\ status[o] = "delivered" => Recorded(o, "deliver")
    /\ status[o] = "cancelled" => Recorded(o, "cancel")
    /\ ~ (Recorded(o, "cancel") /\ ShipRecorded(o))
=============================================================================
