--------------------------- MODULE ShippingProofs ---------------------------
(***************************************************************************)
(* Proofs about Shipping, for any number of orders, shipments and workers, *)
(* any batch and any limit of attempts, and any number of crashes.         *)
(***************************************************************************)
EXTENDS Shipping, TLAPS

(* The inductive invariant.  What a worker has in hand is locked by it,    *)
(* and has a label exactly if it is the job at hand, past its label.       *)
HasLabel(w) == worker[w].pc \in {"labelled", "read"}

HoldsOwn(w) ==
  /\ worker[w].pc = "idle" => worker[w].todo = {}
  /\ HasLabel(w) => worker[w].at \in worker[w].todo
  /\ worker[w].pc = "read" => worker[w].seen \in Shippable
  /\ \A s \in worker[w].todo :
       /\ job[s].status = "processing" /\ job[s].by = w
       /\ labels[s] = IF HasLabel(w) /\ worker[w].at = s THEN 1 ELSE 0

WorkersHoldOwn == \A w \in Workers : HoldsOwn(w)

(* A job, its shipment and its label agree.                                *)
JobAgrees(s) ==
  /\ labels[s] \in {0, 1} /\ mails[s] \in {0, 1}
  /\ mails[s] = 1 => shipment[s].status = "shipped"
  /\ job[s].status = "none" => /\ labels[s] = 0 /\ job[s].attempts = 0
                               /\ job[s].by = NoWorker
                               /\ shipment[s].status \in {"none", "shipped"}
  /\ job[s].status = "pending" => labels[s] = 0
  /\ job[s].status \in {"pending", "processing"}
       => shipment[s].status = "pending" /\ job[s].attempts < MaxAttempts
  /\ job[s].status = "succeeded" => labels[s] = 1 /\ shipment[s].status = "shipped"
  /\ job[s].status = "failed" => labels[s] = 0 /\ shipment[s].status = "failed"

JobsAgree == \A s \in Shipments : JobAgrees(s)

(* The order of a shipment was paid for; a shipment under way is on record *)
(* and a job that nobody will ever touch again is explained.               *)
Unshippable == {"delivered", "partially_refunded", "refunded"}

OrderFits(s) ==
  /\ shipment[s].status # "none"
       => shipment[s].order \in Orders /\ status[shipment[s].order] \in Settled
  /\ shipment[s].status = "shipped" => ShipRecorded(shipment[s].order)
  /\ Orphaned(s) /\ faults = 0 => status[shipment[s].order] \in Unshippable

OrdersOfShipments == \A s \in Shipments : OrderFits(s)

(* What order_events and refunded_cents say of the status.                 *)
RowsAgree ==
  \A o \in Orders :
    /\ status[o] \in {"shipped", "delivered"} => ShipRecorded(o)
    /\ status[o] = "delivered" => Recorded(o, "deliver")
    /\ status[o] = "cancelled" <=> Recorded(o, "cancel")
    /\ ShipRecorded(o) => status[o] \in Settled
    /\ status[o] = "refunded" => refunded[o] = Total

ShipInv == /\ ShippingTypeOK
           /\ WorkersHoldOwn
           /\ JobsAgree
           /\ OrdersOfShipments
           /\ RowsAgree
-----------------------------------------------------------------------------
(* The orders: what a step of payments, refunds or admins does, and what   *)
(* one more order_events row does.                                         *)
LEMMA RecordedMonotone ==
  ASSUME audit \subseteq audit', NEW o, NEW a, Recorded(o, a)
  PROVE  Recorded(o, a)'
  BY DEF Recorded

LEMMA RecordedByRow ==
  ASSUME NEW o, NEW a, NEW from, NEW to,
         audit' = audit \cup {[order |-> o, action |-> a, from |-> from, to |-> to]}
  PROVE  \A q, b : Recorded(q, b)' <=> (Recorded(q, b) \/ (q = o /\ b = a))
  <1> DEFINE row == [order |-> o, action |-> a, from |-> from, to |-> to]
  <1>1. row.order = o /\ row.action = a
    OBVIOUS
  <1>2. \A q, b : (\E r \in audit' : r.order = q /\ r.action = b)
                   <=> \/ \E r \in audit : r.order = q /\ r.action = b
                       \/ row.order = q /\ row.action = b
    <2> HIDE DEF row
    <2>1. audit' = audit \cup {row}
      BY DEF row
    <2>2. QED  BY <2>1
  <1>3. QED  BY <1>1, <1>2 DEF Recorded

LEMMA AddRefundShape ==
  ASSUME OrderTypeOK, NEW o \in Orders, NEW amount \in 1 .. Total, AddRefund(o, amount)
  PROVE  /\ status' \in [Orders -> OrderStatus] /\ refunded' \in [Orders -> 0 .. Total]
         /\ \A q \in Orders \ {o} : status'[q] = status[q] /\ refunded'[q] = refunded[q]
         /\ \/ status'[o] = "refunded" /\ refunded'[o] = Total
            \/ status'[o] = "partially_refunded" /\ refunded[o] < Total
  <1>1. refunded[o] \in 0 .. Total
    BY DEF OrderTypeOK
  <1>2. CASE RefundsFully(o, amount)
    BY <1>1, <1>2, OrderAssumption DEF AddRefund, OrderTypeOK, OrderStatus
  <1>3. CASE ~ RefundsFully(o, amount)
    <2>1. refunded[o] + amount \in 0 .. Total /\ refunded[o] < Total
      BY <1>1, <1>3, OrderAssumption DEF RefundsFully
    <2>2. QED  BY <1>3, <2>1 DEF AddRefund, OrderTypeOK, OrderStatus
  <1>4. QED  BY <1>2, <1>3

LEMMA OrderStepType ==
  ASSUME OrderTypeOK, NEW o \in Orders, OrderStep(o)
  PROVE  OrderTypeOK' /\ audit \subseteq audit'
  <1> USE DEF OrderTypeOK, AuditRow
  <1>1. CASE status' = MarkPaid(o) /\ UNCHANGED <<refunded, audit>>
    BY <1>1 DEF MarkPaid, OrderStatus
  <1>2. ASSUME NEW amount \in 1 .. Total, AddRefund(o, amount),
               audit' \in {audit, audit \cup {RefundAuditRow(o, status'[o])}}
        PROVE  OrderTypeOK' /\ audit \subseteq audit'
    <2>1. status' \in [Orders -> OrderStatus] /\ refunded' \in [Orders -> 0 .. Total]
      BY <1>2, AddRefundShape
    <2>2. RefundAuditRow(o, status'[o]) \in AuditRow
      BY <2>1 DEF RefundAuditRow
    <2>3. QED  BY <1>2, <2>1, <2>2
  <1>3. CASE audit' = audit \cup {RefundAuditRow(o, status[o])} /\ UNCHANGED <<status, refunded>>
    BY <1>3 DEF RefundAuditRow
  <1>4. ASSUME NEW a \in AdminAction, Transition(o, a)
        PROVE  OrderTypeOK' /\ audit \subseteq audit'
    BY <1>4 DEF Transition
  <1>5. QED  BY <1>1, <1>2, <1>3, <1>4 DEF OrderStep

(* Where OrderStep takes an order, and the rows that go with it.           *)
LEMMA OrderStepMoves ==
  ASSUME OrderTypeOK, RowsAgree, NEW o \in Orders, OrderStep(o)
  PROVE  /\ \A q \in Orders :
              status'[q] # status[q] => <<status[q], status'[q]>> \in Moves
         /\ RowsAgree'
  <1> USE DEF OrderTypeOK
  <1>1. OrderTypeOK' /\ audit \subseteq audit'
    BY OrderStepType
  <1>2. CASE status' = MarkPaid(o) /\ UNCHANGED <<refunded, audit>>
    BY <1>2 DEF MarkPaid, Moves, RowsAgree, ShipRecorded, Recorded, Settled, OrderStatus
  <1>3. ASSUME NEW amount \in 1 .. Total, AddRefund(o, amount), status[o] \in Settled,
               audit' \in {audit, audit \cup {RefundAuditRow(o, status'[o])}}
        PROVE  /\ \A q \in Orders :
                    status'[q] # status[q] => <<status[q], status'[q]>> \in Moves
               /\ RowsAgree'
    <2>1. /\ \A q \in Orders \ {o} : status'[q] = status[q] /\ refunded'[q] = refunded[q]
          /\ \/ status'[o] = "refunded" /\ refunded'[o] = Total
             \/ status'[o] = "partially_refunded" /\ refunded[o] < Total
      BY <1>3, AddRefundShape
    <2>2. status[o] = "refunded" => status'[o] = "refunded"
      BY <2>1, OrderAssumption DEF RowsAgree
    <2>3. \A q \in Orders : status'[q] # status[q] => <<status[q], status'[q]>> \in Moves
      BY <1>3, <2>1, <2>2 DEF Moves
    <2>4. \A q \in Orders : \A a \in AdminAction \cup {"ship_manual"} :
            Recorded(q, a)' <=> Recorded(q, a)
      <3>1. CASE audit' = audit
        BY <3>1 DEF Recorded
      <3>2. CASE audit' = audit \cup {RefundAuditRow(o, status'[o])}
        BY <3>2, RecordedByRow DEF RefundAuditRow, AdminAction
      <3>3. QED  BY <1>3, <3>1, <3>2
    <2>5. RowsAgree'
      BY <1>3, <2>1, <2>4 DEF RowsAgree, ShipRecorded, Settled, AdminAction, OrderStatus
    <2>6. QED  BY <2>3, <2>5
  <1>4. CASE audit' = audit \cup {RefundAuditRow(o, status[o])} /\ UNCHANGED <<status, refunded>>
    <2>1. \A q \in Orders : \A a \in AdminAction \cup {"ship_manual"} :
            Recorded(q, a)' <=> Recorded(q, a)
      BY <1>4, RecordedByRow DEF RefundAuditRow, AdminAction
    <2>2. QED  BY <1>4, <2>1 DEF RowsAgree, ShipRecorded, AdminAction
  <1>5. ASSUME NEW a \in AdminAction, Transition(o, a)
        PROVE  /\ \A q \in Orders :
                    status'[q] # status[q] => <<status[q], status'[q]>> \in Moves
               /\ RowsAgree'
    <2>1. PICK to \in OrderStatus :
            /\ <<a, status[o], to>> \in NextStatus
            /\ status' = [status EXCEPT ![o] = to]
            /\ audit' = audit \cup {[order |-> o, action |-> a, from |-> status[o], to |-> to]}
            /\ UNCHANGED refunded
      BY <1>5 DEF Transition
    <2>2. \A q \in Orders, b \in AdminAction \cup {"ship_manual"} :
            Recorded(q, b)' <=> (Recorded(q, b) \/ (q = o /\ b = a))
      BY <2>1, RecordedByRow
    <2>3. /\ status'[o] = to
          /\ \/ a = "cancel" /\ status[o] = "created" /\ to = "cancelled"
             \/ a = "ship" /\ status[o] = "paid" /\ to = "shipped"
             \/ a = "deliver" /\ status[o] = "shipped" /\ to = "delivered"
      BY <2>1 DEF NextStatus, AdminAction
    <2>4. \A q \in Orders \ {o} : status'[q] = status[q]
      BY <2>1
    <2>5. \A q \in Orders : status'[q] # status[q] => <<status[q], status'[q]>> \in Moves
      BY <2>3, <2>4 DEF Moves
    <2>6. RowsAgree'
      BY <2>1, <2>2, <2>3, <2>4
      DEF RowsAgree, ShipRecorded, Settled, AdminAction, OrderStatus
    <2>7. QED  BY <2>5, <2>6
  <1>6. QED  BY <1>2, <1>3, <1>4, <1>5 DEF OrderStep

(* What Promote leaves: one order at most changes, from paid to shipped.   *)
LEMMA PromoteShape ==
  ASSUME OrderTypeOK, NEW o \in Orders, NEW seen
  PROVE  /\ Promote(o, seen) \in [Orders -> OrderStatus]
         /\ \A q \in Orders : \/ Promote(o, seen)[q] = status[q]
                              \/ q = o /\ status[q] = "paid" /\ Promote(o, seen)[q] = "shipped"
  BY DEF Promote, OrderTypeOK, OrderStatus

LEMMA ShipRowType ==
  ASSUME OrderTypeOK, NEW o \in Orders, NEW a \in {"ship", "ship_manual", "shipment_queue"},
         NEW from \in OrderStatus, NEW to \in OrderStatus,
         audit' = audit \cup {ShipRow(o, a, from, to)}
  PROVE  audit' \subseteq AuditRow
  <1>1. ShipRow(o, a, from, to) \in AuditRow
    BY DEF ShipRow, AuditRow, AdminAction
  <1>2. QED  BY <1>1 DEF OrderTypeOK

LEMMA ShipRowShape ==
  ASSUME NEW o, NEW a, NEW from, NEW to, audit' = audit \cup {ShipRow(o, a, from, to)}
  PROVE  /\ audit \subseteq audit'
         /\ \A q, b : Recorded(q, b)' <=> (Recorded(q, b) \/ (q = o /\ b = a))
  BY RecordedByRow DEF ShipRow

LEMMA JobRowType ==
  ASSUME NEW st \in {"none", "pending", "processing", "succeeded", "failed"},
         NEW n \in 0 .. MaxAttempts, NEW w \in Workers \cup {NoWorker}
  PROVE  JobRow(st, n, w) \in JobRows
  BY DEF JobRow, JobRows

(* The next job of the batch.                                              *)
LEMMA ThroughShape ==
  ASSUME worker \in [Workers -> WorkerStates], NEW w \in Workers, NEW s, worker' = Through(w, s)
  PROVE  /\ worker' \in [Workers -> WorkerStates]
         /\ \A v \in Workers \ {w} : worker'[v] = worker[v]
         /\ worker'[w].todo = worker[w].todo \ {s}
         /\ worker'[w].pc \in {"idle", "busy"}
         /\ worker'[w].pc = "idle" => worker'[w].todo = {}
  <1> DEFINE rest == worker[w].todo \ {s}
             next == IF rest = {} THEN IdleWorker ELSE BusyWorker(rest)
  <1>1. rest \in SUBSET Shipments /\ "paid" \in OrderStatus
    BY DEF WorkerStates, OrderStatus
  <1>2. /\ next \in WorkerStates /\ next.todo = rest
        /\ next.pc \in {"idle", "busy"} /\ (next.pc = "idle" => rest = {})
    BY <1>1 DEF IdleWorker, BusyWorker, WorkerStates
  <1>3. worker' = [worker EXCEPT ![w] = next]
    BY DEF Through
  <1> HIDE DEF next
  <1>4. worker'[w] = next /\ \A v \in Workers \ {w} : worker'[v] = worker[v]
    BY <1>3
  <1>5. worker' \in [Workers -> WorkerStates]
    BY <1>2, <1>3
  <1>6. QED  BY <1>2, <1>4, <1>5

LEMMA ShipInitially == ShippingInit => ShipInv
  <1> SUFFICES ASSUME ShippingInit  PROVE ShipInv
    OBVIOUS
  <1> USE ShippingAssumption DEF ShippingInit, OrderInit, JobRow, IdleWorker
  <1>1. ShippingTypeOK
    BY OrderAssumption DEF ShippingTypeOK, OrderTypeOK, OrderStatus, ShipmentRows, JobRows, WorkerStates
  <1>2. WorkersHoldOwn
    BY DEF WorkersHoldOwn, HoldsOwn, HasLabel
  <1>3. JobsAgree
    BY DEF JobsAgree, JobAgrees
  <1>4. OrdersOfShipments
    BY DEF OrdersOfShipments, OrderFits, Orphaned
  <1>5. RowsAgree
    BY DEF RowsAgree, ShipRecorded, Recorded
  <1>6. QED  BY <1>1, <1>2, <1>3, <1>4, <1>5 DEF ShipInv
-----------------------------------------------------------------------------
(* The invariant is preserved: one lemma per action.                       *)
LEMMA QueueShipmentKeeps ==
  ASSUME ShipInv, NEW s \in Shipments, NEW o \in Orders, QueueShipment(s, o)
  PROVE  ShipInv'
  <1> USE ShippingAssumption DEF ShipInv, ShippingTypeOK, QueueShipment
  <1>1. \A q, b : Recorded(q, b)' <=> (Recorded(q, b) \/ (q = o /\ b = "shipment_queue"))
    BY ShipRowShape
  <1>2. job[s].status = "none" /\ job[s].attempts = 0
    BY DEF JobsAgree, JobAgrees, JobRows
  <1>3. ShippingTypeOK'
    <2>1. status[o] \in OrderStatus
      BY DEF OrderTypeOK
    <2>2. OrderTypeOK'
      BY <2>1, ShipRowType DEF OrderTypeOK
    <2>3. shipment' \in [Shipments -> ShipmentRows]
      BY DEF ShipmentRows
    <2>4. JobRow("pending", 0, NoWorker) \in JobRows
      BY JobRowType
    <2>5. job' \in [Shipments -> JobRows]
      BY <2>4
    <2>6. QED  BY <2>2, <2>3, <2>5
  <1>4. /\ job'[s] = JobRow("pending", 0, NoWorker)
        /\ shipment'[s] = [order |-> o, status |-> "pending"]
        /\ \A t \in Shipments \ {s} : job'[t] = job[t] /\ shipment'[t] = shipment[t]
    OBVIOUS
  <1>5. WorkersHoldOwn'
    BY <1>2, <1>4 DEF WorkersHoldOwn, HoldsOwn, HasLabel, WorkerStates
  <1>6. JobsAgree'
    BY <1>2, <1>4 DEF JobsAgree, JobAgrees, JobRow
  <1>7. OrdersOfShipments'
    <2> SUFFICES ASSUME NEW t \in Shipments  PROVE OrderFits(t)'
      BY DEF OrdersOfShipments
    <2>1. CASE t = s
      BY <1>4, <2>1 DEF OrderFits, Orphaned, JobRow, Shippable, Settled, OrderStatus
    <2>2. CASE t # s
      BY <1>1, <1>4, <2>2 DEF OrdersOfShipments, OrderFits, ShipRecorded, Orphaned, Held
    <2>3. QED  BY <2>1, <2>2
  <1>8. RowsAgree'
    BY <1>1 DEF RowsAgree, ShipRecorded
  <1>9. QED  BY <1>3, <1>5, <1>6, <1>7, <1>8

LEMMA CreateManualShipmentKeeps ==
  ASSUME ShipInv, NEW s \in Shipments, NEW o \in Orders, CreateManualShipment(s, o)
  PROVE  ShipInv'
  <1> USE ShippingAssumption DEF ShipInv, ShippingTypeOK, CreateManualShipment
  <1>1. /\ audit \subseteq audit'
        /\ \A q, b : Recorded(q, b)' <=> (Recorded(q, b) \/ (q = o /\ b = "ship_manual"))
    BY ShipRowShape
  <1>2. job[s].status = "none" /\ job[s].attempts = 0
    BY DEF JobsAgree, JobAgrees, JobRows
  <1>3. /\ status' \in [Orders -> OrderStatus]
        /\ \A q \in Orders : \/ status'[q] = status[q]
                             \/ q = o /\ status[q] = "paid" /\ status'[q] = "shipped"
    BY PromoteShape
  <1>4. ShippingTypeOK'
    <2>1. status[o] \in OrderStatus /\ "shipped" \in OrderStatus
      BY DEF OrderTypeOK, OrderStatus
    <2>2. OrderTypeOK'
      BY <1>3, <2>1, ShipRowType DEF OrderTypeOK
    <2>3. shipment' \in [Shipments -> ShipmentRows]
      BY DEF ShipmentRows
    <2>4. mails' \in [Shipments -> Nat]
      OBVIOUS
    <2>5. QED  BY <2>2, <2>3, <2>4
  <1>5. /\ shipment'[s] = [order |-> o, status |-> "shipped"] /\ mails'[s] \in {mails[s], 1}
        /\ \A t \in Shipments \ {s} : mails'[t] = mails[t] /\ shipment'[t] = shipment[t]
    OBVIOUS
  <1>6. WorkersHoldOwn'
    BY DEF WorkersHoldOwn, HoldsOwn, HasLabel
  <1>7. JobsAgree'
    BY <1>2, <1>5 DEF JobsAgree, JobAgrees
  <1>8. OrdersOfShipments'
    <2> SUFFICES ASSUME NEW t \in Shipments  PROVE OrderFits(t)'
      BY DEF OrdersOfShipments
    <2>1. CASE t = s
      BY <1>1, <1>2, <1>3, <1>5, <2>1
      DEF OrderFits, ShipRecorded, Orphaned, Shippable, Settled, OrderStatus
    <2>2. CASE t # s
      <3>1. OrderFits(t) /\ (Orphaned(t)' <=> Orphaned(t)) /\ faults' = faults
        BY DEF OrdersOfShipments, Orphaned, Held
      <3>2. /\ shipment'[t] = shipment[t]
            /\ shipment[t].status # "none" => shipment[t].order \in Orders
        BY <1>5, <2>2, <3>1 DEF OrderFits
      <3>3. Orphaned(t) => shipment[t].status = "pending"
        BY DEF Orphaned, JobsAgree, JobAgrees
      <3>4. QED
        BY <1>1, <1>3, <3>1, <3>2, <3>3
        DEF OrderFits, ShipRecorded, Settled, OrderStatus, Unshippable
    <2>3. QED  BY <2>1, <2>2
  <1>9. RowsAgree'
    BY <1>1, <1>3 DEF RowsAgree, ShipRecorded, Shippable, Settled, OrderStatus
  <1>10. QED  BY <1>4, <1>6, <1>7, <1>8, <1>9

(* A worker that is through with a job holds the others as before, and     *)
(* nobody but the job that it lets go of can have become an orphan.        *)
LEMMA ThroughKeeps ==
  ASSUME ShippingTypeOK, WorkersHoldOwn, NEW w \in Workers, NEW s \in worker[w].todo,
         HasLabel(w) => worker[w].at = s, worker' = Through(w, s), labels' = labels,
         \A t \in Shipments \ {s} : job'[t] = job[t]
  PROVE  /\ WorkersHoldOwn' /\ worker' \in [Workers -> WorkerStates]
         /\ \A t \in Shipments \ {s} : Orphaned(t)' => Orphaned(t)
  <1> USE DEF ShippingTypeOK, WorkersHoldOwn
  <1>1. /\ worker' \in [Workers -> WorkerStates]
        /\ \A v \in Workers \ {w} : worker'[v] = worker[v]
        /\ worker'[w].todo = worker[w].todo \ {s}
        /\ worker'[w].pc \in {"idle", "busy"}
        /\ worker'[w].pc = "idle" => worker'[w].todo = {}
    BY ThroughShape
  <1>2. \A v \in Workers : worker[v].todo \subseteq Shipments
    BY DEF WorkerStates
  <1>3. \A v \in Workers \ {w} : s \notin worker[v].todo
    BY DEF HoldsOwn
  <1>4. \A v \in Workers : HoldsOwn(v)'
    <2> SUFFICES ASSUME NEW v \in Workers  PROVE HoldsOwn(v)'
      OBVIOUS
    <2>1. CASE v = w
      BY <1>1, <1>2, <2>1 DEF HoldsOwn, HasLabel
    <2>2. CASE v # w
      BY <1>1, <1>2, <1>3, <2>2 DEF HoldsOwn, HasLabel
    <2>3. QED  BY <2>1, <2>2
  <1>5. ASSUME NEW t \in Shipments \ {s}, Orphaned(t)'
        PROVE  Orphaned(t)
    BY <1>1, <1>5 DEF Orphaned, Held
  <1>6. QED  BY <1>1, <1>4, <1>5

LEMMA LockJobBatchKeeps ==
  ASSUME ShipInv, NEW w \in Workers, NEW batch \in SUBSET Shipments, LockJobBatch(w, batch)
  PROVE  ShipInv'
  <1> USE ShippingAssumption DEF ShipInv, ShippingTypeOK, LockJobBatch
  <1>1. worker[w].todo = {}
    BY DEF WorkersHoldOwn, HoldsOwn
  <1>2. worker'[w] = BusyWorker(batch) /\ \A v \in Workers \ {w} : worker'[v] = worker[v]
    OBVIOUS
  <1>3. /\ \A s \in batch : job'[s] = JobRow("processing", job[s].attempts, w)
        /\ \A s \in Shipments \ batch : job'[s] = job[s]
    OBVIOUS
  <1>4. ShippingTypeOK'
    <2>1. "paid" \in OrderStatus
      BY DEF OrderStatus
    <2>2. BusyWorker(batch) \in WorkerStates
      BY <2>1 DEF BusyWorker, WorkerStates
    <2>3. ASSUME NEW s \in Shipments  PROVE job'[s] \in JobRows
      <3>1. job[s].attempts \in 0 .. MaxAttempts
        BY DEF JobRows
      <3>2. QED  BY <1>3, <3>1, JobRowType
    <2>4. job' \in [Shipments -> JobRows]
      BY <2>3
    <2>5. QED  BY <2>2, <2>4 DEF OrderTypeOK, orderVars
  <1>5. WorkersHoldOwn'
    <2> SUFFICES ASSUME NEW v \in Workers  PROVE HoldsOwn(v)'
      BY DEF WorkersHoldOwn
    <2>1. CASE v = w
      BY <1>2, <1>3, <2>1 DEF HoldsOwn, HasLabel, JobsAgree, JobAgrees, BusyWorker, JobRow
    <2>2. CASE v # w
      <3>1. \A s \in worker[v].todo : s \in Shipments \ batch
        BY DEF WorkersHoldOwn, HoldsOwn, WorkerStates
      <3>2. QED  BY <1>2, <1>3, <2>2, <3>1 DEF WorkersHoldOwn, HoldsOwn, HasLabel
    <2>3. QED  BY <2>1, <2>2
  <1>6. JobsAgree'
    BY <1>3 DEF JobsAgree, JobAgrees, JobRow
  <1>7. OrdersOfShipments'
    <2>1. \A s \in Shipments : Orphaned(s)' => Orphaned(s)
      BY <1>1, <1>2, <1>3 DEF Orphaned, Held, BusyWorker
    <2>2. QED  BY <2>1 DEF OrdersOfShipments, OrderFits, ShipRecorded, Recorded, orderVars
  <1>8. RowsAgree'
    BY DEF RowsAgree, ShipRecorded, Recorded, orderVars
  <1>9. QED  BY <1>4, <1>5, <1>6, <1>7, <1>8

LEMMA CreateLabelKeeps ==
  ASSUME ShipInv, NEW w \in Workers, NEW s \in Shipments, CreateLabel(w, s)
  PROVE  ShipInv' /\ labels[s] = 0
  <1> USE ShippingAssumption DEF ShipInv, ShippingTypeOK, CreateLabel
  <1>1. labels[s] = 0 /\ job[s].status = "processing"
    BY DEF WorkersHoldOwn, HoldsOwn, HasLabel
  <1>2. /\ worker'[w] = WorkerAt("labelled", worker[w].todo, s, "paid")
        /\ \A v \in Workers \ {w} : worker'[v] = worker[v]
        /\ labels'[s] = 1 /\ \A t \in Shipments \ {s} : labels'[t] = labels[t]
    BY <1>1
  <1>3. ShippingTypeOK'
    <2>1. "paid" \in OrderStatus /\ worker[w].todo \in SUBSET Shipments
      BY DEF OrderStatus, WorkerStates
    <2>2. WorkerAt("labelled", worker[w].todo, s, "paid") \in WorkerStates
      BY <2>1 DEF WorkerAt, WorkerStates
    <2>3. QED  BY <2>2 DEF OrderTypeOK, orderVars
  <1>4. WorkersHoldOwn'
    <2> SUFFICES ASSUME NEW v \in Workers  PROVE HoldsOwn(v)'
      BY DEF WorkersHoldOwn
    <2>1. worker[v].todo \subseteq Shipments
      BY DEF WorkerStates
    <2>2. CASE v = w
      BY <1>2, <2>1, <2>2 DEF WorkersHoldOwn, HoldsOwn, HasLabel, WorkerAt
    <2>3. CASE v # w
      <3>1. s \notin worker[v].todo
        BY <2>3 DEF WorkersHoldOwn, HoldsOwn
      <3>2. QED  BY <1>2, <2>1, <2>3, <3>1 DEF WorkersHoldOwn, HoldsOwn, HasLabel
    <2>4. QED  BY <2>2, <2>3
  <1>5. JobsAgree'
    BY <1>1, <1>2 DEF JobsAgree, JobAgrees
  <1>6. OrdersOfShipments'
    <2>1. \A t \in Shipments : Orphaned(t)' => Orphaned(t)
      BY <1>2 DEF Orphaned, Held, WorkerAt
    <2>2. QED  BY <2>1 DEF OrdersOfShipments, OrderFits, ShipRecorded, Recorded, orderVars
  <1>7. RowsAgree'
    BY DEF RowsAgree, ShipRecorded, Recorded, orderVars
  <1>8. QED  BY <1>1, <1>3, <1>4, <1>5, <1>6, <1>7

LEMMA RetryJobKeeps ==
  ASSUME ShipInv, NEW w \in Workers, NEW s \in Shipments, RetryJob(w, s)
  PROVE  ShipInv' /\ labels[s] = 0
  <1> USE ShippingAssumption DEF ShipInv, ShippingTypeOK, RetryJob
  <1>1. labels[s] = 0 /\ job[s].status = "processing" /\ ~ HasLabel(w)
    BY DEF WorkersHoldOwn, HoldsOwn, HasLabel
  <1>2. /\ job'[s] = JobRow("pending", job[s].attempts + 1, NoWorker)
        /\ \A t \in Shipments \ {s} : job'[t] = job[t]
    OBVIOUS
  <1>3. job[s].attempts \in Nat /\ job[s].attempts + 1 < MaxAttempts
    BY DEF JobRows, LastAttempt
  <1>4. /\ WorkersHoldOwn' /\ worker' \in [Workers -> WorkerStates]
        /\ \A t \in Shipments \ {s} : Orphaned(t)' => Orphaned(t)
    BY <1>1, <1>2, ThroughKeeps
  <1>5. ShippingTypeOK'
    <2>1. job[s].attempts + 1 \in 0 .. MaxAttempts
      BY ONLY <1>3, ShippingAssumption
    <2>2. JobRow("pending", job[s].attempts + 1, NoWorker) \in JobRows
      BY ONLY <2>1, JobRowType
    <2>3. QED  BY <1>4, <2>2 DEF OrderTypeOK, orderVars
  <1>6. JobsAgree'
    BY <1>1, <1>2, <1>3 DEF JobsAgree, JobAgrees, JobRow
  <1>7. OrdersOfShipments'
    BY <1>2, <1>4
    DEF OrdersOfShipments, OrderFits, ShipRecorded, Recorded, orderVars, Orphaned, JobRow
  <1>8. RowsAgree'
    BY DEF RowsAgree, ShipRecorded, Recorded, orderVars
  <1>9. QED  BY <1>1, <1>4, <1>5, <1>6, <1>7, <1>8

LEMMA MarkJobFailedKeeps ==
  ASSUME ShipInv, NEW w \in Workers, NEW s \in Shipments, MarkJobFailed(w, s)
  PROVE  ShipInv' /\ labels[s] = 0
  <1> USE ShippingAssumption DEF ShipInv, ShippingTypeOK, MarkJobFailed
  <1>1. labels[s] = 0 /\ job[s].status = "processing" /\ ~ HasLabel(w)
    BY DEF WorkersHoldOwn, HoldsOwn, HasLabel
  <1>2. /\ job'[s] = JobRow("failed", job[s].attempts + 1, NoWorker)
        /\ \A t \in Shipments \ {s} : job'[t] = job[t]
    OBVIOUS
  <1>3. /\ shipment'[s].status = "failed" /\ shipment'[s].order = shipment[s].order
        /\ \A t \in Shipments \ {s} : shipment'[t] = shipment[t]
        /\ shipment' \in [Shipments -> ShipmentRows]
    BY DEF ShipmentRows
  <1>4. job[s].attempts \in Nat /\ job[s].attempts + 1 <= MaxAttempts
        /\ shipment[s].status = "pending" /\ mails[s] = 0
    BY <1>1 DEF JobRows, JobsAgree, JobAgrees
  <1>5. /\ WorkersHoldOwn' /\ worker' \in [Workers -> WorkerStates]
        /\ \A t \in Shipments \ {s} : Orphaned(t)' => Orphaned(t)
    BY <1>1, <1>2, ThroughKeeps
  <1>6. ShippingTypeOK'
    <2>1. job[s].attempts + 1 \in 0 .. MaxAttempts
      BY ONLY <1>4, ShippingAssumption
    <2>2. JobRow("failed", job[s].attempts + 1, NoWorker) \in JobRows
      BY ONLY <2>1, JobRowType
    <2>3. QED  BY <1>3, <1>5, <2>2 DEF OrderTypeOK, orderVars
  <1>7. JobsAgree'
    BY <1>1, <1>2, <1>3, <1>4 DEF JobsAgree, JobAgrees, JobRow
  <1>8. OrdersOfShipments'
    BY <1>2, <1>3, <1>4, <1>5
    DEF OrdersOfShipments, OrderFits, ShipRecorded, Recorded, orderVars, Orphaned, JobRow
  <1>9. RowsAgree'
    BY DEF RowsAgree, ShipRecorded, Recorded, orderVars
  <1>10. QED  BY <1>1, <1>5, <1>6, <1>7, <1>8, <1>9

LEMMA ReadOrderKeeps ==
  ASSUME ShipInv, NEW w \in Workers, ReadOrder(w)
  PROVE  ShipInv'
  <1> DEFINE s == worker[w].at
             seen == status[shipment[s].order]
  <1> USE ShippingAssumption DEF ShipInv, ShippingTypeOK, ReadOrder
  <1>1. /\ HasLabel(w) /\ s \in worker[w].todo /\ s \in Shipments
        /\ labels[s] = 1 /\ job[s].status = "processing"
    BY DEF WorkersHoldOwn, HoldsOwn, HasLabel, WorkerStates
  <1>2. shipment[s].status = "pending" /\ shipment[s].order \in Orders /\ seen \in Settled
    BY <1>1 DEF JobsAgree, JobAgrees, OrdersOfShipments, OrderFits
  <1>3. JobsAgree' /\ RowsAgree'
    BY DEF JobsAgree, JobAgrees, RowsAgree, ShipRecorded, Recorded, orderVars
  <1>4. CASE seen \in Shippable
    <2>1. /\ worker'[w] = WorkerAt("read", worker[w].todo, s, seen)
          /\ \A v \in Workers \ {w} : worker'[v] = worker[v]
      BY <1>4
    <2>2. WorkerAt("read", worker[w].todo, s, seen) \in WorkerStates
      BY <1>1, <1>2 DEF WorkerAt, WorkerStates, Settled
    <2>3. ShippingTypeOK'
      BY <1>4, <2>2 DEF OrderTypeOK, orderVars
    <2>4. WorkersHoldOwn'
      <3> SUFFICES ASSUME NEW v \in Workers  PROVE HoldsOwn(v)'
        BY DEF WorkersHoldOwn
      <3>1. CASE v = w
        BY <1>1, <1>4, <2>1, <3>1 DEF WorkersHoldOwn, HoldsOwn, HasLabel, WorkerAt
      <3>2. CASE v # w
        BY <2>1, <3>2 DEF WorkersHoldOwn, HoldsOwn, HasLabel
      <3>3. QED  BY <3>1, <3>2
    <2>5. OrdersOfShipments'
      <3>1. \A t \in Shipments : Orphaned(t)' => Orphaned(t)
        BY <2>1 DEF Orphaned, Held, WorkerAt
      <3>2. QED  BY <3>1 DEF OrdersOfShipments, OrderFits, ShipRecorded, Recorded, orderVars
    <2>6. QED  BY <1>3, <2>3, <2>4, <2>5
  <1>5. CASE seen \notin Shippable
    <2>1. /\ WorkersHoldOwn' /\ worker' \in [Workers -> WorkerStates]
          /\ \A t \in Shipments \ {s} : Orphaned(t)' => Orphaned(t)
      BY <1>1, <1>5, ThroughKeeps
    <2>2. ShippingTypeOK'
      BY <2>1 DEF OrderTypeOK, orderVars
    <2>3. seen \in Unshippable
      BY <1>2, <1>5 DEF Shippable, Unshippable, Settled, OrderStatus
    <2>4. OrdersOfShipments'
      BY <2>1, <2>3 DEF OrdersOfShipments, OrderFits, ShipRecorded, Recorded, orderVars
    <2>5. QED  BY <1>3, <2>1, <2>2, <2>4
  <1>6. QED  BY <1>4, <1>5

LEMMA CompleteShipmentKeeps ==
  ASSUME ShipInv, NEW w \in Workers, CompleteShipment(w)
  PROVE  ShipInv' /\ labels[worker[w].at] = 1
  <1> DEFINE s == worker[w].at
             o == shipment[s].order
             seen == worker[w].seen
  <1> USE ShippingAssumption DEF ShipInv, ShippingTypeOK, CompleteShipment
  <1>1. /\ HasLabel(w) /\ s \in worker[w].todo /\ s \in Shipments
        /\ labels[s] = 1 /\ job[s].status = "processing"
        /\ seen \in Shippable /\ seen \in OrderStatus
    BY DEF WorkersHoldOwn, HoldsOwn, HasLabel, WorkerStates
  <1>2. /\ shipment[s].status = "pending" /\ mails[s] = 0
        /\ o \in Orders /\ status[o] \in Settled
    BY <1>1 DEF JobsAgree, JobAgrees, OrdersOfShipments, OrderFits
  <1>3. /\ audit \subseteq audit'
        /\ \A q, b : Recorded(q, b)' <=> (Recorded(q, b) \/ (q = o /\ b = "ship"))
    BY ShipRowShape
  <1>4. /\ status' \in [Orders -> OrderStatus]
        /\ \A q \in Orders : \/ status'[q] = status[q]
                             \/ q = o /\ status[q] = "paid" /\ status'[q] = "shipped"
    BY <1>2, PromoteShape
  <1>5. /\ job'[s] = JobRow("succeeded", job[s].attempts, NoWorker)
        /\ \A t \in Shipments \ {s} : job'[t] = job[t]
    BY <1>1
  <1>6. /\ shipment'[s].status = "shipped" /\ shipment'[s].order = o
        /\ \A t \in Shipments \ {s} : shipment'[t] = shipment[t]
        /\ shipment' \in [Shipments -> ShipmentRows]
    BY <1>1 DEF ShipmentRows
  <1>7. /\ mails' \in [Shipments -> Nat] /\ mails'[s] \in {0, 1}
        /\ \A t \in Shipments \ {s} : mails'[t] = mails[t]
    BY <1>1, <1>2
  <1>8. /\ WorkersHoldOwn' /\ worker' \in [Workers -> WorkerStates]
        /\ \A t \in Shipments \ {s} : Orphaned(t)' => Orphaned(t)
    BY <1>1, <1>5, ThroughKeeps
  <1>9. ShippingTypeOK'
    <2>1. audit' \subseteq AuditRow
      <3>1. "shipped" \in OrderStatus
        BY DEF OrderStatus
      <3>2. QED  BY <1>1, <1>2, <3>1, ShipRowType
    <2>2. JobRow("succeeded", job[s].attempts, NoWorker) \in JobRows
      <3>1. job[s].attempts \in 0 .. MaxAttempts
        BY <1>1 DEF JobRows
      <3>2. QED  BY <3>1, JobRowType
    <2>3. job' \in [Shipments -> JobRows]
      BY <2>2
    <2>4. QED  BY <1>4, <1>6, <1>7, <1>8, <2>1, <2>3 DEF OrderTypeOK
  <1>10. JobsAgree'
    BY <1>1, <1>5, <1>6, <1>7 DEF JobsAgree, JobAgrees, JobRow
  <1>11. OrdersOfShipments'
    <2> SUFFICES ASSUME NEW t \in Shipments  PROVE OrderFits(t)'
      BY DEF OrdersOfShipments
    <2>1. CASE t = s
      BY <1>2, <1>3, <1>4, <1>5, <1>6, <2>1
      DEF OrderFits, ShipRecorded, Orphaned, JobRow, Settled, OrderStatus
    <2>2. CASE t # s
      <3>1. OrderFits(t) /\ (Orphaned(t)' => Orphaned(t)) /\ faults' = faults
        BY <1>8, <2>2 DEF OrdersOfShipments
      <3>2. /\ shipment'[t] = shipment[t]
            /\ shipment[t].status # "none" => shipment[t].order \in Orders
        BY <1>6, <2>2, <3>1 DEF OrderFits
      <3>3. Orphaned(t) => shipment[t].status = "pending"
        BY DEF Orphaned, JobsAgree, JobAgrees
      <3>4. QED
        BY <1>3, <1>4, <3>1, <3>2, <3>3
        DEF OrderFits, ShipRecorded, Settled, OrderStatus, Unshippable
    <2>3. QED  BY <2>1, <2>2
  <1>12. RowsAgree'
    BY <1>2, <1>3, <1>4 DEF RowsAgree, ShipRecorded, Settled, OrderStatus
  <1>13. QED  BY <1>1, <1>8, <1>9, <1>10, <1>11, <1>12

LEMMA FaultKeeps ==
  ASSUME ShipInv, NEW w \in Workers, Fault(w)
  PROVE  ShipInv'
  <1> USE ShippingAssumption DEF ShipInv, ShippingTypeOK, Fault
  <1>1. faults' \in 0 .. MaxFaults /\ faults' # 0
    OBVIOUS
  <1>2. WorkersHoldOwn' /\ worker' \in [Workers -> WorkerStates]
    <2>1. ASSUME NEW s \in worker[w].todo, HasLabel(w) => worker[w].at = s,
                 worker' = Through(w, s)
          PROVE  WorkersHoldOwn' /\ worker' \in [Workers -> WorkerStates]
      BY <2>1, ThroughKeeps
    <2>2. CASE worker' = [worker EXCEPT ![w] = IdleWorker]
      <3>1. IdleWorker \in WorkerStates
        BY DEF IdleWorker, WorkerStates, OrderStatus
      <3>2. worker' \in [Workers -> WorkerStates]
        BY <2>2, <3>1
      <3>3. worker'[w] = IdleWorker /\ \A v \in Workers \ {w} : worker'[v] = worker[v]
        BY <2>2
      <3>4. QED  BY <3>2, <3>3 DEF WorkersHoldOwn, HoldsOwn, HasLabel, IdleWorker
    <2>3. CASE worker[w].pc = "busy" /\ \E s \in worker[w].todo : worker' = Through(w, s)
      BY <2>1, <2>3 DEF HasLabel
    <2>4. CASE worker[w].pc # "busy" /\ worker' = Through(w, worker[w].at)
      <3>1. worker[w].at \in worker[w].todo
        BY <2>4 DEF WorkersHoldOwn, HoldsOwn, HasLabel, WorkerStates
      <3>2. QED  BY <2>1, <2>4, <3>1
    <2>5. QED  BY <2>2, <2>3, <2>4
  <1>3. ShippingTypeOK'
    BY <1>1, <1>2 DEF OrderTypeOK, orderVars
  <1>4. JobsAgree' /\ RowsAgree'
    BY DEF JobsAgree, JobAgrees, RowsAgree, ShipRecorded, Recorded, orderVars
  <1>5. OrdersOfShipments'
    BY <1>1 DEF OrdersOfShipments, OrderFits, ShipRecorded, Recorded, orderVars
  <1>6. QED  BY <1>2, <1>3, <1>4, <1>5

LEMMA OrderStepKeeps ==
  ASSUME ShipInv, NEW o \in Orders, OrderStep(o),
         UNCHANGED <<shipment, job, worker, labels, mails, faults>>
  PROVE  ShipInv'
  <1> USE DEF ShipInv, ShippingTypeOK
  <1>1. OrderTypeOK' /\ audit \subseteq audit' /\ RowsAgree'
    BY OrderStepType, OrderStepMoves
  <1>2. \A q \in Orders : /\ status[q] \in Settled => status'[q] \in Settled
                          /\ status[q] \in Unshippable => status'[q] \in Unshippable
    <2>1. \A q \in Orders : status'[q] # status[q] => <<status[q], status'[q]>> \in Moves
      BY OrderStepMoves
    <2>2. QED  BY <2>1 DEF Moves, Settled, OrderStatus, Unshippable
  <1>3. ShippingTypeOK'
    BY <1>1
  <1>4. WorkersHoldOwn' /\ JobsAgree'
    BY DEF WorkersHoldOwn, HoldsOwn, HasLabel, JobsAgree, JobAgrees
  <1>5. OrdersOfShipments'
    <2> SUFFICES ASSUME NEW t \in Shipments  PROVE OrderFits(t)'
      BY DEF OrdersOfShipments
    <2>1. OrderFits(t) /\ (Orphaned(t)' <=> Orphaned(t))
      BY DEF OrdersOfShipments, Orphaned, Held
    <2>2. Orphaned(t) => shipment[t].status = "pending"
      BY DEF Orphaned, JobsAgree, JobAgrees
    <2>3. ShipRecorded(shipment[t].order) => ShipRecorded(shipment[t].order)'
      BY <1>1 DEF ShipRecorded, Recorded
    <2>4. QED  BY <1>2, <2>1, <2>2, <2>3 DEF OrderFits
  <1>6. QED  BY <1>1, <1>3, <1>4, <1>5

LEMMA ShipStep == ShipInv /\ [ShippingNext]_shippingVars => ShipInv'
  <1> SUFFICES ASSUME ShipInv, [ShippingNext]_shippingVars  PROVE ShipInv'
    OBVIOUS
  <1>1. ASSUME UNCHANGED shippingVars  PROVE ShipInv'
    BY <1>1 DEF shippingVars, orderVars, ShipInv, ShippingTypeOK, OrderTypeOK, WorkersHoldOwn,
                HoldsOwn, HasLabel, JobsAgree, JobAgrees, OrdersOfShipments, OrderFits,
                Orphaned, Held, RowsAgree, ShipRecorded, Recorded
  <1>2. ASSUME NEW w \in Workers, Tick(w)  PROVE ShipInv'
    BY <1>2, LockJobBatchKeeps, CreateLabelKeeps, RetryJobKeeps, MarkJobFailedKeeps,
       ReadOrderKeeps, CompleteShipmentKeeps DEF Tick
  <1>3. QED
    BY <1>1, <1>2, QueueShipmentKeeps, CreateManualShipmentKeeps, FaultKeeps, OrderStepKeeps
    DEF ShippingNext, ShippingStep, shipVars

LEMMA ShipInvariant == ShippingSpec => []ShipInv
  BY ShipInitially, ShipStep, PTL DEF ShippingSpec
-----------------------------------------------------------------------------
(* Every reachable state of the shipping service is type correct; the      *)
(* attempts of a job never exceed MaxAttempts.                             *)
THEOREM ShippingTypeCorrect == ShippingSpec => []ShippingTypeOK
  BY ShipInvariant, PTL DEF ShipInv

(* No two workers ever have the same job in hand.                          *)
THEOREM JobsAreExclusive == ShippingSpec => []OneWorkerPerJob
  <1>1. ShipInv => OneWorkerPerJob
    BY DEF ShipInv, WorkersHoldOwn, HoldsOwn, OneWorkerPerJob
  <1>2. QED  BY <1>1, ShipInvariant, PTL

(* The carrier acknowledges at most one label for a shipment.              *)
THEOREM OneLabelPerShipment == ShippingSpec => []LabelBoughtOnce
  <1>1. ShipInv => LabelBoughtOnce
    BY DEF ShipInv, JobsAgree, JobAgrees, LabelBoughtOnce
  <1>2. QED  BY <1>1, ShipInvariant, PTL

(* What is under way was paid for and is on record, and the customer was   *)
(* told at most once.                                                      *)
THEOREM ShipmentsAreOnRecord == ShippingSpec => []ShippedOnRecord
  <1>1. ShipInv => ShippedOnRecord
    BY DEF ShipInv, JobsAgree, JobAgrees, OrdersOfShipments, OrderFits, ShippedOnRecord
  <1>2. QED  BY <1>1, ShipInvariant, PTL

(* Without a crash or a failed write only an order that can no longer be   *)
(* shipped leaves a job in processing with nobody working on it.           *)
THEOREM OrphansAreExplained == ShippingSpec => []OrphansExplained
  <1>1. ShipInv => OrphansExplained
    BY DEF ShipInv, OrdersOfShipments, OrderFits, OrphansExplained, Unshippable, Shippable
  <1>2. QED  BY <1>1, ShipInvariant, PTL

(* order_events accounts for shipped, delivered and cancelled orders also  *)
(* when workers ship them.                                                 *)
THEOREM AuditStillTrue == ShippingSpec => []AuditTrail
  <1>1. ShipInv => AuditTrail
    BY DEF ShipInv, RowsAgree, AuditTrail, Settled, OrderStatus
  <1>2. QED  BY <1>1, ShipInvariant, PTL

(* Orders move along Moves only, with workers as one more actor: a stale   *)
(* read of the order does no harm, the guard of the UPDATE holds.          *)
THEOREM StatusMovesWithWorkers == ShippingSpec => StatusMoves
  <1>1. ShipInv /\ [ShippingNext]_shippingVars
          => [\A o \in Orders : status'[o] # status[o]
                                  => <<status[o], status'[o]>> \in Moves]_orderVars
    <2> SUFFICES ASSUME ShipInv, [ShippingNext]_shippingVars,
                        NEW o \in Orders, status'[o] # status[o]
                 PROVE  <<status[o], status'[o]>> \in Moves
      OBVIOUS
    <2>1. \A q \in Orders, seen \in OrderStatus :
            status' = Promote(q, seen) => <<status[o], status'[o]>> \in Moves
      BY PromoteShape DEF ShipInv, ShippingTypeOK, Moves
    <2>2. ASSUME NEW s \in Shipments, NEW q \in Orders, CreateManualShipment(s, q)
          PROVE  <<status[o], status'[o]>> \in Moves
      BY <2>1, <2>2 DEF CreateManualShipment, ShipInv, ShippingTypeOK, OrderTypeOK
    <2>3. ASSUME NEW w \in Workers, CompleteShipment(w)
          PROVE  <<status[o], status'[o]>> \in Moves
      <3>1. worker[w].at \in Shipments /\ worker[w].seen \in OrderStatus
        BY <2>3
        DEF CompleteShipment, ShipInv, ShippingTypeOK, WorkersHoldOwn, HoldsOwn, HasLabel,
            WorkerStates
      <3>2. job[worker[w].at].status = "processing"
        BY <2>3 DEF CompleteShipment, ShipInv, WorkersHoldOwn, HoldsOwn, HasLabel
      <3>3. shipment[worker[w].at].order \in Orders
        BY <3>1, <3>2 DEF ShipInv, JobsAgree, JobAgrees, OrdersOfShipments, OrderFits
      <3>4. QED  BY <2>1, <2>3, <3>1, <3>3 DEF CompleteShipment
    <2>4. ASSUME NEW q \in Orders, OrderStep(q)
          PROVE  <<status[o], status'[o]>> \in Moves
      BY <2>4, OrderStepMoves DEF ShipInv, ShippingTypeOK
    <2>5. QED
      BY <2>2, <2>3, <2>4
      DEF ShippingNext, ShippingStep, shipVars, Tick, QueueShipment, LockJobBatch, CreateLabel, RetryJob,
          MarkJobFailed, ReadOrder, Fault, shippingVars, orderVars
  <1>2. QED  BY <1>1, ShipInvariant, PTL DEF ShippingSpec, StatusMoves
-----------------------------------------------------------------------------
(* Refinement: every step is a step of the abstract queue or a stutter.    *)
LEMMA QueueStates ==
  /\ QueueState["none"] = "absent" /\ QueueState["pending"] = "waiting"
  /\ QueueState["processing"] = "taken" /\ QueueState["succeeded"] = "done"
  /\ QueueState["failed"] = "given up"
  BY DEF QueueState

(* A step that writes one row of shipment_jobs.                            *)
LEMMA JobWritten ==
  ASSUME ShippingTypeOK, NEW s \in Shipments, NEW st, NEW n, NEW w,
         job' = [job EXCEPT ![s] = JobRow(st, n, w)]
  PROVE  /\ JobState' = [JobState EXCEPT ![s] = QueueState[st]]
         /\ LockedBy' = [LockedBy EXCEPT ![s] = w]
         /\ Attempts' = [Attempts EXCEPT ![s] = n]
  <1>1. /\ job'[s] = JobRow(st, n, w)
        /\ \A t \in Shipments \ {s} : job'[t] = job[t]
    BY DEF ShippingTypeOK
  <1>2. JobRow(st, n, w).status = st /\ JobRow(st, n, w).attempts = n /\ JobRow(st, n, w).by = w
    BY DEF JobRow
  <1>3. \A t \in Shipments : /\ job'[t].status = IF t = s THEN st ELSE job[t].status
                             /\ job'[t].by = IF t = s THEN w ELSE job[t].by
                             /\ job'[t].attempts = IF t = s THEN n ELSE job[t].attempts
    BY <1>1, <1>2
  <1>4. LockedBy' = [LockedBy EXCEPT ![s] = w]
    <2>1. LockedBy' = [t \in Shipments |-> job'[t].by]
      BY DEF LockedBy
    <2>2. LockedBy' = [t \in Shipments |-> IF t = s THEN w ELSE job[t].by]
      BY <1>3, <2>1
    <2>3. QED  BY <2>2 DEF LockedBy
  <1>5. JobState' = [JobState EXCEPT ![s] = QueueState[st]]
    <2>1. JobState' = [t \in Shipments |-> QueueState[job'[t].status]]
      BY DEF JobState, QueueState
    <2>2. JobState' = [t \in Shipments |-> IF t = s THEN QueueState[st]
                                                    ELSE QueueState[job[t].status]]
      BY <1>3, <2>1
    <2>3. QED  BY <2>2 DEF JobState
  <1>6. Attempts' = [Attempts EXCEPT ![s] = n]
    <2>1. Attempts' = [t \in Shipments |-> job'[t].attempts]
      BY DEF Attempts
    <2>2. Attempts' = [t \in Shipments |-> IF t = s THEN n ELSE job[t].attempts]
      BY <1>3, <2>1
    <2>3. QED  BY <2>2 DEF Attempts
  <1>7. QED  BY <1>4, <1>5, <1>6

LEMMA ShippingSimulates ==
  ASSUME ShipInv, ShippingNext
  PROVE  Queue!QueueNext \/ UNCHANGED <<JobState, LockedBy, Labelled, Attempts>>
  <1> DEFINE Quiet == UNCHANGED <<JobState, LockedBy, Labelled, Attempts>>
  <1>1. /\ labels' = labels => Labelled' = Labelled
        /\ job' = job => UNCHANGED <<JobState, LockedBy, Attempts>>
    BY DEF Labelled, JobState, LockedBy, Attempts
  <1>2. ASSUME NEW s \in Shipments, NEW o \in Orders, QueueShipment(s, o)
        PROVE  Queue!Enqueue(s)
    <2>1. job[s].status = "none" /\ job[s].attempts = 0 /\ job[s].by = NoWorker
      BY <1>2 DEF QueueShipment, ShipInv, JobsAgree, JobAgrees, ShippingTypeOK, JobRows
    <2>2. /\ JobState' = [JobState EXCEPT ![s] = "waiting"]
          /\ LockedBy' = [LockedBy EXCEPT ![s] = NoWorker]
          /\ Attempts' = [Attempts EXCEPT ![s] = 0]
      <3>1. job' = [job EXCEPT ![s] = JobRow("pending", 0, NoWorker)] /\ ShippingTypeOK
        BY <1>2 DEF QueueShipment, ShipInv
      <3>2. /\ JobState' = [JobState EXCEPT ![s] = QueueState["pending"]]
            /\ LockedBy' = [LockedBy EXCEPT ![s] = NoWorker]
            /\ Attempts' = [Attempts EXCEPT ![s] = 0]
        BY <3>1, JobWritten
      <3>3. QED  BY <3>2, QueueStates
    <2>3. JobState[s] = "absent" /\ LockedBy' = LockedBy /\ Attempts' = Attempts
      BY <2>1, <2>2, QueueStates DEF JobState, LockedBy, Attempts
    <2>4. QED  BY <1>1, <1>2, <2>2, <2>3 DEF QueueShipment, Queue!Enqueue
  <1>3. ASSUME NEW w \in Workers, NEW batch \in SUBSET Shipments, LockJobBatch(w, batch)
        PROVE  Queue!Take(w, batch)
    <2>1. /\ \A s \in batch : job'[s] = JobRow("processing", job[s].attempts, w)
          /\ \A s \in Shipments \ batch : job'[s] = job[s]
      BY <1>3 DEF LockJobBatch
    <2>2. \A s \in batch : JobState[s] = "waiting"
      BY <1>3, QueueStates DEF LockJobBatch, JobState
    <2>3. \A s \in Shipments :
            /\ job'[s].status = IF s \in batch THEN "processing" ELSE job[s].status
            /\ job'[s].by = IF s \in batch THEN w ELSE job[s].by
            /\ job'[s].attempts = job[s].attempts
      <3> SUFFICES ASSUME NEW s \in Shipments
                   PROVE  /\ job'[s].status = IF s \in batch THEN "processing" ELSE job[s].status
                          /\ job'[s].by = IF s \in batch THEN w ELSE job[s].by
                          /\ job'[s].attempts = job[s].attempts
        OBVIOUS
      <3>1. CASE s \in batch
        <4>1. job'[s] = JobRow("processing", job[s].attempts, w)
          BY <2>1, <3>1
        <4>2. QED  BY <3>1, <4>1 DEF JobRow
      <3>2. CASE s \notin batch
        BY <2>1, <3>2
      <3>3. QED  BY <3>1, <3>2
    <2>4. JobState' = [s \in Shipments |-> IF s \in batch THEN "taken" ELSE JobState[s]]
      <3>1. JobState' = [s \in Shipments |-> QueueState[job'[s].status]]
        BY DEF JobState, QueueState
      <3>2. QED  BY <2>3, <3>1, QueueStates DEF JobState
    <2>5. LockedBy' = [s \in Shipments |-> IF s \in batch THEN w ELSE LockedBy[s]]
      <3>1. LockedBy' = [s \in Shipments |-> job'[s].by]
        BY DEF LockedBy
      <3>2. QED  BY <2>3, <3>1 DEF LockedBy
    <2>6. Attempts' = Attempts
      <3>1. Attempts' = [s \in Shipments |-> job'[s].attempts]
        BY DEF Attempts
      <3>2. QED  BY <2>3, <3>1 DEF Attempts
    <2>7. QED  BY <1>1, <1>3, <2>2, <2>4, <2>5, <2>6 DEF LockJobBatch, Queue!Take
  <1>4. ASSUME NEW w \in Workers, NEW s \in Shipments, job[s].status = "processing",
               job[s].by = w
        PROVE  JobState[s] = "taken" /\ LockedBy[s] = w
    BY <1>4, QueueStates DEF JobState, LockedBy
  <1>5. ASSUME NEW w \in Workers, NEW s \in Shipments, s \in worker[w].todo
        PROVE  JobState[s] = "taken" /\ LockedBy[s] = w
    BY <1>4, <1>5 DEF ShipInv, WorkersHoldOwn, HoldsOwn
  <1>6. ASSUME NEW w \in Workers, NEW s \in Shipments, CreateLabel(w, s)
        PROVE  Queue!Work(w, s)
    <2>1. labels[s] = 0 /\ s \in worker[w].todo
      BY <1>6, CreateLabelKeeps DEF CreateLabel
    <2>2. labels'[s] = 1 /\ \A t \in Shipments \ {s} : labels'[t] = labels[t]
      BY <1>6, <2>1 DEF CreateLabel, ShipInv, ShippingTypeOK
    <2>3. s \notin Labelled /\ Labelled' = Labelled \cup {s}
      BY <2>1, <2>2 DEF Labelled
    <2>4. QED  BY <1>1, <1>5, <1>6, <2>1, <2>3 DEF CreateLabel, Queue!Work
  <1>7. ASSUME NEW w \in Workers, NEW s \in Shipments, RetryJob(w, s)
        PROVE  Queue!FailedAttempt(w, s, "waiting")
    <2>1. s \notin Labelled /\ s \in worker[w].todo
      <3>1. labels[s] = 0
        BY <1>7, RetryJobKeeps
      <3>2. s \in worker[w].todo
        BY <1>7 DEF RetryJob
      <3>3. QED  BY <3>1, <3>2 DEF Labelled
    <2>2. /\ JobState' = [JobState EXCEPT ![s] = "waiting"]
          /\ LockedBy' = [LockedBy EXCEPT ![s] = NoWorker]
          /\ Attempts' = [Attempts EXCEPT ![s] = job[s].attempts + 1]
      <3>1. PICK n : n = job[s].attempts + 1
        OBVIOUS
      <3>2. job' = [job EXCEPT ![s] = JobRow("pending", n, NoWorker)] /\ ShippingTypeOK
        BY <3>1, <1>7 DEF RetryJob, ShipInv
      <3>3. /\ JobState' = [JobState EXCEPT ![s] = QueueState["pending"]]
            /\ LockedBy' = [LockedBy EXCEPT ![s] = NoWorker]
            /\ Attempts' = [Attempts EXCEPT ![s] = n]
        BY <3>2, JobWritten
      <3>4. QED  BY <3>1, <3>3, QueueStates
    <2>3. Attempts[s] = job[s].attempts
      BY DEF Attempts
    <2>4. QED  BY <1>1, <1>5, <1>7, <2>1, <2>2, <2>3 DEF RetryJob, Queue!FailedAttempt
  <1>8. ASSUME NEW w \in Workers, NEW s \in Shipments, MarkJobFailed(w, s)
        PROVE  Queue!FailedAttempt(w, s, "given up")
    <2>1. s \notin Labelled /\ s \in worker[w].todo
      <3>1. labels[s] = 0
        BY <1>8, MarkJobFailedKeeps
      <3>2. s \in worker[w].todo
        BY <1>8 DEF MarkJobFailed
      <3>3. QED  BY <3>1, <3>2 DEF Labelled
    <2>2. /\ JobState' = [JobState EXCEPT ![s] = "given up"]
          /\ LockedBy' = [LockedBy EXCEPT ![s] = NoWorker]
          /\ Attempts' = [Attempts EXCEPT ![s] = job[s].attempts + 1]
      <3>1. PICK n : n = job[s].attempts + 1
        OBVIOUS
      <3>2. job' = [job EXCEPT ![s] = JobRow("failed", n, NoWorker)] /\ ShippingTypeOK
        BY <3>1, <1>8 DEF MarkJobFailed, ShipInv
      <3>3. /\ JobState' = [JobState EXCEPT ![s] = QueueState["failed"]]
            /\ LockedBy' = [LockedBy EXCEPT ![s] = NoWorker]
            /\ Attempts' = [Attempts EXCEPT ![s] = n]
        BY <3>2, JobWritten
      <3>4. QED  BY <3>1, <3>3, QueueStates
    <2>3. Attempts[s] = job[s].attempts /\ job[s].attempts + 1 >= MaxAttempts
      BY <1>8 DEF Attempts, MarkJobFailed, LastAttempt
    <2>4. QED  BY <1>1, <1>5, <1>8, <2>1, <2>2, <2>3 DEF MarkJobFailed, Queue!FailedAttempt
  <1>9. ASSUME NEW w \in Workers, CompleteShipment(w)
        PROVE  Queue!Finish(w, worker[w].at) /\ worker[w].at \in Shipments
    <2>1. /\ worker[w].at \in worker[w].todo /\ worker[w].at \in Shipments
          /\ labels[worker[w].at] = 1
      BY <1>9, CompleteShipmentKeeps
      DEF CompleteShipment, ShipInv, ShippingTypeOK, WorkersHoldOwn, HoldsOwn, HasLabel,
          WorkerStates
    <2>2. PICK s \in Shipments : s = worker[w].at
      BY <2>1
    <2>3. /\ JobState' = [JobState EXCEPT ![s] = "done"]
          /\ LockedBy' = [LockedBy EXCEPT ![s] = NoWorker]
          /\ Attempts' = [Attempts EXCEPT ![s] = job[s].attempts]
      <3>1. PICK n : n = job[s].attempts
        OBVIOUS
      <3>2. job' = [job EXCEPT ![s] = JobRow("succeeded", n, NoWorker)] /\ ShippingTypeOK
        BY <3>1, <1>9, <2>2 DEF CompleteShipment, ShipInv
      <3>3. /\ JobState' = [JobState EXCEPT ![s] = QueueState["succeeded"]]
            /\ LockedBy' = [LockedBy EXCEPT ![s] = NoWorker]
            /\ Attempts' = [Attempts EXCEPT ![s] = n]
        BY <3>2, JobWritten
      <3>4. QED  BY <3>1, <3>3, QueueStates
    <2>4. Attempts' = Attempts /\ s \in Labelled
      <3>1. Attempts' = Attempts
        BY <2>3 DEF Attempts
      <3>2. QED  BY <2>1, <2>2, <3>1 DEF Labelled
    <2>5. QED  BY <1>1, <1>5, <1>9, <2>1, <2>2, <2>3, <2>4 DEF CompleteShipment, Queue!Finish
  <1>10. ASSUME UNCHANGED <<job, labels>>  PROVE Quiet
    BY <1>1, <1>10
  <1>11. ASSUME NEW w \in Workers, Tick(w)  PROVE Queue!QueueNext \/ Quiet
    BY <1>3, <1>6, <1>7, <1>8, <1>9, <1>10, <1>11 DEF Tick, ReadOrder, Queue!QueueNext
  <1>12. ASSUME NEW s \in Shipments, NEW o \in Orders,
                QueueShipment(s, o) \/ CreateManualShipment(s, o)
         PROVE  Queue!QueueNext \/ Quiet
    BY <1>2, <1>10, <1>12 DEF CreateManualShipment, Queue!QueueNext
  <1>13. QED  BY <1>10, <1>11, <1>12 DEF ShippingNext, ShippingStep, shipVars, Fault

(* Label jobs keep what JobQueue promises: a job is worked on only by the  *)
(* worker that locked it, acknowledged at most once, and given up only     *)
(* after MaxAttempts failures.                                             *)
THEOREM ShippingImplementsJobQueue == ShippingSpec => ImplementsJobQueue
  <1>1. ShippingInit => Queue!QueueInit
    <2> SUFFICES ASSUME ShippingInit  PROVE Queue!QueueInit
      OBVIOUS
    <2>1. JobState = [s \in Shipments |-> "absent"]
      BY QueueStates DEF ShippingInit, JobState, JobRow
    <2>2. LockedBy = [s \in Shipments |-> NoWorker] /\ Attempts = [s \in Shipments |-> 0]
      BY DEF ShippingInit, LockedBy, Attempts, JobRow
    <2>3. Labelled = {}
      BY DEF ShippingInit, Labelled
    <2>4. QED  BY <2>1, <2>2, <2>3 DEF Queue!QueueInit
  <1>2. ShipInv /\ [ShippingNext]_shippingVars => [Queue!QueueNext]_(Queue!queueVars)
    <2>1. CASE UNCHANGED shippingVars
      BY <2>1 DEF shippingVars, Queue!queueVars, JobState, LockedBy, Labelled, Attempts
    <2>2. QED  BY <2>1, ShippingSimulates DEF Queue!queueVars
  <1>3. QED
    BY <1>1, <1>2, ShipInvariant, PTL DEF ShippingSpec, ImplementsJobQueue, Queue!QueueSpec
=============================================================================
