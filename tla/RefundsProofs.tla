---------------------------- MODULE RefundsProofs ----------------------------
(***************************************************************************)
(* Proofs about the composed systems of Refunds and, at the end, of        *)
(* Fulfilment, for any number of orders, payments, refunds, shipments,     *)
(* requests, events and workers and for any answers of the provider.       *)
(***************************************************************************)
EXTENDS Fulfilment, PaymentsProofs, ShippingProofs, SumLemmas

(* The inductive invariant: what PayInv says of payments, for refunds too, *)
(* and that a refund with a reference or with a call has a row with a      *)
(* positive amount.                                                        *)
GiveBackUnused ==
  \A x \in RefundRefs : giveBack[x].state = "unused" => giveBack[x].for = NoRefund

Done(x) == giveBack[x].state \in {"done", "returned"}

RefundCallHoldsOwn ==
  \A c \in RefundCalls :
    /\ refundCall[c].pc # "idle" => RowExists(refundCall[c].refund)
    /\ refundCall[c].pc # "idle" /\ refundCall[c].ref # NoRef
         => giveBack[refundCall[c].ref].for = refundCall[c].refund
    /\ refundCall[c].pc = "finalize" /\ refundCall[c].status = "succeeded"
         => refundCall[c].ref # NoRef /\ Done(refundCall[c].ref)

RefundRowHoldsOwn ==
  \A r \in Refunds :
    /\ refund[r].ref # NoRef => RowExists(r) /\ giveBack[refund[r].ref].for = r
    /\ RowExists(r) => refund[r].amount > 0

RefundNewsIsTrue ==
  /\ refundReceived \subseteq refundSent
  /\ \A e \in refundSent : /\ giveBack[e.ref].state # "unused"
                           /\ e.type = "refund.succeeded" => Done(e.ref)

RefundRefInv ==
  GiveBackUnused /\ RefundCallHoldsOwn /\ RefundRowHoldsOwn /\ RefundNewsIsTrue

RefundInv == /\ RefundTypeOK
             /\ RefundRefInv
             /\ RefundAgrees
             /\ RefundBacked
             /\ RefundNeedsMoney
-----------------------------------------------------------------------------
(* Types.                                                                  *)
LEMMA RefundFunctions ==
  /\ PaymentOf \in [Refunds -> Payments]
  /\ OrderOfRefund \in [Refunds -> Orders]
  <1>1. \A r \in Refunds : r[1] \in Payments
    BY DEF Refunds
  <1>2. PaymentOf \in [Refunds -> Payments]
    BY <1>1 DEF PaymentOf
  <1>3. QED  BY <1>2, OrderOfType DEF OrderOfRefund

LEMMA RemainingType ==
  ASSUME OrderTypeOK, NEW o \in Orders
  PROVE  Remaining(o) \in 0 .. Total /\ refunded[o] \in 0 .. Total
  BY OrderAssumption DEF OrderTypeOK, Remaining

LEMMA RefundAmountType ==
  ASSUME OrderTypeOK, NEW o \in Orders, NEW a \in RequestAmounts, Refundable(o)
  PROVE  RefundAmount(o, a) \in 1 .. Total
  BY RemainingType, RefundAssumption, OrderAssumption DEF RefundAmount, Refundable

LEMMA AddRefundType ==
  ASSUME OrderTypeOK, NEW o \in Orders, NEW n \in Nat, AddRefund(o, n)
  PROVE  /\ status' \in [Orders -> OrderStatus]
         /\ refunded' \in [Orders -> 0 .. Total]
  <1>1. refunded[o] \in 0 .. Total
    BY RemainingType
  <1>2. (IF RefundsFully(o, n) THEN Total ELSE refunded[o] + n) \in 0 .. Total
    BY <1>1, OrderAssumption DEF RefundsFully
  <1>3. refunded' \in [Orders -> 0 .. Total]
    BY <1>2 DEF AddRefund, OrderTypeOK
  <1>4. status' \in [Orders -> OrderStatus]
    BY DEF AddRefund, OrderTypeOK, OrderStatus
  <1>5. QED  BY <1>3, <1>4

LEMMA RefundAuditRowType ==
  ASSUME OrderTypeOK, NEW o \in Orders, NEW to \in OrderStatus
  PROVE  RefundAuditRow(o, to) \in AuditRow
  BY DEF RefundAuditRow, AuditRow, OrderTypeOK

(* A step of RefundOrder, of the provider or of the refund webhook keeps   *)
(* the types of the order rows and of the refund variables.                *)
LEMMA RefundStepType == TypeOK /\ RefundNext => TypeOK'
  <1> SUFFICES ASSUME TypeOK, RefundNext  PROVE TypeOK'
    OBVIOUS
  <1> USE RefundFunctions, RefundAssumption, OrderAssumption DEF TypeOK, PaymentsTypeOK
  <1>0. ASSUME UNCHANGED payVars  PROVE PayTypeOK'
    BY <1>0 DEF payVars, PayTypeOK
  <1>1. ASSUME NEW c \in RefundCalls, NEW p \in Payments, NEW k \in RefundKeys,
               NEW a \in RequestAmounts, RefundOrderBegin(c, p, k, a)
        PROVE  TypeOK'
    <2>1. PICK r \in Refunds : r = <<p, k>>
      BY DEF Refunds
    <2>2. OrderOf[p] \in Orders /\ Refundable(OrderOf[p])
      BY <1>1, OrderOfType DEF RefundOrderBegin
    <2>3. RefundAmount(OrderOf[p], a) \in 0 .. Total
      BY <2>2, RefundAmountType
    <2>4. OrderTypeOK' /\ PayTypeOK'
      BY <1>1, <1>0 DEF RefundOrderBegin, paymentsVars, orderVars, OrderTypeOK
    <2>5. refund' \in [Refunds -> [status : {"none", "initiated", "succeeded", "failed"},
                                   amount : 0 .. Total, ref : RefundRefs \cup {NoRef}]]
      BY <1>1, <2>1, <2>3 DEF RefundOrderBegin, RefundTypeOK
    <2>6. tries' \in [Refunds -> 0 .. MaxTries]
      BY <1>1, <2>1 DEF RefundOrderBegin, RefundTypeOK
    <2>7. RefundTypeOK'
      BY <1>1, <2>1, <2>5, <2>6
      DEF RefundOrderBegin, RefundTypeOK, AskingRefundCall, RefundOutcome
    <2>8. QED  BY <2>4, <2>7
  <1>2. ASSUME NEW c \in RefundCalls, RefundPayment(c)
        PROVE  TypeOK'
    <2>1. OrderTypeOK' /\ PayTypeOK'
      BY <1>2, <1>0 DEF RefundPayment, paymentsVars, orderVars, OrderTypeOK
    <2>2. refundCall[c].refund \in Refunds
      BY <1>2 DEF RefundPayment, RefundTypeOK
    <2>3. ASSUME NEW outcome \in RefundOutcomes, NEW x \in RefundRefs,
                 NEW st \in {"done", "pending", "failed"}, NewGiveBack(c, outcome, x, st),
                 UNCHANGED <<refund, refundLedger, notified, refundReceived, tries>>
          PROVE  RefundTypeOK'
      <3>1. refundSent' \subseteq RefundEvent
        BY <2>3 DEF NewGiveBack, RefundTypeOK, RefundNews
      <3>2. QED
        BY <2>2, <2>3, <3>1
        DEF NewGiveBack, AnsweredRefundCall, RefundTypeOK, GiveBackState
    <2>4. ASSUME refundCall' = [refundCall EXCEPT
                         ![c] = AnsweredRefundCall(refundCall[c].refund, "error", NoRef)],
                 UNCHANGED <<giveBack, refundSent, refund, refundLedger, notified,
                             refundReceived, tries>>
          PROVE  RefundTypeOK'
      BY <2>2, <2>4 DEF RefundTypeOK, RefundOutcome, AnsweredRefundCall
    <2>5. RefundTypeOK'
      BY <1>2, <2>3, <2>4 DEF RefundPayment
    <2>6. QED  BY <2>1, <2>5
  <1>3. ASSUME NEW c \in RefundCalls, RefundOrderFinalize(c)
        PROVE  TypeOK'
    <2>1. PICK r \in Refunds : r = refundCall[c].refund
      BY <1>3 DEF RefundTypeOK, RefundOrderFinalize
    <2>2. refund[r].amount \in Nat /\ OrderOfRefund[r] \in Orders
      BY DEF RefundTypeOK
    <2>3. OrderTypeOK'
      <3>1. CASE refundCall[c].status = "initiated"
        BY <1>3, <3>1 DEF RefundOrderFinalize, orderVars, OrderTypeOK
      <3>2. CASE refundCall[c].status = "succeeded"
        <4>1. AddRefund(OrderOfRefund[r], refund[r].amount)
          BY <1>3, <2>1, <3>2 DEF RefundOrderFinalize, RefundSucceedsNow
        <4>2. status' \in [Orders -> OrderStatus] /\ refunded' \in [Orders -> 0 .. Total]
          BY <2>2, <4>1, AddRefundType
        <4>3. audit' = audit \cup {RefundAuditRow(OrderOfRefund[r], status'[OrderOfRefund[r]])}
          BY <1>3, <2>1, <3>2 DEF RefundOrderFinalize, RefundSucceedsNow
        <4>4. audit' \subseteq AuditRow
          BY <2>2, <4>2, <4>3, RefundAuditRowType DEF OrderTypeOK
        <4>5. QED  BY <4>2, <4>4 DEF OrderTypeOK
      <3>3. CASE refundCall[c].status \notin {"initiated", "succeeded"}
        <4>1. /\ \/ audit' = audit
                 \/ audit' = audit \cup {RefundAuditRow(OrderOfRefund[r],
                                                         status[OrderOfRefund[r]])}
              /\ UNCHANGED <<status, refunded>>
          BY <1>3, <2>1, <3>3 DEF RefundOrderFinalize, RefundFailsNow
        <4>2. audit' \subseteq AuditRow
          BY <2>2, <4>1, RefundAuditRowType DEF OrderTypeOK
        <4>3. QED  BY <4>1, <4>2 DEF OrderTypeOK
      <3>4. QED  BY <3>1, <3>2, <3>3
    <2>4. RefundRowAfter(c) \in [status : {"none", "initiated", "succeeded", "failed"},
                                 amount : 0 .. Total, ref : RefundRefs \cup {NoRef}]
      BY <2>1 DEF RefundRowAfter, RefundTypeOK
    <2>5. refundLedger' \in [Refunds -> [succeeded : Nat, failed : Nat]]
          /\ notified' \subseteq Refunds
      <3>1. /\ \/ refundLedger' = refundLedger
               \/ refundLedger' = [refundLedger EXCEPT ![r].succeeded = @ + 1]
               \/ refundLedger' = [refundLedger EXCEPT ![r].failed = @ + 1]
            /\ notified' \in {notified, notified \cup {r}}
        BY <1>3, <2>1 DEF RefundOrderFinalize, RefundSucceedsNow, RefundFailsNow
      <3>2. /\ refundLedger \in [Refunds -> [succeeded : Nat, failed : Nat]]
            /\ notified \subseteq Refunds
        BY DEF RefundTypeOK
      <3>3. QED  BY <3>1, <3>2
    <2>6. RefundTypeOK'
      BY <1>3, <2>1, <2>4, <2>5
      DEF RefundOrderFinalize, RefundTypeOK, IdleRefundCall, RefundOutcome
    <2>7. PayTypeOK'
      BY <1>0, <1>3 DEF RefundOrderFinalize
    <2>8. QED  BY <2>3, <2>6, <2>7
  <1>4. ASSUME NEW c \in RefundCalls, RefundOrderAbort(c)
        PROVE  TypeOK'
    <2>1. OrderTypeOK' /\ PayTypeOK'
      BY <1>4, <1>0 DEF RefundOrderAbort, paymentsVars, orderVars, OrderTypeOK
    <2>2. RefundTypeOK'
      BY <1>4 DEF RefundOrderAbort, RefundTypeOK, IdleRefundCall, RefundOutcome
    <2>3. QED  BY <2>1, <2>2
  <1>5. ASSUME NEW x \in RefundRefs, GiveBackDone(x) \/ GiveBackFails(x)
        PROVE  TypeOK'
    <2>1. OrderTypeOK' /\ PayTypeOK'
      BY <1>5, <1>0
      DEF GiveBackDone, GiveBackFails, SettleGiveBack, paymentsVars, orderVars, OrderTypeOK
    <2>2. RefundTypeOK'
      <3>1. PICK st \in {"done", "failed", "returned"}, type \in {"refund.succeeded", "refund.failed"} :
              SettleGiveBack(x, st, type)
        BY <1>5 DEF GiveBackDone, GiveBackFails
      <3>2. giveBack' \in [RefundRefs -> [state : GiveBackState,
                                         for : Refunds \cup {NoRefund}]]
        BY <3>1 DEF SettleGiveBack, RefundTypeOK, GiveBackState
      <3>3. refundSent' \subseteq RefundEvent
        BY <3>1 DEF SettleGiveBack, RefundTypeOK, RefundNews
      <3>4. QED  BY <3>1, <3>2, <3>3 DEF SettleGiveBack, RefundTypeOK
    <2>3. QED  BY <2>1, <2>2
  <1>6. ASSUME NEW e \in RefundEvent, HandleRefundEvent(e)
        PROVE  TypeOK'
    <2>1. PICK r \in Refunds : ApplyRefundSucceeded(r) \/ ApplyRefundFailed(r)
      BY <1>6 DEF HandleRefundEvent
    <2>2. refund[r].amount \in Nat /\ OrderOfRefund[r] \in Orders
      BY DEF RefundTypeOK
    <2>3. OrderTypeOK'
      <3>1. CASE UNCHANGED <<status, refunded>>
        BY <1>6, <3>1 DEF HandleRefundEvent, OrderTypeOK
      <3>2. CASE AddRefund(OrderOfRefund[r], refund[r].amount)
        BY <1>6, <2>2, <3>2, AddRefundType DEF HandleRefundEvent, OrderTypeOK
      <3>3. QED  BY <2>1, <3>1, <3>2 DEF ApplyRefundSucceeded, ApplyRefundFailed
    <2>4. RefundTypeOK'
      <3>1. refundLedger' \in [Refunds -> [succeeded : Nat, failed : Nat]]
        <4>1. refundLedger' \in {refundLedger, EnsureRefundEntry(r), EnsureRefundFailedEntry(r)}
          BY <2>1 DEF ApplyRefundSucceeded, ApplyRefundFailed
        <4>2. QED
          BY <4>1 DEF EnsureRefundEntry, EnsureRefundFailedEntry, RefundTypeOK
      <3>2. refund' \in [Refunds -> [status : {"none", "initiated", "succeeded", "failed"},
                                    amount : 0 .. Total, ref : RefundRefs \cup {NoRef}]]
        <4>1. \/ refund' = refund
              \/ \E st \in {"succeeded", "failed"} : refund' = [refund EXCEPT ![r].status = st]
          BY <2>1 DEF ApplyRefundSucceeded, ApplyRefundFailed
        <4> DEFINE Rows == [status : {"none", "initiated", "succeeded", "failed"},
                            amount : 0 .. Total, ref : RefundRefs \cup {NoRef}]
        <4>2. refund \in [Refunds -> Rows] /\ refund[r] \in Rows
          BY DEF RefundTypeOK
        <4>3. \A st \in {"succeeded", "failed"} : [refund[r] EXCEPT !.status = st] \in Rows
          BY <4>2
        <4> HIDE DEF Rows
        <4>4. refund' \in [Refunds -> Rows]
          BY <4>1, <4>2, <4>3
        <4>5. QED  BY <4>4 DEF Rows
      <3>3. QED  BY <1>6, <3>1, <3>2 DEF HandleRefundEvent, RefundTypeOK
    <2>5. PayTypeOK'
      BY <1>0, <1>6 DEF HandleRefundEvent
    <2>6. QED  BY <2>3, <2>4, <2>5
  <1>7. QED
    BY <1>1, <1>2, <1>3, <1>4, <1>5, <1>6 DEF RefundNext, RefundOrderStep

LEMMA StepType == TypeOK /\ [Next]_vars => TypeOK'
  <1>1. ASSUME RefundTypeOK, UNCHANGED refundVars  PROVE RefundTypeOK'
    BY <1>1 DEF refundVars, RefundTypeOK
  <1>2. QED
    BY <1>1, RefundStepType, PayStepType DEF Next, vars, TypeOK, paymentsVars

LEMMA InitType == Init => TypeOK
  BY PayInitType, OrderAssumption, RefundAssumption
  DEF Init, TypeOK, RefundInit, RefundTypeOK, IdleRefundCall, RefundOutcome, GiveBackState

(* Every state of the composed system is well typed: refunded_cents stays  *)
(* within the total, and a refund row's amount does too.                   *)
THEOREM TypeCorrect == Spec => []TypeOK
  BY InitType, StepType, PTL DEF Spec
-----------------------------------------------------------------------------
(* A refund row, once there, stays with its amount; a new one has a        *)
(* positive amount and belongs to a succeeded payment of a refundable      *)
(* order.                                                                  *)
LEMMA RowsStay ==
  ASSUME TypeOK, RefundRefInv, RefundNext, NEW r \in Refunds
  PROVE  \/ /\ refund'[r].amount = refund[r].amount
            /\ RowExists(r)' <=> RowExists(r)
         \/ /\ ~ RowExists(r)
            /\ refund'[r].amount > 0
            /\ refund'[r].ref = NoRef
            /\ pay[PaymentOf[r]].status = "succeeded"
            /\ Refundable(OrderOfRefund[r])
            /\ UNCHANGED <<status, giveBack>>
  <1> USE RefundFunctions, RefundAssumption DEF TypeOK, RefundTypeOK
  <1>1. ASSUME NEW c \in RefundCalls, NEW p \in Payments, NEW k \in RefundKeys,
               NEW a \in RequestAmounts, RefundOrderBegin(c, p, k, a),
               r = <<p, k>>, refund[r].status = "none"
        PROVE  /\ refund'[r].amount > 0
               /\ refund'[r].ref = NoRef
               /\ pay[PaymentOf[r]].status = "succeeded"
               /\ Refundable(OrderOfRefund[r])
               /\ UNCHANGED <<status, giveBack>>
    <2>1. PaymentOf[r] = p /\ OrderOfRefund[r] = OrderOf[p] /\ OrderOf[p] \in Orders
      BY <1>1, OrderOfType DEF PaymentOf, OrderOfRefund
    <2>2. refund' = [refund EXCEPT ![r] = [status |-> "initiated", ref |-> NoRef,
                                           amount |-> RefundAmount(OrderOf[p], a)]]
      BY <1>1 DEF RefundOrderBegin
    <2>3. RefundAmount(OrderOf[p], a) \in 1 .. Total
      BY <1>1, <2>1, RefundAmountType DEF RefundOrderBegin, PaymentsTypeOK
    <2>4. refund'[r].amount > 0 /\ refund'[r].ref = NoRef
      BY <2>2, <2>3, OrderAssumption
    <2>5. QED
      BY <1>1, <2>1, <2>4 DEF RefundOrderBegin, paymentsVars, orderVars
  <1>2. ASSUME NEW c \in RefundCalls, NEW p \in Payments, NEW k \in RefundKeys,
               NEW a \in RequestAmounts, RefundOrderBegin(c, p, k, a),
               r # <<p, k>> \/ refund[r].status # "none"
        PROVE  refund'[r] = refund[r]
    BY <1>2 DEF RefundOrderBegin
  <1>3. ASSUME NEW c \in RefundCalls, RefundOrderFinalize(c)
        PROVE  \/ refund'[r] = refund[r]
               \/ /\ refund'[r].amount = refund[r].amount
                  /\ refund'[r].status # "none"
                  /\ RowExists(r)
    BY <1>3 DEF RefundOrderFinalize, RefundRowAfter, RefundRefInv, RefundCallHoldsOwn
  <1>4. ASSUME NEW e \in RefundEvent, HandleRefundEvent(e)
        PROVE  \/ refund'[r] = refund[r]
               \/ /\ refund'[r].amount = refund[r].amount
                  /\ refund'[r].status # "none"
                  /\ RowExists(r)
    BY <1>4 DEF HandleRefundEvent, ApplyRefundSucceeded, ApplyRefundFailed, RefundEvent,
                RefundRefInv, RefundRowHoldsOwn
  <1>5. QED
    BY <1>1, <1>2, <1>3, <1>4
    DEF RefundNext, RefundOrderStep, RefundPayment, RefundOrderAbort, GiveBackDone,
        GiveBackFails, SettleGiveBack, RowExists

(* A refund that the provider carried out stays carried out.               *)
LEMMA DoneStays ==
  ASSUME TypeOK, RefundNext, NEW x \in RefundRefs
  PROVE  /\ giveBack[x].state # "unused" => giveBack'[x].for = giveBack[x].for
         /\ Done(x) => Done(x)'
         /\ giveBack'[x].state = "unused" => giveBack'[x] = giveBack[x]
  <1>0. giveBack \in [RefundRefs -> [state : GiveBackState, for : Refunds \cup {NoRefund}]]
    BY DEF TypeOK, RefundTypeOK
  <1>1. ASSUME NEW c \in RefundCalls, RefundPayment(c), giveBack' # giveBack
        PROVE  \E y \in RefundRefs, st \in {"done", "pending", "failed"} :
                 /\ giveBack[y].state = "unused"
                 /\ giveBack' = [giveBack EXCEPT ![y] = [state |-> st,
                                                        for |-> refundCall[c].refund]]
    BY <1>1 DEF RefundPayment, NewGiveBack
  <1>2. ASSUME NEW y \in RefundRefs, GiveBackDone(y) \/ GiveBackFails(y)
        PROVE  /\ giveBack[y].state # "unused"
               /\ \E st \in {"done", "failed", "returned"} :
                    /\ giveBack' = [giveBack EXCEPT ![y].state = st]
                    /\ Done(y) => st # "failed"
    BY <1>2 DEF GiveBackDone, GiveBackFails, SettleGiveBack, Done
  <1>3. CASE giveBack' = giveBack
    BY <1>3 DEF Done
  <1>4. CASE giveBack' # giveBack
    <2>1. \/ \E c \in RefundCalls : RefundPayment(c)
          \/ \E y \in RefundRefs : GiveBackDone(y) \/ GiveBackFails(y)
      BY <1>4 DEF RefundNext, RefundOrderStep, RefundOrderBegin, RefundOrderFinalize,
                  RefundOrderAbort, HandleRefundEvent
    <2>2. CASE \E c \in RefundCalls : RefundPayment(c)
      <3>1. PICK c \in RefundCalls : RefundPayment(c)
        BY <2>2
      <3>2. PICK y \in RefundRefs, st \in {"done", "pending", "failed"} :
              /\ giveBack[y].state = "unused"
              /\ giveBack' = [giveBack EXCEPT ![y] = [state |-> st,
                                                     for |-> refundCall[c].refund]]
        BY <1>1, <1>4, <3>1
      <3>3. QED  BY <1>0, <3>2 DEF Done
    <2>3. CASE \E y \in RefundRefs : GiveBackDone(y) \/ GiveBackFails(y)
      <3>1. PICK y \in RefundRefs : GiveBackDone(y) \/ GiveBackFails(y)
        BY <2>3
      <3>2. PICK st \in {"done", "failed", "returned"} :
              /\ giveBack' = [giveBack EXCEPT ![y].state = st]
              /\ Done(y) => st # "failed"
        BY <1>2, <3>1
      <3>3. giveBack[y].state # "unused"
        BY <1>2, <3>1
      <3>4. QED  BY <1>0, <3>2, <3>3 DEF Done
    <2>4. QED  BY <2>1, <2>2, <2>3
  <1>5. QED  BY <1>3, <1>4

(* The references of refunds stay with their refunds: one step per part.   *)
LEMMA RefundRefStep == TypeOK /\ RefundRefInv /\ RefundNext => RefundRefInv'
  <1> SUFFICES ASSUME TypeOK, RefundRefInv, RefundNext
               PROVE  RefundRefInv'
    OBVIOUS
  <1> USE RefundAssumption DEF TypeOK, RefundTypeOK
  <1>0. \A x \in RefundRefs : giveBack[x].state = "unused" => giveBack[x].for = NoRefund
    BY DEF RefundRefInv, GiveBackUnused
  <1>1. GiveBackUnused'
    BY DoneStays, <1>0 DEF GiveBackUnused
  <1>2. RefundRowHoldsOwn'
    <2> SUFFICES ASSUME NEW r \in Refunds
                 PROVE  /\ refund'[r].ref # NoRef
                             => RowExists(r)' /\ giveBack'[refund'[r].ref].for = r
                        /\ RowExists(r)' => refund'[r].amount > 0
      BY DEF RefundRowHoldsOwn
    <2>1. RowExists(r)' => refund'[r].amount > 0
      BY RowsStay DEF RefundRefInv, RefundRowHoldsOwn
    <2>2. \/ refund'[r].ref = NoRef
          \/ refund'[r].ref = refund[r].ref /\ (RowExists(r) => RowExists(r)')
          \/ /\ RowExists(r)'
             /\ giveBack[refund'[r].ref].for = r
      <3>1. ASSUME NEW c \in RefundCalls, RefundOrderFinalize(c)
            PROVE  \/ refund'[r].ref = refund[r].ref /\ (RowExists(r) => RowExists(r)')
                   \/ RowExists(r)' /\ giveBack[refund'[r].ref].for = r
        <4>1. PICK q \in Refunds : q = refundCall[c].refund
          BY <3>1 DEF RefundOrderFinalize
        <4>2. /\ refundCall[c].ref \in RefundRefs \cup {NoRef}
              /\ refundCall[c].ref # NoRef => giveBack[refundCall[c].ref].for = q
              /\ RowExists(q)
          BY <3>1, <4>1 DEF RefundOrderFinalize, RefundRefInv, RefundCallHoldsOwn
        <4>3. refund' = [refund EXCEPT ![q] = RefundRowAfter(c)]
          BY <3>1, <4>1 DEF RefundOrderFinalize
        <4>4. CASE r = q
          <5>1. refund'[r] = RefundRowAfter(c)
            BY <4>3, <4>4
          <5>2. RowExists(r)'
            BY <5>1 DEF RowExists, RefundRowAfter
          <5>3. \/ refund'[r].ref = refund[r].ref
                \/ refundCall[c].ref # NoRef /\ refund'[r].ref = refundCall[c].ref
            BY <4>1, <4>4, <5>1 DEF RefundRowAfter
          <5>4. QED  BY <4>2, <4>4, <5>2, <5>3
        <4>5. CASE r # q
          BY <4>3, <4>5 DEF RowExists
        <4>6. QED  BY <4>4, <4>5
      <3>2. ASSUME NEW e \in RefundEvent, HandleRefundEvent(e)
            PROVE  refund'[r].ref = refund[r].ref /\ (RowExists(r) => RowExists(r)')
        <4>1. PICK q \in Refunds : ApplyRefundSucceeded(q) \/ ApplyRefundFailed(q)
          BY <3>2 DEF HandleRefundEvent
        <4>2. \/ refund' = refund
              \/ refund' = [refund EXCEPT ![q].status = "succeeded"]
              \/ refund' = [refund EXCEPT ![q].status = "failed"]
          BY <4>1 DEF ApplyRefundSucceeded, ApplyRefundFailed
        <4>3. QED  BY <4>2 DEF RowExists
      <3>3. ASSUME NEW c \in RefundCalls, NEW p \in Payments, NEW k \in RefundKeys,
                   NEW a \in RequestAmounts, RefundOrderBegin(c, p, k, a)
            PROVE  \/ refund'[r].ref = NoRef
                   \/ refund'[r].ref = refund[r].ref /\ (RowExists(r) => RowExists(r)')
        BY <3>3 DEF RefundOrderBegin, RowExists
      <3>4. QED
        BY <3>1, <3>2, <3>3
        DEF RefundNext, RefundOrderStep, RefundPayment, RefundOrderAbort, GiveBackDone,
            GiveBackFails, SettleGiveBack, RowExists
    <2>3. ASSUME NEW x \in RefundRefs, giveBack[x].for = r
          PROVE  giveBack'[x].for = r
      BY <1>0, <2>3, DoneStays
    <2>4. refund'[r].ref # NoRef => refund'[r].ref \in RefundRefs
      BY RefundStepType
    <2>5. QED
      BY <2>1, <2>2, <2>3, <2>4 DEF RefundRefInv, RefundRowHoldsOwn
  <1>3. RefundNewsIsTrue'
    <2>1. refundReceived' \subseteq refundSent'
      <3>1. refundSent \subseteq refundSent'
        BY DEF RefundNext, RefundOrderStep, RefundOrderBegin, RefundPayment, NewGiveBack,
               RefundOrderFinalize, RefundOrderAbort, GiveBackDone, GiveBackFails,
               SettleGiveBack, HandleRefundEvent
      <3>2. refundReceived' \subseteq refundReceived \cup refundSent
        BY DEF RefundNext, RefundOrderStep, RefundOrderBegin, RefundPayment,
               RefundOrderFinalize, RefundOrderAbort, GiveBackDone, GiveBackFails,
               SettleGiveBack, HandleRefundEvent
      <3>3. QED  BY <3>1, <3>2 DEF RefundRefInv, RefundNewsIsTrue
    <2> SUFFICES ASSUME NEW e \in refundSent'
                 PROVE  /\ giveBack'[e.ref].state # "unused"
                        /\ e.type = "refund.succeeded" => Done(e.ref)'
      BY <2>1 DEF RefundNewsIsTrue
    <2>2. CASE e \in refundSent
      <3>1. e.ref \in RefundRefs
        BY <2>2 DEF RefundEvent
      <3>2. QED  BY <2>2, <3>1, DoneStays DEF RefundRefInv, RefundNewsIsTrue
    <2>3. CASE e \notin refundSent
      <3>1. ASSUME NEW c \in RefundCalls, RefundPayment(c)
            PROVE  /\ giveBack'[e.ref].state # "unused"
                   /\ e.type = "refund.succeeded" => Done(e.ref)'
        <4>1. PICK outcome \in RefundOutcomes, x \in RefundRefs,
                   st \in {"done", "pending", "failed"} : NewGiveBack(c, outcome, x, st)
          BY <2>3, <3>1 DEF RefundPayment
        <4>2. e.ref = x /\ (e.type = "refund.succeeded" => st = "done")
          BY <2>3, <4>1 DEF NewGiveBack, RefundNews
        <4>3. giveBack'[x].state = st
          BY <4>1 DEF NewGiveBack
        <4>4. QED  BY <4>2, <4>3 DEF Done
      <3>2. ASSUME NEW x \in RefundRefs, GiveBackDone(x) \/ GiveBackFails(x)
            PROVE  /\ giveBack'[e.ref].state # "unused"
                   /\ e.type = "refund.succeeded" => Done(e.ref)'
        BY <2>3, <3>2 DEF GiveBackDone, GiveBackFails, SettleGiveBack, RefundNews, Done
      <3>3. QED
        BY <2>3, <3>1, <3>2
        DEF RefundNext, RefundOrderStep, RefundOrderBegin, RefundOrderFinalize,
            RefundOrderAbort, HandleRefundEvent
    <2>4. QED  BY <2>2, <2>3
  <1>4. RefundCallHoldsOwn'
    <2> SUFFICES ASSUME NEW c \in RefundCalls
                 PROVE  /\ refundCall'[c].pc # "idle" => RowExists(refundCall[c].refund)'
                        /\ refundCall'[c].pc # "idle" /\ refundCall'[c].ref # NoRef
                             => giveBack'[refundCall'[c].ref].for = refundCall'[c].refund
                        /\ refundCall'[c].pc = "finalize" /\ refundCall'[c].status = "succeeded"
                             => refundCall'[c].ref # NoRef /\ Done(refundCall[c].ref)'
      BY DEF RefundCallHoldsOwn
    <2>1. CASE refundCall'[c] = refundCall[c]
      <3>1. refundCall[c].pc # "idle"
              => RowExists(refundCall[c].refund) /\ refundCall[c].refund \in Refunds
        BY DEF RefundRefInv, RefundCallHoldsOwn
      <3>2. refundCall'[c].pc # "idle" => RowExists(refundCall[c].refund)'
        BY <2>1, <3>1, RowsStay DEF RowExists
      <3>3. refundCall[c].ref # NoRef => refundCall[c].ref \in RefundRefs
        OBVIOUS
      <3>4. QED
        BY <2>1, <3>1, <3>2, <3>3, <1>0, DoneStays
        DEF RefundRefInv, RefundCallHoldsOwn, Done
    <2>2. CASE refundCall'[c] # refundCall[c]
      <3>1. ASSUME NEW p \in Payments, NEW k \in RefundKeys, NEW a \in RequestAmounts,
                   RefundOrderBegin(c, p, k, a)
            PROVE  /\ refundCall'[c] = AskingRefundCall(<<p, k>>)
                   /\ RowExists(<<p, k>>)'
        BY <3>1 DEF RefundOrderBegin, RowExists, Refunds
      <3>2. ASSUME RefundPayment(c)
            PROVE  /\ RowExists(refundCall[c].refund)'
                   /\ refundCall'[c].pc = "finalize"
                   /\ refundCall'[c].refund = refundCall[c].refund
                   /\ refundCall'[c].ref # NoRef
                        => giveBack'[refundCall'[c].ref].for = refundCall[c].refund
                   /\ refundCall'[c].status = "succeeded"
                        => refundCall'[c].ref # NoRef /\ Done(refundCall[c].ref)'
        <4>1. RowExists(refundCall[c].refund) /\ refund' = refund
          BY <3>2 DEF RefundRefInv, RefundCallHoldsOwn, RefundPayment
        <4>2. PICK outcome \in RefundOutcomes :
                \/ \E x \in RefundRefs, st \in {"done", "pending", "failed"} :
                     /\ NewGiveBack(c, outcome, x, st)
                     /\ outcome = "succeeded" => st = "done"
                \/ /\ outcome = "error"
                   /\ refundCall' = [refundCall EXCEPT
                        ![c] = AnsweredRefundCall(refundCall[c].refund, "error", NoRef)]
          BY <3>2 DEF RefundPayment
        <4>3. QED  BY <4>1, <4>2 DEF NewGiveBack, AnsweredRefundCall, RowExists, Done
      <3>3. ASSUME RefundOrderFinalize(c) \/ RefundOrderAbort(c)
            PROVE  refundCall'[c] = IdleRefundCall
        BY <3>3 DEF RefundOrderFinalize, RefundOrderAbort
      <3>4. \/ \E p \in Payments, k \in RefundKeys, a \in RequestAmounts :
                 RefundOrderBegin(c, p, k, a)
            \/ RefundPayment(c)
            \/ RefundOrderFinalize(c)
            \/ RefundOrderAbort(c)
        <4>1. ASSUME NEW d \in RefundCalls, d # c, RefundOrderStep(d)
              PROVE  refundCall'[c] = refundCall[c]
          <5>1. CASE RefundPayment(d)
            BY <4>1, <5>1 DEF RefundPayment, NewGiveBack
          <5>2. CASE ~ RefundPayment(d)
            BY <4>1, <5>2 DEF RefundOrderStep, RefundOrderBegin, RefundOrderFinalize,
                              RefundOrderAbort
          <5>3. QED  BY <5>1, <5>2
        <4>2. \E d \in RefundCalls : RefundOrderStep(d)
          BY <2>2 DEF RefundNext, GiveBackDone, GiveBackFails, SettleGiveBack,
                      HandleRefundEvent
        <4>3. RefundOrderStep(c)
          BY <2>2, <4>1, <4>2
        <4>4. QED  BY <4>3 DEF RefundOrderStep
      <3>5. CASE \E p \in Payments, k \in RefundKeys, a \in RequestAmounts :
                    RefundOrderBegin(c, p, k, a)
        <4>1. PICK p \in Payments, k \in RefundKeys :
                /\ refundCall'[c] = AskingRefundCall(<<p, k>>)
                /\ RowExists(<<p, k>>)'
          BY <3>1, <3>5
        <4>2. QED  BY <4>1 DEF AskingRefundCall, RowExists
      <3>6. CASE RefundPayment(c)
        BY <3>2, <3>6 DEF RowExists, Done
      <3>7. CASE RefundOrderFinalize(c) \/ RefundOrderAbort(c)
        BY <3>3, <3>7 DEF IdleRefundCall
      <3>8. QED  BY <3>4, <3>5, <3>6, <3>7
    <2>3. QED  BY <2>1, <2>2
  <1>5. QED  BY <1>1, <1>2, <1>3, <1>4 DEF RefundRefInv
-----------------------------------------------------------------------------
(* What a refund step does to orders and ledger: nothing, or it books one  *)
(* refund that the provider carried out.                                   *)
InProgress(c, r) == refundCall[c].pc # "idle" /\ refundCall[c].refund = r

BooksRefund(r) ==
  /\ RowExists(r)
  /\ GivenBack(r)
  /\ AddRefund(OrderOfRefund[r], refund[r].amount)
  /\ \/ refund[r].status # "succeeded" /\ Heard(r, "refund.succeeded")'
     \/ \E c \in RefundCalls : InProgress(c, r)
  /\ refundLedger'[r].succeeded > 0
  /\ refundLedger'[r].succeeded \in {refundLedger[r].succeeded, refundLedger[r].succeeded + 1}
  /\ \A q \in Refunds \ {r} : refundLedger'[q].succeeded = refundLedger[q].succeeded
  /\ notified' \subseteq notified \cup {r}
  /\ UNCHANGED giveBack

LEMMA RefundShape ==
  ASSUME TypeOK, RefundRefInv, RefundNext
  PROVE  \/ /\ UNCHANGED <<status, refunded, notified>>
            /\ \A q \in Refunds : refundLedger'[q].succeeded = refundLedger[q].succeeded
         \/ \E r \in Refunds : BooksRefund(r)
  <1> USE RefundAssumption DEF TypeOK, RefundTypeOK
  <1>1. ASSUME NEW c \in RefundCalls, RefundOrderFinalize(c)
        PROVE  \/ /\ UNCHANGED <<status, refunded, notified>>
                  /\ \A q \in Refunds : refundLedger'[q].succeeded = refundLedger[q].succeeded
               \/ \E r \in Refunds : BooksRefund(r)
    <2>1. PICK r \in Refunds : r = refundCall[c].refund /\ RowExists(r)
      BY <1>1 DEF RefundOrderFinalize, RefundRefInv, RefundCallHoldsOwn
    <2>2. CASE refundCall[c].status = "succeeded"
      <3>1. RefundSucceedsNow(r)
        BY <1>1, <2>1, <2>2 DEF RefundOrderFinalize
      <3>2. PICK x \in RefundRefs : giveBack[x].for = r /\ Done(x)
        BY <1>1, <2>1, <2>2 DEF RefundOrderFinalize, RefundRefInv, RefundCallHoldsOwn
      <3>3. GivenBack(r) /\ giveBack' = giveBack
        BY <1>1, <3>2 DEF GivenBack, RefundOrderFinalize, Done
      <3>4. /\ refundLedger'[r].succeeded = refundLedger[r].succeeded + 1
            /\ refundLedger'[r].succeeded > 0
            /\ \A q \in Refunds \ {r} : refundLedger'[q].succeeded = refundLedger[q].succeeded
        BY <3>1 DEF RefundSucceedsNow
      <3>5. InProgress(c, r)
        BY <1>1, <2>1 DEF RefundOrderFinalize, InProgress
      <3>6. BooksRefund(r)
        BY <2>1, <3>1, <3>3, <3>4, <3>5 DEF BooksRefund, RefundSucceedsNow
      <3>7. QED  BY <3>6
    <2>3. CASE refundCall[c].status # "succeeded"
      BY <1>1, <2>1, <2>3 DEF RefundOrderFinalize, RefundFailsNow, orderVars
    <2>4. QED  BY <2>2, <2>3
  <1>2. ASSUME NEW e \in RefundEvent, HandleRefundEvent(e)
        PROVE  \/ /\ UNCHANGED <<status, refunded, notified>>
                  /\ \A q \in Refunds : refundLedger'[q].succeeded = refundLedger[q].succeeded
               \/ \E r \in Refunds : BooksRefund(r)
    <2>1. PICK r \in Refunds :
            /\ refund[r].ref = e.ref
            /\ IF e.type = "refund.succeeded" THEN ApplyRefundSucceeded(r)
                                              ELSE ApplyRefundFailed(r)
      BY <1>2 DEF HandleRefundEvent
    <2>2. CASE e.type = "refund.succeeded" /\ refund[r].status # "succeeded"
      <3>1. /\ AddRefund(OrderOfRefund[r], refund[r].amount)
            /\ refundLedger' = EnsureRefundEntry(r)
        BY <2>1, <2>2 DEF ApplyRefundSucceeded
      <3>2. /\ refundLedger'[r].succeeded > 0
            /\ refundLedger'[r].succeeded \in
                 {refundLedger[r].succeeded, refundLedger[r].succeeded + 1}
            /\ \A q \in Refunds \ {r} : refundLedger'[q].succeeded = refundLedger[q].succeeded
        BY <3>1 DEF EnsureRefundEntry
      <3>3. e.ref \in RefundRefs /\ RowExists(r) /\ giveBack[e.ref].for = r
        BY <2>1 DEF RefundEvent, RefundRefInv, RefundRowHoldsOwn
      <3>4. Done(e.ref)
        BY <1>2, <2>2 DEF HandleRefundEvent, RefundRefInv, RefundNewsIsTrue
      <3>5. GivenBack(r)
        BY <3>3, <3>4 DEF GivenBack, Done
      <3>6. e \in refundReceived' /\ giveBack' = giveBack
        BY <1>2 DEF HandleRefundEvent
      <3>7. Heard(r, "refund.succeeded")'
        BY <2>2, <3>3, <3>6 DEF Heard
      <3>8. BooksRefund(r)
        BY <1>2, <2>2, <3>1, <3>2, <3>3, <3>5, <3>6, <3>7 DEF BooksRefund, HandleRefundEvent
      <3>9. QED  BY <3>8
    <2>3. CASE ~ (e.type = "refund.succeeded" /\ refund[r].status # "succeeded")
      <3>1. /\ UNCHANGED <<status, refunded>>
            /\ refundLedger' = refundLedger \/ refundLedger' = EnsureRefundFailedEntry(r)
        BY <2>1, <2>3 DEF ApplyRefundSucceeded, ApplyRefundFailed
      <3>2. \A q \in Refunds : refundLedger'[q].succeeded = refundLedger[q].succeeded
        BY <3>1 DEF EnsureRefundFailedEntry
      <3>3. QED  BY <1>2, <3>1, <3>2 DEF HandleRefundEvent
    <2>4. QED  BY <2>2, <2>3
  <1>3. ASSUME NEW c \in RefundCalls, NEW p \in Payments, NEW k \in RefundKeys,
               NEW a \in RequestAmounts, RefundOrderBegin(c, p, k, a)
        PROVE  UNCHANGED <<status, refunded, notified, refundLedger>>
    BY <1>3 DEF RefundOrderBegin, paymentsVars, orderVars
  <1>4. ASSUME NEW c \in RefundCalls, RefundPayment(c) \/ RefundOrderAbort(c)
        PROVE  UNCHANGED <<status, refunded, notified, refundLedger>>
    BY <1>4 DEF RefundPayment, RefundOrderAbort, paymentsVars, orderVars
  <1>5. ASSUME NEW x \in RefundRefs, GiveBackDone(x) \/ GiveBackFails(x)
        PROVE  UNCHANGED <<status, refunded, notified, refundLedger>>
    BY <1>5 DEF GiveBackDone, GiveBackFails, SettleGiveBack, paymentsVars, orderVars
  <1>6. CASE UNCHANGED <<status, refunded, notified, refundLedger>>
    BY <1>6
  <1>7. QED
    BY <1>1, <1>2, <1>3, <1>4, <1>5, <1>6 DEF RefundNext, RefundOrderStep

(* Payment steps move an order along these lines and leave refunds alone.  *)
LEMMA PayMoves ==
  ASSUME PayInv, [PayNext]_paymentsVars, NEW o \in Orders
  PROVE  /\ refunded' = refunded
         /\ \/ status'[o] = status[o]
            \/ status[o] = "created" /\ status'[o] \in {"paid", "cancelled"}
            \/ status[o] = "paid" /\ status'[o] = "shipped"
            \/ status[o] = "shipped" /\ status'[o] = "delivered"
  <1> USE OrderOfType DEF PayInv, PaymentsTypeOK, OrderTypeOK
  <1>1. refunded' = refunded
    BY DEF PayNext, PayOrderStep, PayOrderBegin, CreatePayment, PayOrderFinalize,
           PayOrderAbort, CaptureCharge, DeclineCharge, HandlePaymentEvent, Transition,
           paymentsVars, orderVars
  <1>2. ASSUME NEW p \in Payments, Books(p)
        PROVE  status'[o] = status[o] \/ (status[o] = "created" /\ status'[o] = "paid")
    BY <1>2 DEF Books, MarkPaid
  <1>3. ASSUME NEW q \in Orders, NEW a \in AdminAction, Transition(q, a)
        PROVE  \/ status'[o] = status[o]
               \/ status[o] = "created" /\ status'[o] = "cancelled"
               \/ status[o] = "paid" /\ status'[o] = "shipped"
               \/ status[o] = "shipped" /\ status'[o] = "delivered"
    BY <1>3 DEF Transition, NextStatus, AdminAction
  <1>4. QED  BY <1>1, <1>2, <1>3, StepShape

(* A refund step leaves payments alone, and every order open, cancelled or *)
(* settled as it was.                                                      *)
LEMMA RefundKeepsKind ==
  ASSUME PayInv, RefundInv, RefundNext
  PROVE  /\ payVars' = payVars
         /\ \A o \in Orders : /\ status'[o] \in Settled <=> status[o] \in Settled
                              /\ status'[o] = "created" <=> status[o] = "created"
  <1>1. TypeOK /\ RefundRefInv /\ PaymentsTypeOK'
    BY RefundStepType DEF PayInv, RefundInv, TypeOK
  <1>2. payVars' = payVars
    BY DEF RefundNext, RefundOrderStep, RefundOrderBegin, RefundPayment, RefundOrderAbort,
           RefundOrderFinalize, GiveBackDone, GiveBackFails, SettleGiveBack,
           HandleRefundEvent, paymentsVars
  <1>3. ASSUME NEW r \in Refunds, BooksRefund(r), NEW o \in Orders
        PROVE  /\ status'[o] \in Settled <=> status[o] \in Settled
               /\ status'[o] = "created" <=> status[o] = "created"
    <2>1. CASE o = OrderOfRefund[r]
      <3>1. status[o] \in Settled
        BY <1>3, <2>1 DEF BooksRefund, RefundInv, RefundNeedsMoney
      <3>2. status'[o] \in {"refunded", "partially_refunded"}
        BY <1>1, <1>3, <2>1
        DEF BooksRefund, AddRefund, PayInv, PaymentsTypeOK, OrderTypeOK
      <3>3. QED  BY <3>1, <3>2 DEF Settled, OrderStatus
    <2>2. CASE o # OrderOfRefund[r]
      BY <1>1, <1>3, <2>2
      DEF BooksRefund, AddRefund, PayInv, PaymentsTypeOK, OrderTypeOK
    <2>3. QED  BY <2>1, <2>2
  <1>4. QED  BY <1>1, <1>2, <1>3, RefundShape

(* Refund steps leave PayInv alone: they only move settled orders among    *)
(* the settled statuses.                                                   *)
LEMMA RefundKeepsPayInv ==
  ASSUME PayInv, RefundInv, RefundNext
  PROVE  PayInv'
  <1>1. TypeOK /\ RefundRefInv /\ PaymentsTypeOK'
    BY RefundStepType DEF PayInv, RefundInv, TypeOK
  <1>2. payVars' = payVars
    BY RefundKeepsKind
  <1>3. RefInv' /\ LedgerBacked' /\ SucceededIsBooked'
    BY <1>2 DEF PayInv, RefInv, UnusedIsFree, CallHoldsOwn, RowHoldsOwn, NewsIsTrue,
                Captured, LedgerBacked, SucceededIsBooked, CapturedFor, Booked, payVars
  <1>4. OrderMatchesLedger'
    <2>1. \A p \in Payments : Booked(p)' <=> Booked(p)
      BY <1>2 DEF Booked, payVars
    <2>2. QED  BY RefundKeepsKind, <2>1 DEF PayInv, OrderMatchesLedger
  <1>5. QED  BY <1>1, <1>3, <1>4 DEF PayInv

LEMMA AgreesStep ==
  ASSUME TypeOK, PayInv, RefundInv, [Next]_vars
  PROVE  RefundAgrees'
  <1> USE RefundFunctions, OrderAssumption DEF TypeOK, PaymentsTypeOK, OrderTypeOK
  <1>1. CASE [PayNext]_paymentsVars
    BY <1>1, PayMoves DEF RefundInv, RefundAgrees
  <1>2. CASE RefundNext
    <2>1. CASE UNCHANGED <<status, refunded>>
      BY <2>1 DEF RefundInv, RefundAgrees
    <2>2. ASSUME NEW r \in Refunds, BooksRefund(r)
          PROVE  RefundAgrees'
      <3> SUFFICES ASSUME NEW o \in Orders
                   PROVE  /\ refunded'[o] > 0 => status'[o] \in {"partially_refunded", "refunded"}
                          /\ status'[o] = "partially_refunded" => refunded'[o] \in 1 .. (Total - 1)
                          /\ status'[o] = "refunded" => refunded'[o] = Total
        BY DEF RefundAgrees
      <3>1. CASE o # OrderOfRefund[r]
        BY <2>2, <3>1 DEF BooksRefund, AddRefund, RefundInv, RefundAgrees
      <3>2. CASE o = OrderOfRefund[r]
        <4>1. PICK n \in 1 .. Total : n = refund[r].amount
          BY <2>2 DEF BooksRefund, RefundInv, RefundRefInv, RefundRowHoldsOwn, RefundTypeOK
        <4>2. refunded[o] \in 0 .. Total
          OBVIOUS
        <4>3. CASE RefundsFully(o, n)
          <5>1. status'[o] = "refunded" /\ refunded'[o] = Total
            BY <2>2, <3>2, <4>1, <4>3 DEF BooksRefund, AddRefund
          <5>2. QED  BY <5>1
        <4>4. CASE ~ RefundsFully(o, n)
          <5>1. status'[o] = "partially_refunded" /\ refunded'[o] = refunded[o] + n
            BY <2>2, <3>2, <4>1, <4>4 DEF BooksRefund, AddRefund
          <5>2. QED  BY <4>1, <4>2, <4>4, <5>1 DEF RefundsFully
        <4>5. QED  BY <4>3, <4>4
      <3>3. QED  BY <3>1, <3>2
    <2>3. QED  BY <1>2, <2>1, <2>2, RefundShape DEF RefundInv
  <1>3. QED  BY <1>1, <1>2 DEF Next, vars

LEMMA RefundBackedStep ==
  ASSUME TypeOK, RefundInv, RefundNext
  PROVE  RefundBacked'
  <1>1. \A r \in Refunds : GivenBack(r) => GivenBack(r)'
    BY DoneStays DEF GivenBack, Done
  <1>2. CASE /\ notified' = notified
             /\ \A q \in Refunds : refundLedger'[q].succeeded = refundLedger[q].succeeded
    BY <1>1, <1>2 DEF RefundInv, RefundBacked
  <1>3. ASSUME NEW r \in Refunds, BooksRefund(r)
        PROVE  RefundBacked'
    BY <1>1, <1>3 DEF BooksRefund, RefundInv, RefundBacked
  <1>4. QED  BY <1>2, <1>3, RefundShape DEF RefundInv

LEMMA NeedsMoneyStep ==
  ASSUME TypeOK, PayInv, RefundInv, [Next]_vars, PayInv'
  PROVE  RefundNeedsMoney'
  <1> SUFFICES ASSUME NEW r \in Refunds, RowExists(r)'
               PROVE  Booked(PaymentOf[r])' /\ status'[OrderOfRefund[r]] \in Settled
    BY DEF RefundNeedsMoney
  <1> USE RefundFunctions
  <1>1. PICK p \in Payments, o \in Orders :
          p = PaymentOf[r] /\ o = OrderOfRefund[r] /\ o = OrderOf[p]
    BY OrderOfType DEF OrderOfRefund
  <1>2. CASE [PayNext]_paymentsVars /\ RowExists(r)
    <2>1. Booked(p) /\ status[o] \in Settled
      BY <1>1, <1>2 DEF RefundInv, RefundNeedsMoney
    <2>2. Booked(p)'
      BY <1>2, <2>1, BookedStays DEF PayInv
    <2>3. status'[o] \in Settled
      BY <1>2, <2>1, PayMoves DEF Settled, OrderStatus
    <2>4. QED  BY <1>1, <2>2, <2>3
  <1>3. CASE RefundNext
    <2>1. payVars' = payVars
      BY <1>3 DEF RefundNext, RefundOrderStep, RefundOrderBegin, RefundPayment,
                  RefundOrderAbort, RefundOrderFinalize, GiveBackDone, GiveBackFails,
                  SettleGiveBack, HandleRefundEvent, paymentsVars
    <2>2. Booked(p) /\ (RowExists(r) => status[o] \in Settled)
      BY <1>1, <1>3, RowsStay
      DEF RefundInv, RefundNeedsMoney, PayInv, SucceededIsBooked
    <2>3. CASE RowExists(r)
      <3>1. status'[o] \in Settled
        <4>1. CASE UNCHANGED status
          BY <2>2, <2>3, <4>1
        <4>2. ASSUME NEW q \in Refunds, BooksRefund(q)
              PROVE  status'[o] \in Settled
          BY <2>2, <2>3, <4>2
          DEF BooksRefund, AddRefund, TypeOK, PaymentsTypeOK, OrderTypeOK, Settled, OrderStatus
        <4>3. QED  BY <1>3, <4>1, <4>2, RefundShape DEF RefundInv
      <3>2. QED  BY <1>1, <2>1, <2>2, <3>1 DEF Booked, payVars
    <2>4. CASE ~ RowExists(r)
      <3>1. Refundable(o) /\ status' = status
        BY <1>1, <1>3, <2>4, RowsStay DEF RefundInv
      <3>2. status'[o] \in Settled
        BY <3>1 DEF Refundable, Settled, OrderStatus
      <3>3. QED  BY <1>1, <2>1, <2>2, <3>2 DEF Booked, payVars
    <2>5. QED  BY <2>3, <2>4
  <1>4. QED
    BY <1>2, <1>3 DEF Next, vars, refundVars, RowExists
-----------------------------------------------------------------------------
AllInv == TypeOK /\ PayInv /\ RefundInv

LEMMA InitAll == Init => AllInv
  <1> SUFFICES ASSUME Init  PROVE AllInv
    OBVIOUS
  <1>1. TypeOK
    BY InitType
  <1>2. PayInv
    BY PayInvInit DEF Init
  <1>3. RefundRefInv
    BY DEF Init, RefundInit, RefundRefInv, GiveBackUnused, RefundCallHoldsOwn,
           RefundRowHoldsOwn, RefundNewsIsTrue, IdleRefundCall, RowExists
  <1>4. RefundAgrees
    <2> SUFFICES ASSUME NEW o \in Orders
                 PROVE  /\ refunded[o] > 0 => status[o] \in {"partially_refunded", "refunded"}
                        /\ status[o] = "partially_refunded" => refunded[o] \in 1 .. (Total - 1)
                        /\ status[o] = "refunded" => refunded[o] = Total
      BY DEF RefundAgrees
    <2>1. status[o] = "created" /\ ~ (refunded[o] > 0)
      BY DEF Init, OrderInit
    <2>2. QED  BY <2>1
  <1>5. RefundBacked /\ RefundNeedsMoney
    BY DEF Init, RefundInit, RefundBacked, RefundNeedsMoney, RowExists
  <1>6. QED  BY <1>1, <1>2, <1>3, <1>4, <1>5 DEF AllInv, RefundInv, TypeOK

LEMMA NextAll == AllInv /\ [Next]_vars => AllInv'
  <1> SUFFICES ASSUME AllInv, [Next]_vars  PROVE AllInv'
    OBVIOUS
  <1> USE DEF AllInv
  <1>1. TypeOK'
    BY StepType
  <1>2. CASE RefundNext
    <2>1. PayInv'
      BY <1>2, RefundKeepsPayInv
    <2>2. RefundAgrees' /\ RefundNeedsMoney'
      BY AgreesStep, NeedsMoneyStep, <2>1
    <2>3. RefundRefInv' /\ RefundBacked'
      BY <1>2, RefundRefStep, RefundBackedStep DEF RefundInv
    <2>4. QED  BY <1>1, <2>1, <2>2, <2>3 DEF RefundInv, TypeOK
  <1>3. CASE [PayNext]_paymentsVars /\ UNCHANGED refundVars
    <2>1. PayInv'
      BY <1>3, PayInvStep
    <2>2. RefundAgrees' /\ RefundNeedsMoney'
      BY AgreesStep, NeedsMoneyStep, <2>1
    <2>3. RefundRefInv' /\ RefundBacked'
      BY <1>3 DEF RefundInv, refundVars, RefundRefInv, GiveBackUnused, RefundCallHoldsOwn,
                  RefundRowHoldsOwn, RefundNewsIsTrue, Done, RefundBacked, GivenBack, RowExists
    <2>4. QED  BY <1>1, <2>1, <2>2, <2>3 DEF RefundInv, TypeOK
  <1>4. QED  BY <1>2, <1>3 DEF Next, vars

LEMMA AllInvariant == Spec => []AllInv
  BY InitAll, NextAll, PTL DEF Spec

(* refunded_cents and the status of an order always tell the same story,   *)
(* whichever of RefundOrder and the webhook wrote them.                    *)
THEOREM RefundsAgreeWithOrders == Spec => []RefundAgrees
  BY AllInvariant, PTL DEF AllInv, RefundInv

(* No refund is booked, and no customer told of one, that the provider did *)
(* not carry out for that refund.                                          *)
THEOREM RefundsAreBacked == Spec => []RefundBacked
  BY AllInvariant, PTL DEF AllInv, RefundInv

(* There is no refund row without booked money, nor for an order that is   *)
(* open or cancelled.                                                      *)
THEOREM RefundsNeedMoney == Spec => []RefundNeedsMoney
  BY AllInvariant, PTL DEF AllInv, RefundInv

(* Refunds do not break what PaymentsProofs shows of payments alone.       *)
THEOREM OrdersStillMatchLedger ==
  Spec => [](OrderMatchesLedger /\ LedgerBacked /\ SucceededIsBooked)
  BY AllInvariant, PTL DEF AllInv, PayInv

LEMMA ShopOnceStep == AllInv /\ OnceInv /\ [Next]_vars => OnceInv'
  <1>1. ASSUME AllInv, OnceInv, RefundNext  PROVE OnceInv'
    <2>1. payVars' = payVars
      BY <1>1, RefundKeepsKind DEF AllInv
    <2>2. QED  BY <1>1, <2>1 DEF OnceInv, payVars
  <1>2. QED  BY <1>1, PayOnceStep DEF Next, vars, AllInv, PayInv

(* Nor do refunds make a payment be booked twice.                          *)
THEOREM StillBookedOnce == Spec => []LedgerOnce
  <1>1. Init => OnceInv
    BY PayOnceInit DEF Init
  <1>2. QED  BY <1>1, ShopOnceStep, AllInvariant, PTL DEF Spec, OnceInv, LedgerOnce

(* A step that leaves payments alone, and every order open, cancelled or   *)
(* settled as it was, is nothing that Settlement can see.                  *)
LEMMA NothingSettled ==
  ASSUME OrderTypeOK, OrderTypeOK', payVars' = payVars,
         \A o \in Orders : /\ status'[o] \in Settled <=> status[o] \in Settled
                           /\ status'[o] = "created" <=> status[o] = "created"
  PROVE  UNCHANGED Promise!settlementVars
  <1>1. UNCHANGED <<CapturedSet, BookedSet>>
    BY DEF payVars, CapturedSet, BookedSet, CapturedFor, Booked
  <1>2. \A o \in Orders : status[o] \in OrderStatus /\ status'[o] \in OrderStatus
    BY DEF OrderTypeOK
  <1>3. UNCHANGED StateOf
    BY <1>2 DEF StateOf, Settled, OrderStatus
  <1>4. QED
    BY <1>1, <1>3 DEF Promise!settlementVars, CapturedSet, BookedSet, StateOf

LEMMA ShopSettlementStep ==
  AllInv /\ [Next]_vars => [Promise!SettlementNext]_(Promise!settlementVars)
  <1>1. ASSUME AllInv, RefundNext  PROVE UNCHANGED Promise!settlementVars
    <2>1. OrderTypeOK /\ OrderTypeOK'
      BY <1>1, RefundStepType DEF AllInv, TypeOK, PaymentsTypeOK
    <2>2. QED  BY <1>1, <2>1, RefundKeepsKind, NothingSettled DEF AllInv
  <1>2. QED  BY <1>1, SettlementStep DEF Next, vars, AllInv

(* The shop with its refunds keeps the promise of Settlement: no refund    *)
(* opens, settles or cancels an order, whatever status it gives it.        *)
THEOREM ShopImplementsSettlement == Spec => ImplementsSettlement
  <1>1. Init => Promise!SettlementInit
    BY SettlementStarts DEF Init
  <1>2. QED
    BY <1>1, ShopSettlementStep, AllInvariant, PTL
    DEF Spec, ImplementsSettlement, Promise!SettlementSpec

(* What phase 3 writes to order_events speaks of refunds only, and order   *)
(* statuses that are not about refunds come from elsewhere.                *)
LEMMA RefundAudit ==
  ASSUME AllInv, RefundNext, NEW o \in Orders
  PROVE  /\ \A b \in {"cancel", "ship", "ship_manual", "deliver"} :
               Recorded(o, b)' <=> Recorded(o, b)
         /\ status'[o] # status[o] =>
               status[o] \in Settled /\ status'[o] \in {"refunded", "partially_refunded"}
  <1>1. \/ audit' = audit
        \/ \E q, from, to : audit' = audit \cup {[order |-> q, action |-> "refund",
                                                  from |-> from, to |-> to]}
    BY DEF RefundNext, RefundOrderStep, RefundOrderBegin, RefundPayment, RefundOrderAbort,
           RefundOrderFinalize, RefundSucceedsNow, RefundFailsNow, RefundAuditRow,
           GiveBackDone, GiveBackFails, SettleGiveBack, HandleRefundEvent, paymentsVars,
           orderVars
  <1>2. ASSUME NEW b \in {"cancel", "ship", "ship_manual", "deliver"}
        PROVE  Recorded(o, b)' <=> Recorded(o, b)
    <2>1. CASE audit' = audit
      BY <2>1 DEF Recorded
    <2>2. ASSUME NEW row, row.action = "refund", audit' = audit \cup {row}
          PROVE  Recorded(o, b)' <=> Recorded(o, b)
      BY <2>2 DEF Recorded
    <2>3. QED  BY <1>1, <2>1, <2>2
  <1>3. ASSUME status'[o] # status[o]
        PROVE  status[o] \in Settled /\ status'[o] \in {"refunded", "partially_refunded"}
    <2>1. PICK r \in Refunds : BooksRefund(r)
      BY <1>3, RefundShape DEF AllInv, RefundInv
    <2>2. /\ o = OrderOfRefund[r]
          /\ status'[o] \in {"partially_refunded", "refunded"}
      BY <1>3, <2>1, RefundFunctions
      DEF BooksRefund, AddRefund, AllInv, TypeOK, PaymentsTypeOK, OrderTypeOK
    <2>3. QED  BY <2>1, <2>2 DEF BooksRefund, AllInv, RefundInv, RefundNeedsMoney
  <1>4. QED  BY <1>2, <1>3

(* order_events stays truthful about shipping and cancelling when refunds  *)
(* change the status of the same orders and write rows of their own.       *)
THEOREM AuditTrueWithRefunds == Spec => []AuditTrail
  <1>1. Init => AuditInv
    BY AuditInit DEF Init
  <1>2. AllInv /\ AuditInv /\ [Next]_vars => AuditInv'
    <2>1. ASSUME AllInv, AuditInv, RefundNext, NEW o \in Orders
          PROVE  /\ status'[o] \in {"shipped", "delivered"} => ShipRecorded(o)'
                 /\ status'[o] = "delivered" => Recorded(o, "deliver")'
                 /\ status'[o] = "cancelled" => Recorded(o, "cancel")'
                 /\ ~ (Recorded(o, "cancel") /\ ShipRecorded(o))'
                 /\ Recorded(o, "cancel")' => status'[o] = "cancelled"
                 /\ ShipRecorded(o)' => status'[o] \in Settled
      <3>1. /\ Recorded(o, "cancel")' <=> Recorded(o, "cancel")
            /\ Recorded(o, "deliver")' <=> Recorded(o, "deliver")
            /\ ShipRecorded(o)' <=> ShipRecorded(o)
        BY <2>1, RefundAudit DEF ShipRecorded
      <3>2. QED
        BY <2>1, <3>1, RefundAudit DEF AuditInv, AuditTrail, Settled, OrderStatus
    <2>2. ASSUME AllInv, AuditInv, RefundNext  PROVE AuditInv'
      BY <2>1, <2>2 DEF AuditInv, AuditTrail
    <2>3. QED  BY <2>2, AuditStep DEF Next, vars, AllInv
  <1>3. QED  BY <1>1, <1>2, AllInvariant, PTL DEF Spec, AuditInv

(* With refunds too, an order's status moves along Moves only.             *)
THEOREM StatusStillMovesForward == Spec => StatusMoves
  <1>1. AllInv /\ [Next]_vars
          => [\A o \in Orders : status'[o] # status[o]
                                  => <<status[o], status'[o]>> \in Moves]_orderVars
    <2> SUFFICES ASSUME AllInv, [Next]_vars, NEW o \in Orders, status'[o] # status[o]
                 PROVE  <<status[o], status'[o]>> \in Moves
      OBVIOUS
    <2> USE RefundFunctions DEF AllInv
    <2>1. CASE [PayNext]_paymentsVars
      BY <2>1, PayMoves DEF Moves
    <2>2. CASE RefundNext
      <3>1. PICK r \in Refunds : BooksRefund(r)
        BY <2>2, RefundShape DEF RefundInv
      <3>2. /\ o = OrderOfRefund[r]
            /\ status'[o] \in {"partially_refunded", "refunded"}
        BY <3>1 DEF BooksRefund, AddRefund, TypeOK, PaymentsTypeOK, OrderTypeOK
      <3>3. status[o] \in Settled
        BY <3>1, <3>2 DEF BooksRefund, RefundInv, RefundNeedsMoney
      <3>4. ASSUME status[o] = "refunded"  PROVE FALSE
        <4>1. refunded[o] = Total /\ refund[r].amount \in Nat
          BY <3>4 DEF RefundInv, RefundAgrees, RefundTypeOK
        <4>2. RefundsFully(o, refund[r].amount)
          BY <4>1, OrderAssumption DEF RefundsFully
        <4>3. status'[o] = "refunded"
          BY <3>1, <3>2, <4>2
          DEF BooksRefund, AddRefund, TypeOK, PaymentsTypeOK, OrderTypeOK
        <4>4. QED  BY <2>2, <3>4, <4>3
      <3>5. QED  BY <3>2, <3>3, <3>4 DEF Moves
    <2>3. QED  BY <2>1, <2>2 DEF Next, vars
  <1>2. QED  BY <1>1, AllInvariant, PTL DEF Spec, StatusMoves
-----------------------------------------------------------------------------
(* A refund step does to the orders what OrderStep says.                   *)
LEMMA RefundIsOrderStep ==
  ASSUME TypeOK, RefundInv, RefundNext
  PROVE  UNCHANGED orderVars \/ \E o \in Orders : OrderStep(o)
  <1> USE RefundFunctions, RefundAssumption DEF TypeOK, RefundTypeOK
  <1>1. \A r \in Refunds :
          RowExists(r) => /\ status[OrderOfRefund[r]] \in Settled
                          /\ refund[r].amount \in 1 .. Total
    <2> SUFFICES ASSUME NEW r \in Refunds, RowExists(r)
                 PROVE  /\ status[OrderOfRefund[r]] \in Settled
                        /\ refund[r].amount \in 1 .. Total
      OBVIOUS
    <2>1. refund[r].amount \in 0 .. Total /\ refund[r].amount > 0
      BY DEF RefundInv, RefundRefInv, RefundRowHoldsOwn
    <2>2. status[OrderOfRefund[r]] \in Settled
      BY DEF RefundInv, RefundNeedsMoney
    <2>3. QED  BY <2>1, <2>2, OrderAssumption
  <1>2. ASSUME NEW c \in RefundCalls, RefundOrderFinalize(c)
        PROVE  UNCHANGED orderVars \/ \E o \in Orders : OrderStep(o)
    <2>1. PICK r \in Refunds : r = refundCall[c].refund /\ RowExists(r)
      BY <1>2 DEF RefundOrderFinalize, RefundInv, RefundRefInv, RefundCallHoldsOwn
    <2>2. PICK o \in Orders : o = OrderOfRefund[r]
      OBVIOUS
    <2>3. CASE RefundSucceedsNow(r)
      <3>1. OrderStep(o)
        BY <1>1, <2>1, <2>2, <2>3 DEF RefundSucceedsNow, OrderStep
      <3>2. QED  BY <3>1
    <2>4. CASE RefundFailsNow(r)
      <3>1. UNCHANGED orderVars \/ OrderStep(o)
        BY <1>1, <2>1, <2>2, <2>4 DEF RefundFailsNow, OrderStep, orderVars
      <3>2. QED  BY <3>1
    <2>5. QED  BY <1>2, <2>1, <2>3, <2>4 DEF RefundOrderFinalize, orderVars
  <1>3. ASSUME NEW e \in RefundEvent, HandleRefundEvent(e)
        PROVE  UNCHANGED orderVars \/ \E o \in Orders : OrderStep(o)
    <2>1. PICK r \in Refunds :
            /\ refund[r].ref = e.ref
            /\ ApplyRefundSucceeded(r) \/ ApplyRefundFailed(r)
      BY <1>3 DEF HandleRefundEvent
    <2>2. PICK o \in Orders : o = OrderOfRefund[r]
      OBVIOUS
    <2>3. RowExists(r) /\ audit' = audit
      BY <1>3, <2>1 DEF HandleRefundEvent, RefundEvent, RefundInv, RefundRefInv, RefundRowHoldsOwn
    <2>4. CASE AddRefund(o, refund[r].amount)
      <3>1. OrderStep(o)
        BY <1>1, <2>2, <2>3, <2>4 DEF OrderStep
      <3>2. QED  BY <3>1
    <2>5. CASE UNCHANGED <<status, refunded>>
      BY <2>3, <2>5 DEF orderVars
    <2>6. QED  BY <2>1, <2>2, <2>4, <2>5 DEF ApplyRefundSucceeded, ApplyRefundFailed
  <1>4. QED
    BY <1>2, <1>3 DEF RefundNext, RefundOrderStep, RefundOrderBegin, RefundPayment,
                      RefundOrderAbort, GiveBackDone, GiveBackFails, SettleGiveBack,
                      paymentsVars, orderVars

LEMMA NextIsOrderStep ==
  ASSUME AllInv, [Next]_vars, ~ UNCHANGED orderVars
  PROVE  \E o \in Orders : OrderStep(o)
  <1>1. CASE RefundNext
    BY <1>1, RefundIsOrderStep DEF AllInv, RefundInv, TypeOK, PayInv
  <1>2. CASE [PayNext]_paymentsVars
    <2>1. refunded' = refunded
      BY <1>2 DEF PayNext, PayOrderStep, PayOrderBegin, CreatePayment, PayOrderFinalize,
                  PayOrderAbort, CaptureCharge, DeclineCharge, HandlePaymentEvent,
                  Transition, paymentsVars, orderVars
    <2>2. ASSUME NEW p \in Payments, Books(p)
          PROVE  \E o \in Orders : OrderStep(o)
      <3>1. OrderOf[p] \in Orders
        BY OrderOfType
      <3>2. OrderStep(OrderOf[p])
        BY <2>1, <2>2 DEF Books, OrderStep
      <3>3. QED  BY <3>1, <3>2
    <2>3. ASSUME NEW o \in Orders, NEW a \in AdminAction, Transition(o, a)
          PROVE  OrderStep(o)
      BY <2>3 DEF OrderStep
    <2>4. QED  BY <1>2, <2>1, <2>2, <2>3, StepShape DEF AllInv, PayInv, orderVars
  <1>3. QED  BY <1>1, <1>2 DEF Next, vars

(* Payments, refunds and admins together change the orders only as         *)
(* OrderStep says, which is all that the shipping service relies on.       *)
THEOREM OrdersChangeAsDeclared == Spec => OrderSteps
  <1>1. AllInv /\ [Next]_vars => [\E o \in Orders : OrderStep(o)]_orderVars
    BY NextIsOrderStep
  <1>2. QED  BY <1>1, AllInvariant, PTL DEF Spec, OrderSteps
-----------------------------------------------------------------------------
(* The ledger.  What one request makes of its refund: while it is in       *)
(* progress nobody else touches the row, its entry is written once, and    *)
(* the row of a booked refund says "succeeded" until a failure is heard.   *)
Once(r) ==
  /\ \A c, d \in RefundCalls : InProgress(c, r) /\ InProgress(d, r) => c = d
  /\ \A c \in RefundCalls :
       InProgress(c, r) => refund[r].status = "initiated" /\ refund[r].ref = NoRef
  /\ tries[r] = 0 => ~ RowExists(r)
  /\ refundLedger[r].succeeded \in {0, 1}
  /\ refundLedger[r].succeeded = 1 => refund[r].ref # NoRef
  /\ refund[r].status = "succeeded" => refundLedger[r].succeeded = 1
  /\ refundLedger[r].succeeded = 1 =>
       refund[r].status = "succeeded" \/ Heard(r, "refund.failed")

OneRequestInv == \A r \in Refunds : tries[r] <= 1 => Once(r)

(* What the webhook has heard of a refund stays heard.                     *)
LEMMA HeardStays ==
  ASSUME TypeOK, RefundRefInv, RefundNext, NEW r, NEW type, Heard(r, type)
  PROVE  Heard(r, type)'
  <1>1. PICK e \in refundReceived : e.type = type /\ giveBack[e.ref].for = r
    BY DEF Heard
  <1>2. e.ref \in RefundRefs /\ giveBack[e.ref].state # "unused"
    BY <1>1 DEF TypeOK, RefundTypeOK, RefundEvent, RefundRefInv, RefundNewsIsTrue
  <1>3. e \in refundReceived'
    BY <1>1 DEF RefundNext, RefundOrderStep, RefundOrderBegin, RefundPayment,
                RefundOrderFinalize, RefundOrderAbort, GiveBackDone, GiveBackFails,
                SettleGiveBack, HandleRefundEvent
  <1>4. giveBack'[e.ref].for = r
    BY <1>1, <1>2, DoneStays
  <1>5. QED  BY <1>1, <1>3, <1>4 DEF Heard

(* A refund on which a step does not work.                                 *)
LEMMA OnceUntouched ==
  ASSUME TypeOK, RefundRefInv, RefundNext, NEW r \in Refunds, Once(r),
         refund'[r] = refund[r], tries'[r] = tries[r],
         refundLedger'[r].succeeded = refundLedger[r].succeeded,
         \A c \in RefundCalls : InProgress(c, r)' => InProgress(c, r)
  PROVE  Once(r)'
  <1>1. Heard(r, "refund.failed") => Heard(r, "refund.failed")'
    BY HeardStays
  <1>2. QED  BY <1>1 DEF Once, RowExists

(* With one request a refund gets one ledger entry, from RefundOrder or    *)
(* from the webhook.                                                       *)
LEMMA OnceStep ==
  ASSUME TypeOK, RefundRefInv, OneRequestInv, RefundNext
  PROVE  OneRequestInv'
  <1> USE RefundAssumption DEF TypeOK, RefundTypeOK
  <1> SUFFICES ASSUME NEW r \in Refunds, tries'[r] <= 1
               PROVE  Once(r)'
    BY DEF OneRequestInv
  <1>1. tries[r] \in Nat
    BY DEF TypeOK
  <1>2. ASSUME NEW c \in RefundCalls, NEW p \in Payments, NEW k \in RefundKeys,
               NEW a \in RequestAmounts, RefundOrderBegin(c, p, k, a)
        PROVE  Once(r)'
    <2>1. PICK q \in Refunds : q = <<p, k>>
      BY DEF Refunds
    <2>2. /\ tries' = [tries EXCEPT ![q] = @ + 1]
          /\ refundCall' = [refundCall EXCEPT ![c] = AskingRefundCall(q)]
          /\ UNCHANGED <<refundLedger, giveBack>>
      BY <1>2, <2>1 DEF RefundOrderBegin
    <2>3. CASE r # q
      <3>1. Once(r)
        BY <2>2, <2>3 DEF OneRequestInv
      <3>2. refund'[r] = refund[r]
        BY <1>2, <2>1, <2>3 DEF RefundOrderBegin
      <3>3. \A d \in RefundCalls : InProgress(d, r)' => InProgress(d, r)
        BY <2>2, <2>3 DEF InProgress, AskingRefundCall
      <3>4. QED  BY <2>2, <2>3, <3>1, <3>2, <3>3, OnceUntouched
    <2>4. CASE r = q
      <3>1. tries'[r] = tries[r] + 1
        BY <2>2, <2>4
      <3>2. tries[r] = 0 /\ tries'[r] # 0
        BY <1>1, <3>1
      <3>3. Once(r) /\ ~ RowExists(r)
        BY <3>2 DEF OneRequestInv, Once
      <3>4. \A d \in RefundCalls : ~ InProgress(d, r)
        BY <3>3 DEF InProgress, RefundRefInv, RefundCallHoldsOwn
      <3>5. refund'[r].status = "initiated" /\ refund'[r].ref = NoRef
        BY <1>2, <2>1, <2>4, <3>3 DEF RefundOrderBegin, RowExists
      <3>6. refundLedger'[r].succeeded = 0
        BY <2>2, <3>3 DEF Once, RefundRefInv, RefundRowHoldsOwn
      <3>7. \A d \in RefundCalls : InProgress(d, r)' => d = c
        BY <2>2, <3>4 DEF InProgress
      <3>8. QED  BY <3>2, <3>5, <3>6, <3>7 DEF Once
    <2>5. QED  BY <2>3, <2>4
  <1>3. CASE tries' = tries
    <2>1. Once(r)
      BY <1>3 DEF OneRequestInv
    <2>2. ASSUME NEW c \in RefundCalls, RefundPayment(c)
          PROVE  Once(r)'
      <3>1. UNCHANGED <<refund, refundLedger, tries>>
        BY <2>2 DEF RefundPayment
      <3>2. \A d \in RefundCalls : InProgress(d, r)' => InProgress(d, r)
        BY <2>2 DEF RefundPayment, NewGiveBack, InProgress, AnsweredRefundCall
      <3>3. QED  BY <2>1, <3>1, <3>2, OnceUntouched
    <2>3. ASSUME NEW c \in RefundCalls, RefundOrderFinalize(c)
          PROVE  Once(r)'
      <3>1. PICK q \in Refunds : q = refundCall[c].refund /\ InProgress(c, q)
        BY <2>3 DEF RefundOrderFinalize, InProgress
      <3>2. /\ refund' = [refund EXCEPT ![q] = RefundRowAfter(c)]
            /\ refundCall' = [refundCall EXCEPT ![c] = IdleRefundCall]
            /\ UNCHANGED giveBack
        BY <2>3, <3>1 DEF RefundOrderFinalize
      <3>3. \A d \in RefundCalls : InProgress(d, r)' => d # c /\ InProgress(d, r)
        BY <3>2 DEF InProgress, IdleRefundCall
      <3>4. CASE r # q
        <4>1. refundLedger'[r].succeeded = refundLedger[r].succeeded
          BY <2>3, <3>1, <3>4 DEF RefundOrderFinalize, RefundSucceedsNow, RefundFailsNow
        <4>2. refund'[r] = refund[r]
          BY <3>2, <3>4
        <4>3. QED  BY <1>3, <2>1, <3>3, <4>1, <4>2, OnceUntouched
      <3>5. CASE r = q
        <4>1. refundLedger[r].succeeded = 0
          BY <2>1, <3>1, <3>5 DEF Once
        <4>2. \A d \in RefundCalls : ~ InProgress(d, r)'
          BY <2>1, <3>1, <3>3, <3>5 DEF Once
        <4>3. RowExists(r) /\ refund'[r] = RefundRowAfter(c)
          BY <2>3, <3>1, <3>2, <3>5 DEF RefundOrderFinalize, RefundRefInv, RefundCallHoldsOwn
        <4>4. tries'[r] # 0
          BY <1>3, <2>1, <4>3 DEF Once
        <4>5. CASE refundCall[c].status = "succeeded"
          <5>1. refundLedger'[r].succeeded = 1
            BY <2>3, <3>1, <3>5, <4>1, <4>5 DEF RefundOrderFinalize, RefundSucceedsNow
          <5>2. refund'[r].status = "succeeded" /\ refund'[r].ref # NoRef
            BY <2>3, <4>3, <4>5
            DEF RefundRowAfter, RefundOrderFinalize, RefundRefInv, RefundCallHoldsOwn
          <5>3. QED  BY <4>2, <4>4, <5>1, <5>2 DEF Once
        <4>6. CASE refundCall[c].status # "succeeded"
          <5>1. refundLedger'[r].succeeded = 0
            BY <2>3, <3>1, <4>1, <4>6 DEF RefundOrderFinalize, RefundFailsNow
          <5>2. refund'[r].status # "succeeded"
            BY <4>3, <4>6 DEF RefundRowAfter
          <5>3. QED  BY <4>2, <4>4, <5>1, <5>2 DEF Once
        <4>7. QED  BY <4>5, <4>6
      <3>6. QED  BY <3>4, <3>5
    <2>4. ASSUME NEW c \in RefundCalls, RefundOrderAbort(c)
          PROVE  Once(r)'
      <3>1. UNCHANGED <<refund, refundLedger, tries>>
        BY <2>4 DEF RefundOrderAbort
      <3>2. \A d \in RefundCalls : InProgress(d, r)' => InProgress(d, r)
        BY <2>4 DEF RefundOrderAbort, InProgress, IdleRefundCall
      <3>3. QED  BY <2>1, <3>1, <3>2, OnceUntouched
    <2>5. ASSUME NEW x \in RefundRefs, GiveBackDone(x) \/ GiveBackFails(x)
          PROVE  Once(r)'
      <3>1. UNCHANGED <<refund, refundLedger, refundCall, tries>>
        BY <2>5 DEF GiveBackDone, GiveBackFails, SettleGiveBack
      <3>2. QED  BY <2>1, <3>1, OnceUntouched DEF InProgress
    <2>6. ASSUME NEW e \in RefundEvent, HandleRefundEvent(e)
          PROVE  Once(r)'
      <3>1. PICK q \in Refunds :
              /\ refund[q].ref = e.ref
              /\ IF e.type = "refund.succeeded" THEN ApplyRefundSucceeded(q)
                                                ELSE ApplyRefundFailed(q)
        BY <2>6 DEF HandleRefundEvent
      <3>2. UNCHANGED <<refundCall, giveBack, tries>> /\ e \in refundSent /\ e.ref \in RefundRefs
        BY <2>6 DEF HandleRefundEvent, RefundEvent
      <3>3. CASE refund'[r] = refund[r] /\ refundLedger'[r] = refundLedger[r]
        BY <2>1, <3>2, <3>3, OnceUntouched DEF InProgress
      <3>4. CASE ~ (refund'[r] = refund[r] /\ refundLedger'[r] = refundLedger[r])
        <4>1. r = q
          BY <3>1, <3>4 DEF ApplyRefundSucceeded, ApplyRefundFailed, EnsureRefundEntry,
                            EnsureRefundFailedEntry
        <4>2. /\ refund[r].ref # NoRef /\ RowExists(r)
              /\ \A d \in RefundCalls : ~ InProgress(d, r)
          BY <2>1, <3>1, <3>2, <4>1 DEF Once, RefundRefInv, RefundRowHoldsOwn
        <4>3. tries[r] # 0 /\ \A d \in RefundCalls : ~ InProgress(d, r)'
          BY <2>1, <3>2, <4>2 DEF Once, InProgress
        <4>4. CASE e.type = "refund.succeeded"
          <5>1. /\ refund[r].status # "succeeded"
                /\ refund' = [refund EXCEPT ![r].status = "succeeded"]
                /\ refundLedger' = EnsureRefundEntry(r)
            BY <3>1, <3>4, <4>1, <4>4 DEF ApplyRefundSucceeded
          <5>2. refundLedger'[r].succeeded = 1
            BY <2>1, <5>1 DEF Once, EnsureRefundEntry
          <5>3. refund'[r].status = "succeeded" /\ refund'[r].ref # NoRef
            BY <4>2, <5>1
          <5>4. QED  BY <3>2, <4>3, <5>2, <5>3 DEF Once
        <4>5. CASE e.type # "refund.succeeded"
          <5>1. e.type = "refund.failed" /\ e \in refundReceived'
            BY <2>6, <4>5 DEF HandleRefundEvent, RefundEvent
          <5>2. giveBack'[e.ref].for = r
            BY <3>1, <3>2, <4>1 DEF RefundRefInv, RefundRowHoldsOwn
          <5>3. Heard(r, "refund.failed")'
            BY <5>1, <5>2 DEF Heard
          <5>4. refund'[r].status = "failed" /\ refund'[r].ref # NoRef
            BY <3>1, <4>1, <4>2, <4>5 DEF ApplyRefundFailed
          <5>5. refundLedger'[r].succeeded = refundLedger[r].succeeded
            BY <3>1, <4>1, <4>5 DEF ApplyRefundFailed, EnsureRefundFailedEntry
          <5>6. QED  BY <2>1, <3>2, <4>3, <5>3, <5>4, <5>5 DEF Once
        <4>6. QED  BY <4>4, <4>5
      <3>5. QED  BY <3>3, <3>4
    <2>7. ASSUME NEW c \in RefundCalls, NEW p \in Payments, NEW k \in RefundKeys,
                 NEW a \in RequestAmounts, RefundOrderBegin(c, p, k, a)
          PROVE  Once(r)'
      BY <1>2, <2>7
    <2>8. QED
      BY <2>2, <2>3, <2>4, <2>5, <2>6, <2>7 DEF RefundNext, RefundOrderStep
  <1>4. CASE tries' # tries
    <2>1. \E c \in RefundCalls, p \in Payments, k \in RefundKeys, a \in RequestAmounts :
            RefundOrderBegin(c, p, k, a)
      BY <1>4 DEF RefundNext, RefundOrderStep, RefundPayment, RefundOrderFinalize,
                  RefundOrderAbort, GiveBackDone, GiveBackFails, SettleGiveBack,
                  HandleRefundEvent
    <2>2. QED  BY <1>2, <2>1
  <1>5. QED  BY <1>3, <1>4
-----------------------------------------------------------------------------
(* What has been booked for an order, and what it adds up to.              *)
LedgerInv ==
  /\ OneRequestInv
  /\ \A r \in Refunds : refundLedger[r].succeeded > 0 => RowExists(r)
  /\ \A o \in Orders : IsFiniteSet(BookedFor(o))
  /\ RefundedMatchesLedger

(* One order's share of RefundedMatchesLedger.                             *)
InStep(o) ==
  /\ refunded[o] >= Min({Total, BookedRefunds(o)})
  /\ (\A r \in Refunds : OrderOfRefund[r] = o => Plain(r))
       => refunded[o] = Min({Total, BookedRefunds(o)})

LEMMA MinOfTwo ==
  ASSUME NEW a \in Int, NEW b \in Int
  PROVE  Min({a, b}) = IF a <= b THEN a ELSE b
  BY DEF Min

LEMMA ProductType == \A a, b \in Nat : a * b \in Int
  OBVIOUS

LEMMA BookedType ==
  ASSUME RefundTypeOK, NEW o \in Orders, IsFiniteSet(BookedFor(o))
  PROVE  BookedRefunds(o) \in Int
  <1> DEFINE cents == [r \in Refunds |-> refundLedger[r].succeeded * refund[r].amount]
  <1>1. \A r \in Refunds : refundLedger[r].succeeded \in Nat /\ refund[r].amount \in Nat
    BY OrderAssumption DEF RefundTypeOK
  <1>2. \A r \in BookedFor(o) : cents[r] \in Int
    BY <1>1, ProductType DEF BookedFor
  <1> HIDE DEF cents
  <1>3. SumFunctionOnSet(cents, BookedFor(o)) \in Int
    BY <1>2, SumType
  <1>4. QED  BY <1>3 DEF BookedRefunds, cents

LEMMA BookedTypeNext ==
  ASSUME RefundTypeOK', NEW o \in Orders, IsFiniteSet(BookedFor(o)')
  PROVE  BookedRefunds(o)' \in Int
  <1> DEFINE next == [r \in Refunds |-> refundLedger'[r].succeeded * refund'[r].amount]
  <1>1. \A r \in Refunds : refundLedger'[r].succeeded \in Nat /\ refund'[r].amount \in Nat
    BY OrderAssumption DEF RefundTypeOK
  <1>2. \A r \in BookedFor(o)' : next[r] \in Int
    BY <1>1, ProductType DEF BookedFor
  <1> HIDE DEF next
  <1>3. SumFunctionOnSet(next, BookedFor(o)') \in Int
    BY <1>2, SumType
  <1>4. QED  BY <1>3 DEF BookedRefunds, next

(* The same refunds booked for the same amounts.                           *)
LEMMA BookedSame ==
  ASSUME NEW o \in Orders, IsFiniteSet(BookedFor(o)),
         \A r \in Refunds : OrderOfRefund[r] = o
                              => refundLedger'[r].succeeded = refundLedger[r].succeeded,
         \A r \in BookedFor(o) : refund'[r].amount = refund[r].amount
  PROVE  BookedRefunds(o)' = BookedRefunds(o)
  <1> DEFINE cents == [r \in Refunds |-> refundLedger[r].succeeded * refund[r].amount]
             next  == [r \in Refunds |-> refundLedger'[r].succeeded * refund'[r].amount]
  <1>1. BookedFor(o)' = BookedFor(o)
    BY DEF BookedFor
  <1>2. \A r \in BookedFor(o) : cents[r] = next[r]
    BY DEF BookedFor
  <1> HIDE DEF cents, next
  <1>3. SumFunctionOnSet(cents, BookedFor(o)) = SumFunctionOnSet(next, BookedFor(o))
    BY <1>2, SumSame
  <1>4. QED  BY <1>1, <1>3 DEF BookedRefunds, cents, next

LEMMA OneMore ==
  ASSUME NEW n \in Nat, NEW a \in Nat, NEW m \in {n, n + 1}
  PROVE  m * a - n * a \in {0, a}
  OBVIOUS

(* A refund is booked: the sum grows by its amount, or not at all when the *)
(* ledger had its entry already.                                           *)
LEMMA BookedGrows ==
  ASSUME RefundTypeOK, RefundTypeOK', NEW q \in Refunds, NEW o \in Orders,
         o = OrderOfRefund[q], BooksRefund(q), IsFiniteSet(BookedFor(o)),
         \A r \in BookedFor(o) \cup {q} : refund'[r].amount = refund[r].amount
  PROVE  /\ BookedRefunds(o)' <= refund[q].amount + BookedRefunds(o)
         /\ refundLedger[q].succeeded = 0
              => BookedRefunds(o)' = refund[q].amount + BookedRefunds(o)
  <1> DEFINE cents == [r \in Refunds |-> refundLedger[r].succeeded * refund[r].amount]
             next  == [r \in Refunds |-> refundLedger'[r].succeeded * refund'[r].amount]
             Booked0 == BookedFor(o)
  <1>1. /\ BookedFor(o)' = Booked0 \cup {q}
        /\ q \in Booked0 <=> refundLedger[q].succeeded # 0
    BY DEF BookedFor, BooksRefund, RefundTypeOK
  <1>2. \A r \in Refunds : /\ refundLedger[r].succeeded \in Nat
                           /\ refundLedger'[r].succeeded \in Nat
                           /\ refund[r].amount \in Nat
                           /\ refund'[r].amount \in Nat
    BY OrderAssumption DEF RefundTypeOK
  <1>3. \A r \in Booked0 \cup {q} : cents[r] \in Int /\ next[r] \in Int
    BY <1>2, ProductType DEF BookedFor
  <1>4. \A r \in Booked0 \ {q} : cents[r] = next[r]
    BY DEF BookedFor, BooksRefund
  <1>5. next[q] - cents[q] \in {0, refund[q].amount}
    <2>1. refundLedger'[q].succeeded \in {refundLedger[q].succeeded,
                                         refundLedger[q].succeeded + 1}
      BY DEF BooksRefund
    <2>2. refund'[q].amount = refund[q].amount
      OBVIOUS
    <2>3. QED  BY <1>2, <2>1, <2>2, OneMore
  <1>6. refundLedger[q].succeeded = 0 => next[q] = refund[q].amount
    BY <1>2 DEF BooksRefund
  <1>7. /\ BookedRefunds(o) = SumFunctionOnSet(cents, Booked0)
        /\ BookedRefunds(o)' = SumFunctionOnSet(next, Booked0 \cup {q})
    BY <1>1 DEF BookedRefunds
  <1>8. IsFiniteSet(Booked0)
    OBVIOUS
  <1>9. refund[q].amount \in Nat
    BY <1>2
  <1> HIDE DEF cents, next, Booked0
  <1>10. SumFunctionOnSet(cents, Booked0) \in Int
    BY <1>3, <1>8, SumType
  <1>11. CASE q \in Booked0
    <2>1. SumFunctionOnSet(next, Booked0)
            = SumFunctionOnSet(cents, Booked0) + (next[q] - cents[q])
      BY <1>3, <1>4, <1>8, <1>11, SumUpdate
    <2>2. Booked0 \cup {q} = Booked0
      BY <1>11
    <2>3. BookedRefunds(o)' = BookedRefunds(o) + (next[q] - cents[q])
      BY <1>7, <2>1, <2>2
    <2>4. refundLedger[q].succeeded # 0
      BY <1>1, <1>11
    <2>5. next[q] - cents[q] <= refund[q].amount /\ next[q] - cents[q] \in Int
      BY <1>5, <1>9
    <2>6. BookedRefunds(o) \in Int
      BY <1>7, <1>10
    <2>7. QED  BY <1>9, <2>3, <2>4, <2>5, <2>6
  <1>12. CASE q \notin Booked0
    <2>1. SumFunctionOnSet(cents, Booked0) = SumFunctionOnSet(next, Booked0)
      BY <1>4, <1>8, <1>12, SumSame
    <2>2. SumFunctionOnSet(next, Booked0 \cup {q})
            = next[q] + SumFunctionOnSet(next, Booked0)
      BY <1>3, <1>8, <1>12, SumAdd
    <2>3. next[q] = refund[q].amount
      BY <1>1, <1>6, <1>12
    <2>4. QED  BY <1>7, <1>9, <1>10, <2>1, <2>2, <2>3
  <1>13. QED  BY <1>11, <1>12

(* Whoever is plain after a step was so before.                            *)
LEMMA PlainBefore ==
  ASSUME TypeOK, RefundRefInv, RefundNext, NEW r \in Refunds, Plain(r)'
  PROVE  Plain(r) /\ tries[r] <= 1
  <1>1. tries' = tries \/ \E x : tries' = [tries EXCEPT ![x] = @ + 1]
    BY DEF RefundNext, RefundOrderStep, RefundOrderBegin, RefundPayment,
           RefundOrderFinalize, RefundOrderAbort, GiveBackDone, GiveBackFails,
           SettleGiveBack, HandleRefundEvent
  <1>2. tries[r] \in Nat /\ tries'[r] \in {tries[r], tries[r] + 1}
    BY <1>1, RefundAssumption DEF TypeOK, RefundTypeOK
  <1>3. tries[r] <= 1
    BY <1>2 DEF Plain
  <1>4. TurnedOver(r) => TurnedOver(r)'
    BY HeardStays DEF TurnedOver
  <1>5. QED  BY <1>3, <1>4 DEF Plain

(* A plain refund that is booked was not in the ledger: had it been, a     *)
(* failure had been heard of it, and now a success is heard as well.       *)
LEMMA PlainBooksOnce ==
  ASSUME TypeOK, RefundRefInv, OneRequestInv, RefundNext, NEW r \in Refunds,
         BooksRefund(r), Plain(r)'
  PROVE  refundLedger[r].succeeded = 0
  <1>1. Once(r)
    BY PlainBefore DEF OneRequestInv
  <1>2. CASE \E c \in RefundCalls : InProgress(c, r)
    BY <1>1, <1>2 DEF Once
  <1>3. CASE refund[r].status # "succeeded" /\ Heard(r, "refund.succeeded")'
    <2>1. ~ Heard(r, "refund.failed")'
      BY <1>3 DEF Plain, TurnedOver
    <2>2. ~ Heard(r, "refund.failed")
      BY <2>1, HeardStays
    <2>3. QED  BY <1>1, <1>3, <2>2 DEF Once
  <1>4. QED  BY <1>2, <1>3 DEF BooksRefund

LEMMA LedgerStep ==
  ASSUME AllInv, LedgerInv, RefundNext, TypeOK'
  PROVE  LedgerInv'
  <1> USE RefundFunctions DEF AllInv
  <1>1. /\ TypeOK /\ RefundRefInv /\ OneRequestInv
        /\ RefundTypeOK /\ RefundTypeOK'
    BY DEF RefundInv, LedgerInv, TypeOK
  <1>2. OneRequestInv'
    BY <1>1, OnceStep
  <1>3. \A r \in Refunds :
          refundLedger[r].succeeded > 0 => /\ RowExists(r)
                                           /\ refund'[r].amount = refund[r].amount
    BY <1>1, RowsStay DEF LedgerInv
  <1>4. ASSUME NEW r \in Refunds, refundLedger'[r].succeeded > 0
        PROVE  RowExists(r)'
    <2>1. RowExists(r)
      BY <1>1, <1>3, <1>4, RefundShape DEF BooksRefund
    <2>2. QED  BY <1>1, <2>1, RowsStay
  <1>5. ASSUME NEW o \in Orders
        PROVE  IsFiniteSet(BookedFor(o)')
    <2>1. PICK q : BookedFor(o)' \subseteq BookedFor(o) \cup {q}
      BY <1>1, RefundShape DEF BookedFor, BooksRefund
    <2>2. IsFiniteSet(BookedFor(o) \cup {q})
      BY FS_AddElement DEF LedgerInv
    <2>3. QED  BY <2>1, <2>2, FS_Subset
  <1>6. ASSUME NEW o \in Orders
        PROVE  InStep(o)'
    <2> DEFINE allPlain == \A r \in Refunds : OrderOfRefund[r] = o => Plain(r)
    <2>1. IsFiniteSet(BookedFor(o)) /\ InStep(o)
      BY DEF LedgerInv, RefundedMatchesLedger, InStep
    <2>2. \A r \in BookedFor(o) : refund'[r].amount = refund[r].amount
      BY <1>3 DEF BookedFor
    <2>3. allPlain' => allPlain
      BY <1>1, PlainBefore
    <2>4. CASE /\ refunded'[o] = refunded[o]
               /\ \A r \in Refunds : OrderOfRefund[r] = o
                     => refundLedger'[r].succeeded = refundLedger[r].succeeded
      <3>1. BookedRefunds(o)' = BookedRefunds(o)
        BY <2>1, <2>2, <2>4, BookedSame
      <3>2. QED  BY <2>1, <2>3, <2>4, <3>1 DEF InStep
    <2>5. ASSUME NEW q \in Refunds, BooksRefund(q), o = OrderOfRefund[q]
          PROVE  InStep(o)'
      <3> DEFINE old == BookedRefunds(o)
                 new == BookedRefunds(o)'
                 n == refund[q].amount
      <3>1. refund'[q].amount = refund[q].amount
        BY <1>1, <2>5, RowsStay DEF BooksRefund
      <3>2. /\ new <= n + old
            /\ refundLedger[q].succeeded = 0 => new = n + old
        BY <1>1, <2>1, <2>2, <2>5, <3>1, BookedGrows
      <3>3. allPlain' => refundLedger[q].succeeded = 0
        BY <1>1, <2>5, PlainBooksOnce
      <3>4. old \in Int /\ n \in Nat /\ Total \in Nat /\ refunded[o] \in Int
        BY <1>1, <2>1, BookedType, OrderAssumption
        DEF RefundTypeOK, TypeOK, PaymentsTypeOK, OrderTypeOK
      <3>5. new \in Int
        BY <1>1, <1>5, BookedTypeNext
      <3>6. refunded'[o] = IF refunded[o] + n >= Total THEN Total ELSE refunded[o] + n
        BY <1>1, <2>5 DEF BooksRefund, AddRefund, RefundsFully, TypeOK, PaymentsTypeOK,
                          OrderTypeOK
      <3>7. /\ Min({Total, old}) = IF Total <= old THEN Total ELSE old
            /\ Min({Total, new}) = IF Total <= new THEN Total ELSE new
        BY <3>4, <3>5, MinOfTwo
      <3> HIDE DEF old, new, n, allPlain
      <3>8. refunded[o] >= Min({Total, old}) /\ (allPlain => refunded[o] = Min({Total, old}))
        BY <2>1 DEF InStep, old, allPlain
      <3>9. refunded'[o] >= Min({Total, new})
        BY <3>2, <3>4, <3>5, <3>6, <3>7, <3>8
      <3>10. allPlain' => refunded'[o] = Min({Total, new})
        BY <2>3, <3>2, <3>3, <3>4, <3>5, <3>6, <3>7, <3>8
      <3>11. QED  BY <3>9, <3>10 DEF InStep, new, allPlain
    <2>6. ASSUME NEW q \in Refunds, BooksRefund(q), o # OrderOfRefund[q]
          PROVE  InStep(o)'
      <3>1. refunded'[o] = refunded[o]
        BY <1>1, <2>6 DEF BooksRefund, AddRefund, TypeOK, PaymentsTypeOK, OrderTypeOK
      <3>2. QED  BY <2>4, <2>6, <3>1 DEF BooksRefund
    <2>7. QED  BY <1>1, <2>4, <2>5, <2>6, RefundShape
  <1>7. QED  BY <1>2, <1>4, <1>5, <1>6 DEF LedgerInv, RefundedMatchesLedger, InStep

LEMMA LedgerStarts == Init => LedgerInv
  <1> SUFFICES ASSUME Init  PROVE LedgerInv
    OBVIOUS
  <1> USE DEF Init, RefundInit
  <1>1. OneRequestInv /\ \A r \in Refunds : ~ (refundLedger[r].succeeded > 0)
    BY DEF OneRequestInv, Once, InProgress, IdleRefundCall, RowExists
  <1>2. \A o \in Orders : BookedFor(o) = {}
    BY DEF BookedFor
  <1>3. \A o \in Orders : BookedRefunds(o) = 0
    BY <1>2, SumEmpty DEF BookedRefunds
  <1>4. Min({Total, 0}) = 0
    BY MinOfTwo, OrderAssumption
  <1>5. \A o \in Orders : refunded[o] = 0
    BY DEF OrderInit
  <1>6. ASSUME NEW o \in Orders  PROVE InStep(o)
    <2>1. Min({Total, BookedRefunds(o)}) = refunded[o] /\ refunded[o] = 0
      BY <1>3, <1>4, <1>5
    <2>2. QED  BY <2>1 DEF InStep
  <1>7. QED
    BY <1>1, <1>2, <1>6, FS_EmptySet DEF LedgerInv, RefundedMatchesLedger, InStep

(* A step of somebody who neither refunds nor writes refunded_cents.       *)
LEMMA LedgerUntouched ==
  ASSUME LedgerInv, UNCHANGED refundVars, refunded' = refunded
  PROVE  LedgerInv'
  <1>1. /\ OneRequestInv'
        /\ \A r \in Refunds : refundLedger'[r].succeeded > 0 => RowExists(r)'
    BY DEF LedgerInv, refundVars, OneRequestInv, Once, InProgress, RowExists, Heard
  <1>2. ASSUME NEW o \in Orders
        PROVE  IsFiniteSet(BookedFor(o))' /\ InStep(o)'
    <2>1. IsFiniteSet(BookedFor(o))'
      BY DEF LedgerInv, refundVars, BookedFor
    <2>2. BookedRefunds(o)' = BookedRefunds(o)
      BY DEF refundVars, BookedFor, BookedRefunds
    <2>3. \A r : Plain(r)' <=> Plain(r)
      BY DEF refundVars, Plain, TurnedOver, Heard
    <2>4. InStep(o)
      BY DEF LedgerInv, RefundedMatchesLedger, InStep
    <2>5. QED  BY <2>1, <2>2, <2>3, <2>4 DEF InStep
  <1>3. QED  BY <1>1, <1>2 DEF LedgerInv, RefundedMatchesLedger, InStep

LEMMA ShopLedgerStep == AllInv /\ LedgerInv /\ AllInv' /\ [Next]_vars => LedgerInv'
  <1>1. ASSUME AllInv, [PayNext]_paymentsVars
        PROVE  refunded' = refunded
    BY <1>1 DEF PayNext, PayOrderStep, PayOrderBegin, CreatePayment, PayOrderFinalize,
                PayOrderAbort, CaptureCharge, DeclineCharge, HandlePaymentEvent,
                Transition, paymentsVars, orderVars
  <1>2. QED
    BY <1>1, LedgerUntouched, LedgerStep DEF AllInv, Next, vars

(* However RefundOrder calls, their failures and the provider's events     *)
(* fall together, refunded_cents of an order never falls behind what its   *)
(* booked refunds add up to, up to the total, and is just that when each   *)
(* of them is plain: its key was used once, and the webhook heard that it  *)
(* succeeded or that it failed, under any number of ids, but not both.     *)
THEOREM RefundedIsWhatIsBooked == Spec => []RefundedMatchesLedger
  <1>1. LedgerInv => RefundedMatchesLedger
    BY DEF LedgerInv
  <1>2. QED  BY <1>1, LedgerStarts, ShopLedgerStep, AllInvariant, PTL DEF Spec
-----------------------------------------------------------------------------
(* Shipping beside payments and refunds.  What the forms and the workers   *)
(* do to the orders: a paid one may be shipped, nothing else.              *)
LEMMA ShippingMoves ==
  ASSUME ShipInv, ShippingStep
  PROVE  /\ refunded' = refunded
         /\ \A o \in Orders : \/ status'[o] = status[o]
                              \/ status[o] = "paid" /\ status'[o] = "shipped"
  <1>1. refunded' = refunded
    BY DEF ShippingStep, QueueShipment, CreateManualShipment, Tick, LockJobBatch, CreateLabel,
           RetryJob, MarkJobFailed, ReadOrder, CompleteShipment, Fault, orderVars
  <1>2. \A q \in Orders, seen \in OrderStatus :
          status' = Promote(q, seen)
            => \A o \in Orders : \/ status'[o] = status[o]
                                 \/ status[o] = "paid" /\ status'[o] = "shipped"
    BY PromoteShape DEF ShipInv, ShippingTypeOK
  <1>3. ASSUME NEW s \in Shipments, NEW q \in Orders, CreateManualShipment(s, q)
        PROVE  \A o \in Orders : \/ status'[o] = status[o]
                                 \/ status[o] = "paid" /\ status'[o] = "shipped"
    BY <1>2, <1>3 DEF CreateManualShipment, ShipInv, ShippingTypeOK, OrderTypeOK
  <1>4. ASSUME NEW w \in Workers, CompleteShipment(w)
        PROVE  \A o \in Orders : \/ status'[o] = status[o]
                                 \/ status[o] = "paid" /\ status'[o] = "shipped"
    <2>1. worker[w].at \in Shipments /\ worker[w].seen \in OrderStatus
      BY <1>4
      DEF CompleteShipment, ShipInv, ShippingTypeOK, WorkersHoldOwn, HoldsOwn, HasLabel,
          WorkerStates
    <2>2. job[worker[w].at].status = "processing"
      BY <1>4 DEF CompleteShipment, ShipInv, WorkersHoldOwn, HoldsOwn, HasLabel
    <2>3. shipment[worker[w].at].order \in Orders
      BY <2>1, <2>2 DEF ShipInv, JobsAgree, JobAgrees, OrdersOfShipments, OrderFits
    <2>4. QED  BY <1>2, <1>4, <2>1, <2>3 DEF CompleteShipment
  <1>5. QED
    BY <1>1, <1>3, <1>4
    DEF ShippingStep, Tick, QueueShipment, LockJobBatch, CreateLabel, RetryJob,
        MarkJobFailed, ReadOrder, Fault, orderVars

(* So it leaves alone what payments and refunds rely on.                   *)
LEMMA ShippingKeepsAll ==
  ASSUME AllInv, ShipInv, OrderTypeOK', ShippingStep, UNCHANGED <<payVars, refundVars>>
  PROVE  /\ AllInv'
         /\ UNCHANGED Promise!settlementVars
  <1> USE DEF AllInv
  <1>1. /\ \A o \in Orders : status[o] \in OrderStatus /\ status'[o] \in OrderStatus
        /\ \A o \in Orders : /\ status'[o] \in Settled <=> status[o] \in Settled
                             /\ status'[o] = "created" <=> status[o] = "created"
    <2>1. \A o \in Orders : status[o] \in OrderStatus /\ status'[o] \in OrderStatus
      BY DEF TypeOK, PaymentsTypeOK, OrderTypeOK
    <2>2. QED  BY <2>1, ShippingMoves DEF Settled, OrderStatus
  <1>2. TypeOK' /\ RefundTypeOK'
    BY DEF TypeOK, PaymentsTypeOK, PayTypeOK, RefundTypeOK, payVars, refundVars
  <1>3. PayInv'
    <2>1. RefInv' /\ LedgerBacked' /\ SucceededIsBooked'
      BY DEF PayInv, RefInv, UnusedIsFree, CallHoldsOwn, RowHoldsOwn, NewsIsTrue,
             Captured, LedgerBacked, SucceededIsBooked, CapturedFor, Booked, payVars
    <2>2. OrderMatchesLedger'
      <3>1. \A p \in Payments : Booked(p)' <=> Booked(p)
        BY DEF Booked, payVars
      <3>2. QED  BY <1>1, <3>1 DEF PayInv, OrderMatchesLedger
    <2>3. QED  BY <1>2, <2>1, <2>2 DEF TypeOK, PayInv
  <1>4. RefundAgrees'
    BY ShippingMoves DEF RefundInv, RefundAgrees
  <1>5. RefundNeedsMoney'
    <2>1. \A r \in Refunds : OrderOfRefund[r] \in Orders
      BY RefundFunctions
    <2>2. \A r \in Refunds : /\ RowExists(r)' <=> RowExists(r)
                             /\ Booked(PaymentOf[r])' <=> Booked(PaymentOf[r])
      BY DEF RowExists, Booked, payVars, refundVars
    <2>3. QED  BY <1>1, <2>1, <2>2 DEF RefundInv, RefundNeedsMoney
  <1>6. RefundRefInv' /\ RefundBacked'
    BY DEF RefundInv, refundVars, RefundRefInv, GiveBackUnused, RefundCallHoldsOwn,
           RefundRowHoldsOwn, RefundNewsIsTrue, Done, RefundBacked, GivenBack, RowExists
  <1>7. UNCHANGED Promise!settlementVars
    BY <1>1, NothingSettled DEF TypeOK, PaymentsTypeOK
  <1>8. QED  BY <1>2, <1>3, <1>4, <1>5, <1>6, <1>7 DEF RefundInv

(* Each half keeps its own invariant, and what the other sees of its steps *)
(* is what the other was proved to live with.                              *)
BothInv == AllInv /\ ShipInv

LEMMA FulfilmentStarts == FulfilmentInit => BothInv /\ OnceInv /\ LedgerInv
  BY InitAll, ShipInitially, PayOnceInit, LedgerStarts DEF FulfilmentInit, BothInv, Init

LEMMA FulfilmentStep ==
  ASSUME BothInv, [FulfilmentNext]_fulfilmentVars
  PROVE  /\ BothInv'
         /\ [ShippingNext]_shippingVars
         /\ \/ [Next]_vars
            \/ ShippingStep /\ UNCHANGED <<payVars, refundVars>>
  <1> USE DEF BothInv
  <1>1. CASE [Next]_vars /\ UNCHANGED shipVars
    <2>1. AllInv'
      BY <1>1, NextAll
    <2>2. [ShippingNext]_shippingVars
      <3>1. CASE UNCHANGED orderVars
        BY <1>1, <3>1 DEF shippingVars, shipVars
      <3>2. CASE ~ UNCHANGED orderVars
        BY <1>1, <3>2, NextIsOrderStep DEF ShippingNext
      <3>3. QED  BY <3>1, <3>2
    <2>3. ShipInv'
      BY <2>2, ShipStep
    <2>4. QED  BY <1>1, <2>1, <2>2, <2>3
  <1>2. CASE ShippingStep /\ UNCHANGED <<payVars, refundVars>>
    <2>1. [ShippingNext]_shippingVars
      BY <1>2 DEF ShippingNext
    <2>2. ShipInv'
      BY <2>1, ShipStep
    <2>3. AllInv'
      BY <1>2, <2>2, ShippingKeepsAll DEF ShipInv, ShippingTypeOK
    <2>4. QED  BY <1>2, <2>1, <2>2, <2>3
  <1>3. QED  BY <1>1, <1>2 DEF FulfilmentNext, fulfilmentVars

LEMMA BothInvariant == FulfilmentSpec => []BothInv
  BY FulfilmentStarts, FulfilmentStep, PTL DEF FulfilmentSpec

(* Payments, refunds, the webhook and the back office are, in the presence *)
(* of shipping, no more than what Shipping assumes of them: everything     *)
(* that is proved of ShippingSpec holds of the shop.                       *)
THEOREM ShippingInContext == FulfilmentSpec => ImplementsShipping
  <1>1. FulfilmentInit => ShippingInit
    BY DEF FulfilmentInit
  <1>2. BothInv /\ [FulfilmentNext]_fulfilmentVars => [ShippingNext]_shippingVars
    BY FulfilmentStep
  <1>3. QED
    BY <1>1, <1>2, BothInvariant, PTL DEF FulfilmentSpec, ImplementsShipping, ShippingSpec

(* Orders and ledger agree also when workers ship the orders, and no       *)
(* payment is booked without its money, or twice.                          *)
THEOREM LedgerInContext ==
  FulfilmentSpec => [](OrderMatchesLedger /\ LedgerBacked /\ SucceededIsBooked /\ LedgerOnce)
  <1>1. BothInv /\ OnceInv /\ [FulfilmentNext]_fulfilmentVars => OnceInv'
    <2> SUFFICES ASSUME BothInv, OnceInv, [FulfilmentNext]_fulfilmentVars
                 PROVE  OnceInv'
      OBVIOUS
    <2>1. CASE [Next]_vars
      BY <2>1, ShopOnceStep DEF BothInv
    <2>2. CASE UNCHANGED payVars
      BY <2>2 DEF OnceInv, payVars
    <2>3. QED  BY <2>1, <2>2, FulfilmentStep
  <1>2. BothInv => OrderMatchesLedger /\ LedgerBacked /\ SucceededIsBooked
    BY DEF BothInv, AllInv, PayInv
  <1>3. QED
    BY <1>1, <1>2, BothInvariant, FulfilmentStarts, PTL
    DEF FulfilmentSpec, OnceInv, LedgerOnce

(* Refunds stay right when the orders they are for are shipped meanwhile:  *)
(* cents and status tell one story, no refund is booked that was not       *)
(* carried out, and the cents keep to what is booked, as in                *)
(* RefundedIsWhatIsBooked.                                                 *)
THEOREM RefundsInContext ==
  FulfilmentSpec
    => [](RefundAgrees /\ RefundBacked /\ RefundNeedsMoney /\ RefundedMatchesLedger)
  <1>1. BothInv /\ LedgerInv /\ BothInv' /\ [FulfilmentNext]_fulfilmentVars => LedgerInv'
    <2> SUFFICES ASSUME BothInv, LedgerInv, BothInv', [FulfilmentNext]_fulfilmentVars
                 PROVE  LedgerInv'
      OBVIOUS
    <2>1. CASE [Next]_vars
      BY <2>1, ShopLedgerStep DEF BothInv
    <2>2. CASE ShippingStep /\ UNCHANGED <<payVars, refundVars>>
      BY <2>2, ShippingMoves, LedgerUntouched DEF BothInv
    <2>3. QED  BY <2>1, <2>2, FulfilmentStep
  <1>2. BothInv => RefundAgrees /\ RefundBacked /\ RefundNeedsMoney
    BY DEF BothInv, AllInv, RefundInv
  <1>3. LedgerInv => RefundedMatchesLedger
    BY DEF LedgerInv
  <1>4. QED
    BY <1>1, <1>2, <1>3, BothInvariant, FulfilmentStarts, PTL DEF FulfilmentSpec

(* With payments, refunds, admins and workers on one table of orders, the  *)
(* promise of Settlement is kept: shipping is nothing it can see.          *)
THEOREM SettlementInContext == FulfilmentSpec => ImplementsSettlement
  <1>1. FulfilmentInit => Promise!SettlementInit
    BY SettlementStarts DEF FulfilmentInit, Init
  <1>2. BothInv /\ BothInv' /\ [FulfilmentNext]_fulfilmentVars
          => [Promise!SettlementNext]_(Promise!settlementVars)
    <2> SUFFICES ASSUME BothInv, BothInv', [FulfilmentNext]_fulfilmentVars
                 PROVE  [Promise!SettlementNext]_(Promise!settlementVars)
      OBVIOUS
    <2>1. CASE [Next]_vars
      BY <2>1, ShopSettlementStep DEF BothInv
    <2>2. CASE ShippingStep /\ UNCHANGED <<payVars, refundVars>>
      BY <2>2, ShippingKeepsAll DEF BothInv, ShipInv, ShippingTypeOK
    <2>3. QED  BY <2>1, <2>2, FulfilmentStep
  <1>3. QED
    BY <1>1, <1>2, BothInvariant, PTL
    DEF FulfilmentSpec, ImplementsSettlement, Promise!SettlementSpec

(* No parcel leaves, and no label is bought, for an order whose money the  *)
(* provider has not taken and the ledger has not booked.                   *)
THEOREM ParcelsPaid == FulfilmentSpec => []ParcelsArePaid
  <1>1. BothInv => ParcelsArePaid
    <2> SUFFICES ASSUME BothInv, NEW s \in Shipments,
                        shipment[s].status = "shipped" \/ labels[s] > 0
                 PROVE  PaidFor(shipment[s].order)
      BY DEF ParcelsArePaid
    <2> USE DEF BothInv
    <2>1. JobAgrees(s) /\ OrderFits(s)
      BY DEF ShipInv, JobsAgree, OrdersOfShipments
    <2>2. job[s].status \in {"none", "pending", "processing", "succeeded", "failed"}
      BY DEF ShipInv, ShippingTypeOK, JobRows
    <2>3. shipment[s].status # "none"
      BY <2>1, <2>2 DEF JobAgrees
    <2>4. shipment[s].order \in Orders /\ status[shipment[s].order] \in Settled
      BY <2>1, <2>3 DEF OrderFits
    <2>5. PICK p \in Payments : OrderOf[p] = shipment[s].order /\ Booked(p)
      BY <2>4 DEF AllInv, PayInv, OrderMatchesLedger
    <2>6. CapturedFor(p)
      BY <2>5 DEF AllInv, PayInv, LedgerBacked
    <2>7. QED  BY <2>4, <2>5, <2>6 DEF PaidFor
  <1>2. QED  BY <1>1, BothInvariant, PTL

(* The shop as a whole moves every order along Moves only.                 *)
THEOREM StatusMovesInContext == FulfilmentSpec => StatusMoves
  BY ShippingInContext, StatusMovesWithWorkers, PTL DEF ImplementsShipping

(* order_events accounts for what became of every order, whoever shipped,  *)
(* refunded or cancelled it.                                               *)
THEOREM AuditInContext == FulfilmentSpec => []AuditTrail
  BY ShippingInContext, AuditStillTrue, PTL DEF ImplementsShipping
=============================================================================
