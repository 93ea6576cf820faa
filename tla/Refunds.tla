------------------------------ MODULE Refunds ------------------------------
(***************************************************************************)
(* Refunding an order: RefundService.RefundOrder                           *)
(* (internal/modules/payments/refund_service.go) and the refund half of    *)
(* the webhook handler, on top of Payments: the composed system in which   *)
(* customers pay, admins ship, cancel and refund, and the provider's       *)
(* events arrive in any order.                                             *)
(*                                                                         *)
(* RefundOrder has the three phases of PayOrder.  Its third phase locks    *)
(* the order row again; the webhook transaction locks the refund row and   *)
(* then the order row.                                                     *)
(***************************************************************************)
EXTENDS Payments, FiniteSets, FiniteSetsExt

CONSTANTS
  RefundKeys,      \* idempotency keys of refund requests
  RefundCalls,     \* RefundOrder requests that can be in progress at once
  RefundRefs,      \* provider references; bounds the refunds ever asked for
  RefundOutcomes,  \* the answers the provider can give to RefundPayment
  RequestAmounts,  \* amount_cents of a request; 0 asks for all that is left
  RefundEventIds,  \* ids under which one and the same news of a refund comes
  MaxTries,        \* bound: requests that use one and the same refund key
  MaxRequests,     \* bound: requests for refunds altogether
  NoRefund         \* the refund of an idle call or of an unused reference

(* The row of a refund is identified by (payment_id, idempotency_key).     *)
Refunds == Payments \X RefundKeys
PaymentOf == [r \in Refunds |-> r[1]]
OrderOfRefund == [r \in Refunds |-> OrderOf[PaymentOf[r]]]

(* "failed" is any answer that is neither initiated nor succeeded.         *)
RefundOutcome == {"initiated", "succeeded", "failed", "error"}

ASSUME RefundAssumption ==
  /\ RefundOutcomes \subseteq RefundOutcome
  /\ RequestAmounts \subseteq Nat
  /\ MaxTries \in Nat /\ MaxRequests \in Nat
  /\ NoRefund \notin Refunds
  /\ NoRef \notin RefundRefs

VARIABLES
  refund,          \* refunds: status ("none": no row), amount_cents, provider_ref
  refundLedger,    \* number of refund_succeeded and refund_failed ledger rows
  notified,        \* the refunds whose confirmation is in the email outbox
  refundCall,      \* RefundOrder requests: phase, refund, the provider's answer
  giveBack,        \* the provider's refunds: whose, how much, what became of them
  refundSent,      \* refund events the provider has sent
  refundReceived,  \* the committed provider_events rows of refund events
  tries            \* history: how many requests have taken up a refund

refundVars == <<refund, refundLedger, notified, refundCall, giveBack,
                refundSent, refundReceived, tries>>
vars == <<paymentsVars, refundVars>>
-----------------------------------------------------------------------------
RefundEvent == [type : {"refund.succeeded", "refund.failed"},
                ref : RefundRefs, id : RefundEventIds]

(* The news of a refund under every id the provider may send it with.      *)
RefundNews(type, x) == {e \in RefundEvent : e.type = type /\ e.ref = x}

(* "returned" is money that was given back and has come back to the shop.  *)
GiveBackState == {"unused", "pending", "failed", "done", "returned"}

IdleRefundCall == [pc |-> "idle", refund |-> NoRefund, status |-> "initiated",
                   ref |-> NoRef]
AskingRefundCall(r) == [pc |-> "provider", refund |-> r, status |-> "initiated",
                        ref |-> NoRef]
AnsweredRefundCall(r, outcome, x) == [pc |-> "finalize", refund |-> r,
                                      status |-> outcome, ref |-> x]

RefundTypeOK ==
  /\ refund \in [Refunds -> [status : {"none", "initiated", "succeeded", "failed"},
                             amount : 0 .. Total,
                             ref : RefundRefs \cup {NoRef}]]
  /\ refundLedger \in [Refunds -> [succeeded : Nat, failed : Nat]]
  /\ notified \subseteq Refunds
  /\ refundCall \in [RefundCalls -> [pc : {"idle", "provider", "finalize"},
                                     refund : Refunds \cup {NoRefund},
                                     status : RefundOutcome,
                                     ref : RefundRefs \cup {NoRef}]]
  /\ \A c \in RefundCalls : refundCall[c].pc # "idle" => refundCall[c].refund \in Refunds
  /\ giveBack \in [RefundRefs -> [state : GiveBackState, for : Refunds \cup {NoRefund}]]
  /\ refundSent \subseteq RefundEvent
  /\ refundReceived \subseteq RefundEvent
  /\ tries \in [Refunds -> 0 .. MaxTries]

RefundInit ==
  /\ refund = [r \in Refunds |-> [status |-> "none", amount |-> 0, ref |-> NoRef]]
  /\ refundLedger = [r \in Refunds |-> [succeeded |-> 0, failed |-> 0]]
  /\ notified = {}
  /\ refundCall = [c \in RefundCalls |-> IdleRefundCall]
  /\ giveBack = [x \in RefundRefs |-> [state |-> "unused", for |-> NoRefund]]
  /\ refundSent = {}
  /\ refundReceived = {}
  /\ tries = [r \in Refunds |-> 0]
-----------------------------------------------------------------------------
Remaining(o) == Total - refunded[o]

(* A faulty RefundAmount: the request is not clamped to what remains.      *)
RefundAmountUnclamped(o, requested) ==
  IF requested = 0 THEN Remaining(o) ELSE requested

(* Nothing or too much asked for means all that remains.                   *)
RefundAmount(o, requested) ==
  IF requested = 0 \/ requested > Remaining(o) THEN Remaining(o) ELSE requested

(* A faulty gate: any order that is not refunded in full will do.          *)
RefundableAlways(o) == Remaining(o) > 0

(* The gate of phase 1.                                                    *)
Refundable(o) == status[o] \in {"paid", "partially_refunded"} /\ Remaining(o) > 0

(* Phase 1, under the lock of the order row.  p is a succeeded payment of  *)
(* the order; which one, if there are several, depends on their update     *)
(* times and is left open.  A refund row that already succeeded ends the   *)
(* call at once.                                                           *)
RefundOrderBegin(c, p, k, requested) ==
  LET o == OrderOf[p]
      r == <<p, k>>
  IN  /\ refundCall[c].pc = "idle"
      /\ Refundable(o)
      /\ pay[p].status = "succeeded"
      /\ refund[r].status # "succeeded"
      /\ tries[r] < MaxTries /\ SumFunction(tries) < MaxRequests
      /\ refund' = IF refund[r].status = "none"
                   THEN [refund EXCEPT ![r] = [status |-> "initiated", ref |-> NoRef,
                                               amount |-> RefundAmount(o, requested)]]
                   ELSE refund
      /\ tries' = [tries EXCEPT ![r] = @ + 1]
      /\ refundCall' = [refundCall EXCEPT ![c] = AskingRefundCall(r)]
      /\ UNCHANGED <<paymentsVars, refundLedger, notified, giveBack,
                     refundSent, refundReceived>>

(* Phase 2, RefundPayment: like CreatePayment, a new reference each time.  *)
NewGiveBack(c, outcome, x, st) ==
  /\ giveBack[x].state = "unused"
  /\ giveBack' = [giveBack EXCEPT ![x] = [state |-> st, for |-> refundCall[c].refund]]
  /\ refundCall' = [refundCall EXCEPT
                      ![c] = AnsweredRefundCall(refundCall[c].refund, outcome,
                               IF outcome = "error" THEN NoRef ELSE x)]
  /\ refundSent' = refundSent \cup CASE st = "done"   -> RefundNews("refund.succeeded", x)
                                      [] st = "failed" -> RefundNews("refund.failed", x)
                                      [] OTHER         -> {}

RefundPayment(c) ==
  /\ refundCall[c].pc = "provider"
  /\ \E outcome \in RefundOutcomes :
       \/ /\ outcome = "succeeded"
          /\ \E x \in RefundRefs : NewGiveBack(c, outcome, x, "done")
       \/ /\ outcome \in {"initiated", "error"}
          /\ \E x \in RefundRefs : NewGiveBack(c, outcome, x, "pending")
       \/ /\ outcome = "failed"
          /\ \E x \in RefundRefs : NewGiveBack(c, outcome, x, "failed")
       \/ /\ outcome = "error"
          /\ refundCall' = [refundCall EXCEPT
                          ![c] = AnsweredRefundCall(refundCall[c].refund, "error", NoRef)]
          /\ UNCHANGED <<giveBack, refundSent>>
  /\ UNCHANGED <<paymentsVars, refund, refundLedger, notified, refundReceived, tries>>

(* Phase 3.  The order row is locked and read again, the refund row is     *)
(* overwritten.  A success books the amount and moves the order; a failure *)
(* tries to leave a ledger and an audit row and ignores an insert that     *)
(* fails.  The confirmation email is written by the same transaction, when *)
(* an address is known and the insert works.                               *)
RefundRowAfter(c) ==
  LET r == refundCall[c].refund IN
  [status |-> IF refundCall[c].status \in {"initiated", "succeeded"}
              THEN refundCall[c].status ELSE "failed",
   amount |-> refund[r].amount,
   ref |-> IF refundCall[c].ref # NoRef THEN refundCall[c].ref ELSE refund[r].ref]

RefundSucceedsNow(r) ==
  LET o == OrderOfRefund[r] IN
  /\ refundLedger' = [refundLedger EXCEPT ![r].succeeded = @ + 1]
  /\ AddRefund(o, refund[r].amount)
  /\ audit' = audit \cup {RefundAuditRow(o, status'[o])}
  /\ notified' \in {notified, notified \cup {r}}

RefundFailsNow(r) ==
  LET o == OrderOfRefund[r] IN
  /\ refundLedger' \in {refundLedger, [refundLedger EXCEPT ![r].failed = @ + 1]}
  /\ audit' \in {audit, audit \cup {RefundAuditRow(o, status[o])}}
  /\ UNCHANGED <<status, refunded, notified>>

RefundOrderFinalize(c) ==
  LET r == refundCall[c].refund IN
  /\ refundCall[c].pc = "finalize"
  /\ refund' = [refund EXCEPT ![r] = RefundRowAfter(c)]
  /\ CASE refundCall[c].status = "initiated" ->
            UNCHANGED <<orderVars, refundLedger, notified>>
       [] refundCall[c].status = "succeeded" -> RefundSucceedsNow(r)
       [] OTHER -> RefundFailsNow(r)
  /\ refundCall' = [refundCall EXCEPT ![c] = IdleRefundCall]
  /\ UNCHANGED <<payVars, giveBack, refundSent, refundReceived, tries>>

(* The call dies between its phases, or phase 3 is rolled back: also when  *)
(* InnoDB picks it as the victim of a deadlock with a refund webhook.      *)
RefundOrderAbort(c) ==
  /\ MayAbort
  /\ refundCall[c].pc # "idle"
  /\ refundCall' = [refundCall EXCEPT ![c] = IdleRefundCall]
  /\ UNCHANGED <<paymentsVars, refund, refundLedger, notified, giveBack,
                 refundSent, refundReceived, tries>>
-----------------------------------------------------------------------------
(* The provider settles a refund and may settle it anew: a transfer that   *)
(* has failed can still succeed, money that was given back can come back.  *)
SettleGiveBack(x, st, type) ==
  /\ giveBack' = [giveBack EXCEPT ![x].state = st]
  /\ refundSent' = refundSent \cup RefundNews(type, x)
  /\ UNCHANGED <<paymentsVars, refund, refundLedger, notified, refundCall,
                 refundReceived, tries>>

GiveBackDone(x) ==
  /\ giveBack[x].state \in {"pending", "failed", "returned"}
  /\ SettleGiveBack(x, "done", "refund.succeeded")

GiveBackFails(x) ==
  \/ giveBack[x].state = "pending" /\ SettleGiveBack(x, "failed", "refund.failed")
  \/ giveBack[x].state = "done" /\ SettleGiveBack(x, "returned", "refund.failed")
-----------------------------------------------------------------------------
(* ensureFinancialEntry for the two refund events.                         *)
EnsureRefundEntry(r) ==
  [refundLedger EXCEPT ![r].succeeded = IF @ = 0 THEN 1 ELSE @]
EnsureRefundFailedEntry(r) ==
  [refundLedger EXCEPT ![r].failed = IF @ = 0 THEN 1 ELSE @]

(* A faulty variant of the next action: no early return.                   *)
ApplyRefundSucceededAgain(r) ==
  /\ refund' = [refund EXCEPT ![r].status = "succeeded"]
  /\ AddRefund(OrderOfRefund[r], refund[r].amount)
  /\ refundLedger' = EnsureRefundEntry(r)

(* A refund that has not succeeded yet succeeds; the order takes the       *)
(* amount whatever its status is by now.                                   *)
ApplyRefundSucceeded(r) ==
  IF refund[r].status = "succeeded"
  THEN UNCHANGED <<refund, status, refunded, refundLedger>>
  ELSE /\ refund' = [refund EXCEPT ![r].status = "succeeded"]
       /\ AddRefund(OrderOfRefund[r], refund[r].amount)
       /\ refundLedger' = EnsureRefundEntry(r)

(* A refund that is not failed yet fails; its ledger row is best effort.   *)
ApplyRefundFailed(r) ==
  /\ IF refund[r].status = "failed"
     THEN UNCHANGED <<refund, refundLedger>>
     ELSE /\ refund' = [refund EXCEPT ![r].status = "failed"]
          /\ refundLedger' \in {refundLedger, EnsureRefundFailedEntry(r)}
  /\ UNCHANGED <<status, refunded>>

(* A faulty Handle that keeps the provider_events row although no refund   *)
(* has the reference yet: the retries of the event find it received.       *)
HandleRefundSwallowing(e) ==
  /\ e \in refundSent
  /\ e \notin refundReceived
  /\ IF \E r \in Refunds : refund[r].ref = e.ref
     THEN \E r \in Refunds :
            /\ refund[r].ref = e.ref
            /\ IF e.type = "refund.succeeded" THEN ApplyRefundSucceeded(r)
                                              ELSE ApplyRefundFailed(r)
     ELSE UNCHANGED <<refund, status, refunded, refundLedger>>
  /\ refundReceived' = refundReceived \cup {e}
  /\ UNCHANGED <<audit, payVars, notified, refundCall, giveBack, refundSent, tries>>

(* Handle for a refund event: see HandlePaymentEvent.                      *)
HandleRefundEvent(e) ==
  /\ e \in refundSent
  /\ e \notin refundReceived
  /\ \E r \in Refunds :
       /\ refund[r].ref = e.ref
       /\ IF e.type = "refund.succeeded" THEN ApplyRefundSucceeded(r)
                                         ELSE ApplyRefundFailed(r)
  /\ refundReceived' = refundReceived \cup {e}
  /\ UNCHANGED <<audit, payVars, notified, refundCall, giveBack, refundSent, tries>>
-----------------------------------------------------------------------------
RefundOrderStep(c) ==
  \/ \E p \in Payments, k \in RefundKeys, a \in RequestAmounts :
       RefundOrderBegin(c, p, k, a)
  \/ RefundPayment(c)
  \/ RefundOrderFinalize(c)
  \/ RefundOrderAbort(c)

RefundNext ==
  \/ \E c \in RefundCalls : RefundOrderStep(c)
  \/ \E x \in RefundRefs : GiveBackDone(x) \/ GiveBackFails(x)
  \/ \E e \in RefundEvent : HandleRefundEvent(e)

Init == OrderInit /\ PayInit /\ RefundInit
Next == RefundNext \/ (PayNext /\ UNCHANGED refundVars)
Spec == Init /\ [][Next]_vars

(* A call runs on and an event is sent until it is accepted; see Payments. *)
Fairness ==
  /\ \A c \in PayCalls : WF_vars(PayOrderFinalize(c) /\ UNCHANGED refundVars)
  /\ \A e \in PayEvent : WF_vars(HandlePaymentEvent(e) /\ UNCHANGED refundVars)
  /\ \A c \in RefundCalls : WF_vars(RefundOrderFinalize(c))
  /\ \A e \in RefundEvent : WF_vars(HandleRefundEvent(e))

FairSpec == Spec /\ Fairness
-----------------------------------------------------------------------------
RowExists(r) == refund[r].status # "none"
GivenBack(r) ==
  \E x \in RefundRefs : giveBack[x].for = r /\ giveBack[x].state \in {"done", "returned"}

TypeOK == PaymentsTypeOK /\ RefundTypeOK

(* refunded_cents and the status of an order tell the same story, although *)
(* phase 3 and the webhook each compute both: something was refunded       *)
(* exactly when the status says so, and "refunded" means everything.       *)
RefundAgrees ==
  \A o \in Orders :
    /\ refunded[o] > 0 => status[o] \in {"partially_refunded", "refunded"}
    /\ status[o] = "partially_refunded" => refunded[o] \in 1 .. (Total - 1)
    /\ status[o] = "refunded" => refunded[o] = Total

(* No refund is booked that the provider did not carry out for that very   *)
(* refund, and no customer is told of a refund that is not booked.         *)
RefundBacked ==
  \A r \in Refunds :
    /\ refundLedger[r].succeeded > 0 => GivenBack(r)
    /\ r \in notified => refundLedger[r].succeeded > 0

(* A refund exists only for a payment whose money was booked, and its      *)
(* order has left "created" for good without being cancelled.              *)
RefundNeedsMoney ==
  \A r \in Refunds :
    RowExists(r) => Booked(PaymentOf[r]) /\ status[OrderOfRefund[r]] \in Settled

(* The refunds of an order that the ledger knows, and what they add up to. *)
BookedFor(o) == {r \in Refunds : OrderOfRefund[r] = o /\ refundLedger[r].succeeded > 0}

BookedRefunds(o) ==
  SumFunctionOnSet([r \in Refunds |-> refundLedger[r].succeeded * refund[r].amount],
                   BookedFor(o))

(* The webhook has taken in news of this type about the refund.            *)
Heard(r, type) ==
  \E e \in refundReceived : e.type = type /\ giveBack[e.ref].for = r

(* It has been told both that the refund succeeded and that it failed.     *)
TurnedOver(r) == Heard(r, "refund.succeeded") /\ Heard(r, "refund.failed")

(* A refund whose key was used once (the admin form makes a new key for    *)
(* every request) and of which the webhook has heard one thing only.       *)
Plain(r) == tries[r] <= 1 /\ ~ TurnedOver(r)

(* refunded_cents never falls behind the booked refunds, capped at the     *)
(* total, and is just their sum for an order whose refunds are plain.  The *)
(* others can be added twice, with one ledger row: the webhook adds the    *)
(* amount whenever the row is not "succeeded", and only the ledger entry   *)
(* is looked up first.                                                     *)
RefundedMatchesLedger ==
  \A o \in Orders :
    LET booked == Min({Total, BookedRefunds(o)})
    IN  /\ refunded[o] >= booked
        /\ (\A r \in Refunds : OrderOfRefund[r] = o => Plain(r)) => refunded[o] = booked

(* A refund that was carried out on the reference its row still holds is   *)
(* eventually booked, unless a retry of the key replaces the reference.    *)
StoredRefundGetsBooked ==
  \A r \in Refunds, x \in RefundRefs :
    (refund[r].ref = x /\ giveBack[x].state = "done")
      ~> (refund[r].ref # x \/ refundLedger[r].succeeded > 0)

(* "refundable gate (MVP): paid/partially_refunded states only"            *)
(* (refund_service.go:68): only an order in these states is refunded.      *)
RefundGate ==
  [][\A o \in Orders : refunded'[o] # refunded[o]
                          => status[o] \in {"paid", "partially_refunded"}]_vars

GivenBackFor(o) ==
  MapThenSumSet(LAMBDA x : refund[giveBack[x].for].amount,
                {x \in RefundRefs : /\ giveBack[x].state = "done"
                                    /\ OrderOfRefund[giveBack[x].for] = o})

(* "0 => full remaining" (refund_service.go:38): the provider never gives  *)
(* back more for an order than the order's total.                          *)
NoOverRefund == \A o \in Orders : GivenBackFor(o) <= Total
=============================================================================
