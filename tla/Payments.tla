------------------------------ MODULE Payments ------------------------------
(***************************************************************************)
(* Paying for an order: PayOrder (internal/modules/payments/service.go),   *)
(* the payment half of the webhook handler (webhook_service.go), the       *)
(* payment provider seen through the Provider interface, and the back      *)
(* office acting on the same orders (OrderAdmin).                          *)
(*                                                                         *)
(* PayOrder runs in three phases: a transaction that locks the order and   *)
(* finds or creates the payment row, a call to the provider outside any    *)
(* transaction, and a transaction that writes the provider's answer.       *)
(* Between the phases other requests, webhooks and admins run, and the     *)
(* call itself may die (crash, client gone, database error).               *)
(***************************************************************************)
EXTENDS OrderAdmin

CONSTANTS
  PayKeys,      \* idempotency keys that clients send
  PayCalls,     \* PayOrder requests that can be in progress at once
  PayRefs,      \* provider references; bounds the charges ever created
  PayOutcomes,  \* the answers the configured provider can give
  EventIds,     \* ids under which the provider may send one and the same news
  NoPayment,    \* the payment of an idle call or of an unused reference
  NoRef,        \* a NULL provider_ref
  MayAbort      \* whether a call can die between its phases

(* The row of a payment is identified by (order_id, idempotency_key), on   *)
(* which the table has a unique index.                                     *)
Payments == Orders \X PayKeys
OrderOf == [p \in Payments |-> p[1]]

(* "other" is any answer that is neither initiated nor succeeded: failed,  *)
(* requires_redirect.  "error" is an error return of the call.             *)
PayOutcome == {"initiated", "succeeded", "other", "error"}

ASSUME PayAssumption ==
  /\ PayOutcomes \subseteq PayOutcome
  /\ NoPayment \notin Payments
  /\ NoRef \notin PayRefs
  /\ MayAbort \in BOOLEAN

VARIABLES
  pay,      \* payments: status ("none" before the row exists), provider_ref
  ledger,   \* number of payment_succeeded rows of a payment
  call,     \* PayOrder requests: phase, payment, and the provider's answer
  charge,   \* the provider's charges: whose they are and what became of them
  sent,     \* events the provider has sent; each may arrive late, twice, never
  received  \* the committed provider_events rows

payVars == <<pay, ledger, call, charge, sent, received>>
paymentsVars == <<orderVars, payVars>>
-----------------------------------------------------------------------------
PayEvent == [type : {"payment.succeeded", "payment.failed"},
             ref : PayRefs, id : EventIds]

IdleCall == [pc |-> "idle", pay |-> NoPayment, status |-> "initiated",
             ref |-> NoRef]
AskingCall(p) == [pc |-> "provider", pay |-> p, status |-> "initiated",
                  ref |-> NoRef]
AnsweredCall(p, outcome, r) == [pc |-> "finalize", pay |-> p, status |-> outcome,
                                ref |-> r]

PayTypeOK ==
  /\ pay \in [Payments -> [status : {"none", "initiated", "succeeded", "failed"},
                           ref : PayRefs \cup {NoRef}]]
  /\ ledger \in [Payments -> Nat]
  /\ call \in [PayCalls -> [pc : {"idle", "provider", "finalize"},
                            pay : Payments \cup {NoPayment},
                            status : PayOutcome,
                            ref : PayRefs \cup {NoRef}]]
  /\ \A c \in PayCalls : call[c].pc # "idle" => call[c].pay \in Payments
  /\ charge \in [PayRefs -> [state : {"unused", "open", "declined", "captured"},
                             for : Payments \cup {NoPayment}]]
  /\ sent \subseteq PayEvent
  /\ received \subseteq PayEvent

PayInit ==
  /\ pay = [p \in Payments |-> [status |-> "none", ref |-> NoRef]]
  /\ ledger = [p \in Payments |-> 0]
  /\ call = [c \in PayCalls |-> IdleCall]
  /\ charge = [r \in PayRefs |-> [state |-> "unused", for |-> NoPayment]]
  /\ sent = {}
  /\ received = {}

(* The news of a charge under every id the provider may send it with.      *)
News(type, r) == {e \in PayEvent : e.type = type /\ e.ref = r}
-----------------------------------------------------------------------------
(* Phase 1.  The order row is locked and must still be "created"; the row  *)
(* of (order, key) is reused or inserted.  A row that already succeeded    *)
(* ends the call at once and changes nothing.                              *)
PayOrderBegin(c, p) ==
  /\ call[c].pc = "idle"
  /\ status[OrderOf[p]] = "created"
  /\ pay[p].status # "succeeded"
  /\ pay' = IF pay[p].status = "none"
            THEN [pay EXCEPT ![p].status = "initiated"] ELSE pay
  /\ call' = [call EXCEPT ![c] = AskingCall(p)]
  /\ UNCHANGED <<orderVars, ledger, charge, sent, received>>

(* Phase 2, CreatePayment: every call asks for a new charge, whatever its  *)
(* key.  The provider creates charge r in state st and answers outcome;    *)
(* an error can hide a charge, since the answer may be lost on the way.    *)
NewCharge(c, outcome, r, st) ==
  /\ charge[r].state = "unused"
  /\ charge' = [charge EXCEPT ![r] = [state |-> st, for |-> call[c].pay]]
  /\ call' = [call EXCEPT ![c] = AnsweredCall(call[c].pay, outcome,
                                    IF outcome = "error" THEN NoRef ELSE r)]
  /\ sent' = IF st = "captured"
             THEN sent \cup News("payment.succeeded", r) ELSE sent

CreatePayment(c) ==
  /\ call[c].pc = "provider"
  /\ \E outcome \in PayOutcomes :
       \/ /\ outcome = "succeeded"
          /\ \E r \in PayRefs : NewCharge(c, outcome, r, "captured")
       \/ /\ outcome # "succeeded"
          /\ \E r \in PayRefs : NewCharge(c, outcome, r, "open")
       \/ /\ outcome = "error"
          /\ call' = [call EXCEPT ![c] = AnsweredCall(call[c].pay, "error", NoRef)]
          /\ UNCHANGED <<charge, sent>>
  /\ UNCHANGED <<orderVars, pay, ledger, received>>

(* A faulty RowAfter that stores the provider's word as it comes.          *)
RowAfterRaw(c) ==
  LET p == call[c].pay IN
  [status |-> call[c].status,
   ref |-> IF call[c].ref # NoRef THEN call[c].ref ELSE pay[p].ref]

(* The payment row that phase 3 writes.                                    *)
RowAfter(c) ==
  LET p == call[c].pay IN
  [status |-> IF call[c].status \in {"initiated", "succeeded"}
              THEN call[c].status ELSE "failed",
   ref |-> IF call[c].ref # NoRef THEN call[c].ref ELSE pay[p].ref]

(* Phase 3.  The answer is written over the payment row without reading it *)
(* again; only the order update has a guard.  A success books the money.   *)
PayOrderFinalize(c) ==
  LET p == call[c].pay IN
  /\ call[c].pc = "finalize"
  /\ pay' = [pay EXCEPT ![p] = RowAfter(c)]
  /\ IF call[c].status = "succeeded"
     THEN /\ ledger' = [ledger EXCEPT ![p] = @ + 1]
          /\ status' = MarkPaid(OrderOf[p])
     ELSE UNCHANGED <<ledger, status>>
  /\ call' = [call EXCEPT ![c] = IdleCall]
  /\ UNCHANGED <<refunded, audit, charge, sent, received>>

(* The request dies between two phases, or phase 3 rolls back: the process *)
(* crashes, the client goes away (its context cancels the transaction) or  *)
(* the database fails.  What phase 1 and the provider did stays.           *)
PayOrderAbort(c) ==
  /\ MayAbort
  /\ call[c].pc # "idle"
  /\ call' = [call EXCEPT ![c] = IdleCall]
  /\ UNCHANGED <<orderVars, pay, ledger, charge, sent, received>>
-----------------------------------------------------------------------------
(* The provider settles a charge.  A declined attempt can be followed by a *)
(* successful one on the same charge.                                      *)
CaptureCharge(r) ==
  /\ charge[r].state \in {"open", "declined"}
  /\ charge' = [charge EXCEPT ![r].state = "captured"]
  /\ sent' = sent \cup News("payment.succeeded", r)
  /\ UNCHANGED <<orderVars, pay, ledger, call, received>>

DeclineCharge(r) ==
  /\ charge[r].state = "open"
  /\ charge' = [charge EXCEPT ![r].state = "declined"]
  /\ sent' = sent \cup News("payment.failed", r)
  /\ UNCHANGED <<orderVars, pay, ledger, call, received>>
-----------------------------------------------------------------------------
(* A faulty EnsureEntry that inserts without counting first.               *)
InsertEntry(p) == [ledger EXCEPT ![p] = @ + 1]

(* ensureFinancialEntry: a payment_succeeded row unless there is one.      *)
EnsureEntry(p) == [ledger EXCEPT ![p] = IF @ = 0 THEN 1 ELSE @]

(* A faulty variant of the next action that writes no ledger row.          *)
ApplyPaymentSucceededUnbooked(p) ==
  /\ pay' = [pay EXCEPT ![p].status = "succeeded"]
  /\ status' = MarkPaid(OrderOf[p])
  /\ UNCHANGED ledger

(* A payment that has not succeeded yet succeeds: the row, the order if it *)
(* is still open, and the ledger.                                          *)
ApplyPaymentSucceeded(p) ==
  IF pay[p].status = "succeeded"
  THEN UNCHANGED <<pay, ledger, status>>
  ELSE /\ pay' = [pay EXCEPT ![p].status = "succeeded"]
       /\ status' = MarkPaid(OrderOf[p])
       /\ ledger' = EnsureEntry(p)

(* A payment that is not failed yet becomes failed, even a succeeded one.  *)
ApplyPaymentFailed(p) ==
  /\ pay' = [pay EXCEPT ![p].status = "failed"]
  /\ UNCHANGED <<ledger, status>>

(* A faulty Handle that keeps the provider_events row, and so swallows the *)
(* retries, although no payment has the reference yet.                     *)
HandleSwallowing(e) ==
  /\ e \in sent
  /\ e \notin received
  /\ IF \E p \in Payments : pay[p].ref = e.ref
     THEN \E p \in Payments :
            /\ pay[p].ref = e.ref
            /\ IF e.type = "payment.succeeded" THEN ApplyPaymentSucceeded(p)
                                               ELSE ApplyPaymentFailed(p)
     ELSE UNCHANGED <<pay, ledger, status>>
  /\ received' = received \cup {e}
  /\ UNCHANGED <<refunded, audit, call, charge, sent>>

(* Handle, one transaction: the provider_events row is inserted, which     *)
(* fails harmlessly on an event id seen before, and the event is applied   *)
(* to the payment that has its reference.  If none has, everything rolls   *)
(* back and the 500 answer makes the provider try again.                   *)
HandlePaymentEvent(e) ==
  /\ e \in sent
  /\ e \notin received
  /\ \E p \in Payments :
       /\ pay[p].ref = e.ref
       /\ IF e.type = "payment.succeeded" THEN ApplyPaymentSucceeded(p)
                                          ELSE ApplyPaymentFailed(p)
  /\ received' = received \cup {e}
  /\ UNCHANGED <<refunded, audit, call, charge, sent>>
-----------------------------------------------------------------------------
PayOrderStep(c) ==
  \/ \E p \in Payments : PayOrderBegin(c, p)
  \/ CreatePayment(c)
  \/ PayOrderFinalize(c)
  \/ PayOrderAbort(c)

PayNext ==
  \/ \E c \in PayCalls : PayOrderStep(c)
  \/ \E r \in PayRefs : CaptureCharge(r) \/ DeclineCharge(r)
  \/ \E e \in PayEvent : HandlePaymentEvent(e)
  \/ \E o \in Orders, a \in AdminAction : Transition(o, a) /\ UNCHANGED payVars

PaymentsInit == OrderInit /\ PayInit

PaySpec == PaymentsInit /\ [][PayNext]_paymentsVars

(* A call that has started runs on; the provider sends an event until it   *)
(* is accepted.  Nothing makes a customer, a bank or an admin act.         *)
PayFairness ==
  /\ \A c \in PayCalls : /\ WF_paymentsVars(CreatePayment(c))
                         /\ WF_paymentsVars(PayOrderFinalize(c))
  /\ \A e \in PayEvent : WF_paymentsVars(HandlePaymentEvent(e))

FairPaySpec == PaySpec /\ PayFairness
-----------------------------------------------------------------------------
Booked(p) == ledger[p] > 0
CapturedFor(p) == \E r \in PayRefs : charge[r].for = p /\ charge[r].state = "captured"

PaymentsTypeOK == OrderTypeOK /\ PayTypeOK

(* The order row and the ledger agree: an order counts as paid (or beyond) *)
(* only with a payment_succeeded row, and an order with such a row is no   *)
(* longer open to payment.  PayOrder and the webhook write the two tables  *)
(* at different lines and race with each other and with admins.            *)
OrderMatchesLedger ==
  \A o \in Orders :
    LET bookedFor == \E p \in Payments : OrderOf[p] = o /\ Booked(p)
    IN  /\ status[o] \in Settled => bookedFor
        /\ bookedFor => status[o] # "created"

(* No money is booked that the provider did not take for that very         *)
(* payment, however calls, retries and events interleave.                  *)
LedgerBacked == \A p \in Payments : Booked(p) => CapturedFor(p)

(* A payment row says "succeeded" only with its ledger row.                *)
SucceededIsBooked ==
  \A p \in Payments : pay[p].status = "succeeded" => Booked(p)

(* A payment is booked at most once, although its row can go back to       *)
(* initiated or failed and succeed again.  It is ensureFinancialEntry that *)
(* guarantees it, so it needs a provider that only finalizes by webhook:   *)
(* PayOrder's own insert does not count first.                             *)
LedgerOnce ==
  "succeeded" \notin PayOutcomes => \A p \in Payments : ledger[p] <= 1

(* Money that was taken on the reference a payment row still holds is      *)
(* eventually booked and its order leaves "created", unless a retry of the *)
(* same key replaces the reference first.                                  *)
StoredRefGetsBooked ==
  \A p \in Payments, r \in PayRefs :
    (pay[p].ref = r /\ charge[r].state = "captured")
      ~> (pay[p].ref # r \/ (Booked(p) /\ status[OrderOf[p]] # "created"))

(* "webhook will finalize it" (service.go:137, 145): money taken for a     *)
(* payment makes that payment's row succeed in the end.                    *)
WebhookFinalizes ==
  \A p \in Payments : CapturedFor(p) ~> pay[p].status = "succeeded"

(* The detailed specification implements the promise of Settlement.        *)
Promise == INSTANCE Settlement WITH
  captured <- {p \in Payments : CapturedFor(p)},
  booked   <- {p \in Payments : Booked(p)},
  state    <- [o \in Orders |-> CASE status[o] = "created" -> "open"
                                   [] status[o] = "cancelled" -> "cancelled"
                                   [] status[o] \in Settled -> "settled"]

ImplementsSettlement == Promise!SettlementSpec
=============================================================================
