--------------------------- MODULE PaymentsProofs ---------------------------
(***************************************************************************)
(* Proofs about Payments, for any number of orders, keys, requests,        *)
(* charges and event ids and for any answers of the provider: type         *)
(* correctness, the agreement of orders, payment rows and ledger with the  *)
(* provider's charges, and that Payments implements Settlement.            *)
(***************************************************************************)
EXTENDS Payments, TLAPS

LEMMA OrderOfType == OrderOf \in [Payments -> Orders]
  BY DEF OrderOf, Payments

(* A step of the back office keeps the types of the order rows.            *)
LEMMA TransitionType ==
  ASSUME OrderTypeOK, NEW o \in Orders, NEW a \in AdminAction, Transition(o, a)
  PROVE  OrderTypeOK'
  <1>1. PICK to \in OrderStatus :
          /\ status' = [status EXCEPT ![o] = to]
          /\ audit' = audit \cup {[order |-> o, action |-> a,
                                   from |-> status[o], to |-> to]}
          /\ refunded' = refunded
    BY DEF Transition
  <1>2. [order |-> o, action |-> a, from |-> status[o], to |-> to] \in AuditRow
    BY DEF AuditRow, OrderTypeOK
  <1>3. audit' \subseteq AuditRow
    BY <1>1, <1>2 DEF OrderTypeOK
  <1>4. QED  BY <1>1, <1>3 DEF OrderTypeOK

LEMMA MarkPaidType ==
  ASSUME OrderTypeOK, NEW o \in Orders
  PROVE  MarkPaid(o) \in [Orders -> OrderStatus]
  BY DEF OrderTypeOK, MarkPaid, OrderStatus

LEMMA NewsType ==
  ASSUME NEW type, NEW r
  PROVE  News(type, r) \subseteq PayEvent
  BY DEF News

(* A step of any component of Payments keeps the types of its variables.   *)
LEMMA PayStepType == PaymentsTypeOK /\ [PayNext]_paymentsVars => PaymentsTypeOK'
  <1> SUFFICES ASSUME PaymentsTypeOK, [PayNext]_paymentsVars
               PROVE  PaymentsTypeOK'
    OBVIOUS
  <1> USE OrderOfType, PayAssumption, OrderAssumption DEF PaymentsTypeOK
  <1>1. ASSUME NEW c \in PayCalls, NEW p \in Payments, PayOrderBegin(c, p)
        PROVE  PaymentsTypeOK'
    <2>1. OrderTypeOK'
      BY <1>1 DEF PayOrderBegin, orderVars, OrderTypeOK
    <2>2. PayTypeOK'
      BY SMTT(60), <1>1 DEF PayOrderBegin, PayTypeOK, AskingCall, PayOutcome
    <2>3. QED  BY <2>1, <2>2
  <1>2. ASSUME NEW c \in PayCalls, CreatePayment(c)
        PROVE  PaymentsTypeOK'
    <2>1. OrderTypeOK'
      BY <1>2 DEF CreatePayment, orderVars, OrderTypeOK
    <2>2. call[c].pay \in Payments
      BY <1>2 DEF PayTypeOK, CreatePayment
    <2>3. ASSUME NEW outcome \in PayOutcomes, NEW r \in PayRefs,
                 NEW st \in {"open", "captured"}, NewCharge(c, outcome, r, st),
                 UNCHANGED <<pay, ledger, received>>
          PROVE  PayTypeOK'
      <3>1. sent' \subseteq PayEvent
        BY <2>3, NewsType DEF NewCharge, PayTypeOK
      <3>2. QED  BY <2>2, <2>3, <3>1 DEF NewCharge, AnsweredCall, PayTypeOK
    <2>4. ASSUME call' = [call EXCEPT ![c] = AnsweredCall(call[c].pay, "error", NoRef)],
                 UNCHANGED <<charge, sent, pay, ledger, received>>
          PROVE  PayTypeOK'
      BY <2>2, <2>4 DEF PayTypeOK, PayOutcome, AnsweredCall
    <2>5. PayTypeOK'
      BY <1>2, <2>3, <2>4 DEF CreatePayment
    <2>6. QED  BY <2>1, <2>5
  <1>3. ASSUME NEW c \in PayCalls, PayOrderFinalize(c)
        PROVE  PaymentsTypeOK'
    <2>1. call[c].pay \in Payments
      BY <1>3 DEF PayTypeOK, PayOrderFinalize
    <2>2. OrderTypeOK'
      BY <1>3, <2>1, MarkPaidType DEF PayOrderFinalize, OrderTypeOK
    <2>3. RowAfter(c) \in [status : {"none", "initiated", "succeeded", "failed"},
                           ref : PayRefs \cup {NoRef}]
      BY <2>1 DEF RowAfter, PayTypeOK
    <2>4. PayTypeOK'
      BY <1>3, <2>3 DEF PayOrderFinalize, PayTypeOK, IdleCall, PayOutcome
    <2>5. QED  BY <2>2, <2>4
  <1>4. ASSUME NEW c \in PayCalls, PayOrderAbort(c)
        PROVE  PaymentsTypeOK'
    BY <1>4 DEF PayOrderAbort, PayTypeOK, OrderTypeOK, orderVars, IdleCall, PayOutcome
  <1>5. ASSUME NEW r \in PayRefs, CaptureCharge(r) \/ DeclineCharge(r)
        PROVE  PaymentsTypeOK'
    BY <1>5, NewsType
    DEF CaptureCharge, DeclineCharge, PayTypeOK, OrderTypeOK, orderVars
  <1>6. ASSUME NEW e \in PayEvent, HandlePaymentEvent(e)
        PROVE  PaymentsTypeOK'
    <2>1. PICK p \in Payments : ApplyPaymentSucceeded(p) \/ ApplyPaymentFailed(p)
      BY <1>6 DEF HandlePaymentEvent
    <2>2. OrderTypeOK'
      BY <1>6, <2>1, MarkPaidType
      DEF HandlePaymentEvent, ApplyPaymentSucceeded, ApplyPaymentFailed, OrderTypeOK
    <2>3. PayTypeOK'
      BY <1>6, <2>1
      DEF HandlePaymentEvent, ApplyPaymentSucceeded, ApplyPaymentFailed, EnsureEntry,
          PayTypeOK
    <2>4. QED  BY <2>2, <2>3
  <1>7. ASSUME NEW o \in Orders, NEW a \in AdminAction, Transition(o, a),
               UNCHANGED payVars
        PROVE  PaymentsTypeOK'
    BY <1>7, TransitionType DEF payVars, PayTypeOK
  <1>8. CASE UNCHANGED paymentsVars
    BY <1>8 DEF paymentsVars, payVars, orderVars, PayTypeOK, OrderTypeOK
  <1>9. QED
    BY <1>1, <1>2, <1>3, <1>4, <1>5, <1>6, <1>7, <1>8 DEF PayNext, PayOrderStep

LEMMA PayInitType == OrderInit /\ PayInit => PaymentsTypeOK
  BY OrderAssumption
  DEF OrderInit, PayInit, PaymentsTypeOK, OrderTypeOK, PayTypeOK, OrderStatus,
      IdleCall, PayOutcome

(* Every state of Payments is well typed; in particular a request in       *)
(* progress knows its payment and statuses come from their columns' sets.  *)
THEOREM PaymentsTypeCorrect == PaySpec => []PaymentsTypeOK
  <1>1. PaymentsTypeOK /\ [PayNext]_paymentsVars => PaymentsTypeOK'
    BY PayStepType
  <1>2. QED  BY PayInitType, <1>1, PTL DEF PaySpec, PaymentsInit
-----------------------------------------------------------------------------
(* The inductive invariant.  What ties the database to the provider is     *)
(* that a reference, wherever it is stored, was created for that payment;  *)
(* an event reports a captured charge; a call that reports success holds a *)
(* captured charge.                                                        *)
Captured(r) == charge[r].state = "captured"

UnusedIsFree == \A r \in PayRefs : charge[r].state = "unused" => charge[r].for = NoPayment

CallHoldsOwn ==
  \A c \in PayCalls :
    /\ call[c].pc # "idle" /\ call[c].ref # NoRef
         => charge[call[c].ref].for = call[c].pay
    /\ call[c].pc = "finalize" /\ call[c].status = "succeeded"
         => call[c].ref # NoRef /\ Captured(call[c].ref)

RowHoldsOwn ==
  \A p \in Payments : pay[p].ref # NoRef => charge[pay[p].ref].for = p

NewsIsTrue == \A e \in sent : e.type = "payment.succeeded" => Captured(e.ref)

RefInv == UnusedIsFree /\ CallHoldsOwn /\ RowHoldsOwn /\ NewsIsTrue

PayInv == /\ PaymentsTypeOK
          /\ RefInv
          /\ LedgerBacked
          /\ SucceededIsBooked
          /\ OrderMatchesLedger

(* The references stay with their payments: one step per action.           *)
LEMMA RefStep == PaymentsTypeOK /\ RefInv /\ [PayNext]_paymentsVars => RefInv'
  <1> SUFFICES ASSUME PaymentsTypeOK, RefInv, [PayNext]_paymentsVars
               PROVE  RefInv'
    OBVIOUS
  <1> PaymentsTypeOK'
    BY PayStepType
  <1> USE OrderOfType, PayAssumption DEF RefInv, PaymentsTypeOK, PayTypeOK
  <1>1. ASSUME NEW c \in PayCalls, NEW p \in Payments, PayOrderBegin(c, p)
        PROVE  RefInv'
    BY <1>1 DEF PayOrderBegin, AskingCall, UnusedIsFree, CallHoldsOwn, RowHoldsOwn,
                NewsIsTrue, Captured
  <1>2. ASSUME NEW c \in PayCalls, CreatePayment(c)
        PROVE  RefInv'
    <2>1. ASSUME NEW outcome \in PayOutcomes, NEW r \in PayRefs,
                 NEW st \in {"open", "captured"}, NewCharge(c, outcome, r, st),
                 outcome = "succeeded" => st = "captured",
                 UNCHANGED <<pay, ledger, received>>
          PROVE  RefInv'
      <3>1. charge[r].for = NoPayment
        BY <2>1 DEF NewCharge, UnusedIsFree
      <3>2. \A x \in PayRefs : x # r => charge'[x] = charge[x]
        BY <2>1 DEF NewCharge
      <3>3. charge'[r] = [state |-> st, for |-> call[c].pay]
        BY <2>1 DEF NewCharge
      <3>4. UnusedIsFree'
        BY <3>2, <3>3 DEF UnusedIsFree
      <3>5. CallHoldsOwn'
        BY <2>1, <3>1, <3>2, <3>3, <1>2
        DEF CallHoldsOwn, NewCharge, AnsweredCall, Captured, CreatePayment
      <3>6. RowHoldsOwn'
        BY <2>1, <3>1, <3>2 DEF RowHoldsOwn
      <3>7. NewsIsTrue'
        BY <2>1, <3>2, <3>3 DEF NewsIsTrue, NewCharge, News, Captured
      <3>8. QED  BY <3>4, <3>5, <3>6, <3>7
    <2>2. ASSUME call' = [call EXCEPT ![c] = AnsweredCall(call[c].pay, "error", NoRef)],
                 UNCHANGED <<charge, sent, pay, ledger, received>>
          PROVE  RefInv'
      BY <2>2 DEF AnsweredCall, UnusedIsFree, CallHoldsOwn, RowHoldsOwn, NewsIsTrue,
                  Captured
    <2>3. QED  BY <1>2, <2>1, <2>2 DEF CreatePayment
  <1>3. ASSUME NEW c \in PayCalls, PayOrderFinalize(c)
        PROVE  RefInv'
    BY <1>3 DEF PayOrderFinalize, RowAfter, IdleCall, UnusedIsFree, CallHoldsOwn,
                RowHoldsOwn, NewsIsTrue, Captured
  <1>4. ASSUME NEW c \in PayCalls, PayOrderAbort(c)
        PROVE  RefInv'
    BY <1>4 DEF PayOrderAbort, IdleCall, UnusedIsFree, CallHoldsOwn, RowHoldsOwn,
                NewsIsTrue, Captured
  <1>5. ASSUME NEW r \in PayRefs, CaptureCharge(r) \/ DeclineCharge(r)
        PROVE  RefInv'
    <2>1. charge' \in [PayRefs -> [state : {"unused", "open", "declined", "captured"},
                                    for : Payments \cup {NoPayment}]]
      OBVIOUS
    <2>2. \A x \in PayRefs : charge'[x].for = charge[x].for
      BY <1>5 DEF CaptureCharge, DeclineCharge
    <2>3. \A x \in PayRefs : charge'[x].state = "unused" => charge[x].state = "unused"
      BY <1>5 DEF CaptureCharge, DeclineCharge
    <2>4. \A x \in PayRefs : Captured(x) => Captured(x)'
      BY <1>5 DEF CaptureCharge, DeclineCharge, Captured
    <2>5. call' = call /\ pay' = pay
      BY <1>5 DEF CaptureCharge, DeclineCharge
    <2>6. UnusedIsFree'
      BY <2>2, <2>3 DEF UnusedIsFree
    <2>7. CallHoldsOwn'
      BY <2>2, <2>4, <2>5 DEF CallHoldsOwn
    <2>8. RowHoldsOwn'
      BY <2>2, <2>5 DEF RowHoldsOwn
    <2>9. NewsIsTrue'
      BY <1>5, <2>4 DEF NewsIsTrue, CaptureCharge, DeclineCharge, News, Captured, PayEvent
    <2>10. QED  BY <2>6, <2>7, <2>8, <2>9
  <1>6. ASSUME NEW e \in PayEvent, HandlePaymentEvent(e)
        PROVE  RefInv'
    BY <1>6 DEF HandlePaymentEvent, ApplyPaymentSucceeded, ApplyPaymentFailed,
                UnusedIsFree, CallHoldsOwn, RowHoldsOwn, NewsIsTrue, Captured
  <1>7. ASSUME UNCHANGED payVars
        PROVE  RefInv'
    BY <1>7 DEF payVars, UnusedIsFree, CallHoldsOwn, RowHoldsOwn, NewsIsTrue, Captured
  <1>8. QED
    BY <1>1, <1>2, <1>3, <1>4, <1>5, <1>6, <1>7
    DEF PayNext, PayOrderStep, paymentsVars, payVars
-----------------------------------------------------------------------------
(* What any step does to the tables that orders and money live in: it      *)
(* leaves them alone, books one captured payment, or is the back office's. *)
Books(p) ==
  /\ CapturedFor(p)
  /\ Booked(p)'
  /\ \A q \in Payments \ {p} : ledger'[q] = ledger[q]
  /\ status' = MarkPaid(OrderOf[p])
  /\ UNCHANGED <<audit, charge>>

LEMMA StepShape ==
  ASSUME PaymentsTypeOK, RefInv, [PayNext]_paymentsVars
  PROVE  \/ UNCHANGED <<status, audit, ledger>>
         \/ \E p \in Payments : Books(p) /\ pay'[p].status = "succeeded"
         \/ \E o \in Orders, a \in AdminAction : Transition(o, a) /\ UNCHANGED payVars
  <1> USE PayAssumption DEF PaymentsTypeOK, PayTypeOK
  <1>1. ASSUME NEW c \in PayCalls, PayOrderStep(c)
        PROVE  \/ UNCHANGED <<status, audit, ledger>>
               \/ \E p \in Payments : Books(p) /\ pay'[p].status = "succeeded"
    <2>1. CASE PayOrderFinalize(c) /\ call[c].status = "succeeded"
      <3>1. PICK p \in Payments : p = call[c].pay /\ call[c].pc = "finalize"
        BY <2>1 DEF PayOrderFinalize
      <3>r. PICK r : r = call[c].ref
        OBVIOUS
      <3>2. r \in PayRefs /\ charge[r].state = "captured" /\ charge[r].for = p
        BY <2>1, <3>1, <3>r DEF RefInv, CallHoldsOwn, Captured
      <3>3. CapturedFor(p)
        BY <3>2 DEF CapturedFor
      <3>4. ledger' = [ledger EXCEPT ![p] = @ + 1] /\ ledger[p] \in Nat
        BY <2>1, <3>1 DEF PayOrderFinalize
      <3>5. Booked(p)' /\ \A q \in Payments \ {p} : ledger'[q] = ledger[q]
        BY <3>1, <3>4 DEF Booked
      <3>6. pay'[p].status = "succeeded"
        BY <2>1, <3>1 DEF PayOrderFinalize, RowAfter
      <3>7. Books(p)
        BY <2>1, <3>1, <3>3, <3>5 DEF Books, PayOrderFinalize
      <3>8. QED  BY <3>1, <3>6, <3>7
    <2>2. CASE ~ (PayOrderFinalize(c) /\ call[c].status = "succeeded")
      BY <1>1, <2>2 DEF PayOrderStep, PayOrderBegin, CreatePayment, PayOrderFinalize,
                        PayOrderAbort, orderVars
    <2>3. QED  BY <2>1, <2>2
  <1>2. ASSUME NEW r \in PayRefs, CaptureCharge(r) \/ DeclineCharge(r)
        PROVE  UNCHANGED <<status, audit, ledger>>
    BY <1>2 DEF CaptureCharge, DeclineCharge, orderVars
  <1>3. ASSUME NEW e \in PayEvent, HandlePaymentEvent(e)
        PROVE  \/ UNCHANGED <<status, audit, ledger>>
               \/ \E p \in Payments : Books(p) /\ pay'[p].status = "succeeded"
    <2>1. PICK p \in Payments :
            /\ pay[p].ref = e.ref
            /\ IF e.type = "payment.succeeded" THEN ApplyPaymentSucceeded(p)
                                               ELSE ApplyPaymentFailed(p)
      BY <1>3 DEF HandlePaymentEvent
    <2>2. CASE e.type = "payment.succeeded" /\ pay[p].status # "succeeded"
      <3>1. e.ref \in PayRefs /\ charge[e.ref].for = p /\ charge[e.ref].state = "captured"
        BY <1>3, <2>1, <2>2
        DEF HandlePaymentEvent, PayEvent, RefInv, RowHoldsOwn, NewsIsTrue, Captured
      <3>2. CapturedFor(p)
        BY <3>1 DEF CapturedFor
      <3>3. ledger' = EnsureEntry(p) /\ ledger[p] \in Nat
        BY <2>1, <2>2 DEF ApplyPaymentSucceeded
      <3>4. Booked(p)' /\ \A q \in Payments \ {p} : ledger'[q] = ledger[q]
        BY <3>3 DEF Booked, EnsureEntry
      <3>5. pay'[p].status = "succeeded" /\ status' = MarkPaid(OrderOf[p])
        BY <2>1, <2>2 DEF ApplyPaymentSucceeded
      <3>6. Books(p)
        BY <1>3, <3>2, <3>4, <3>5 DEF Books, HandlePaymentEvent
      <3>7. QED  BY <3>5, <3>6
    <2>3. CASE ~ (e.type = "payment.succeeded" /\ pay[p].status # "succeeded")
      BY <1>3, <2>1, <2>3
      DEF HandlePaymentEvent, ApplyPaymentSucceeded, ApplyPaymentFailed
    <2>4. QED  BY <2>2, <2>3
  <1>4. QED
    BY <1>1, <1>2, <1>3 DEF PayNext, paymentsVars, orderVars, payVars

(* A captured charge stays captured, for the payment it was made for.      *)
LEMMA CapturedStays ==
  ASSUME PaymentsTypeOK, [PayNext]_paymentsVars, NEW p \in Payments, CapturedFor(p)
  PROVE  CapturedFor(p)'
  <1>1. PICK r \in PayRefs : charge[r].for = p /\ charge[r].state = "captured"
    BY DEF CapturedFor
  <1>2. charge'[r] = charge[r]
    BY <1>1 DEF PaymentsTypeOK, PayTypeOK, PayNext, PayOrderStep, PayOrderBegin,
                CreatePayment, NewCharge, PayOrderFinalize, PayOrderAbort,
                CaptureCharge, DeclineCharge, HandlePaymentEvent, paymentsVars, payVars
  <1>3. QED  BY <1>1, <1>2 DEF CapturedFor

(* A booked payment stays booked.                                          *)
LEMMA BookedStays ==
  ASSUME PaymentsTypeOK, RefInv, [PayNext]_paymentsVars, NEW p \in Payments, Booked(p)
  PROVE  Booked(p)'
  BY StepShape DEF Books, Booked, payVars

LEMMA BackedStep ==
  ASSUME PaymentsTypeOK, RefInv, LedgerBacked, [PayNext]_paymentsVars
  PROVE  LedgerBacked'
  <1> SUFFICES ASSUME NEW p \in Payments, Booked(p)'
               PROVE  CapturedFor(p)'
    BY DEF LedgerBacked
  <1>1. Booked(p) \/ CapturedFor(p)
    BY StepShape DEF Books, Booked, payVars
  <1>2. CapturedFor(p)
    BY <1>1 DEF LedgerBacked
  <1>3. QED  BY <1>2, CapturedStays

LEMMA SucceededStep ==
  ASSUME PaymentsTypeOK, RefInv, SucceededIsBooked, [PayNext]_paymentsVars
  PROVE  SucceededIsBooked'
  <1> SUFFICES ASSUME NEW p \in Payments, pay'[p].status = "succeeded"
               PROVE  Booked(p)'
    BY DEF SucceededIsBooked
  <1>1. CASE Booked(p)
    BY <1>1, BookedStays
  <1>2. CASE ~ Booked(p)
    <2>1. pay[p].status # "succeeded"
      BY <1>2 DEF SucceededIsBooked
    <2> USE DEF PaymentsTypeOK, PayTypeOK
    <2>2. ASSUME NEW c \in PayCalls, PayOrderFinalize(c)
          PROVE  Booked(p)'
      <3>1. call[c].pay = p /\ call[c].status = "succeeded"
        BY <2>1, <2>2 DEF PayOrderFinalize, RowAfter
      <3>2. ledger' = [ledger EXCEPT ![p] = @ + 1]
        BY <2>2, <3>1 DEF PayOrderFinalize
      <3>3. QED  BY <3>2 DEF Booked
    <2>3. ASSUME NEW e \in PayEvent, HandlePaymentEvent(e)
          PROVE  Booked(p)'
      <3>1. PICK q \in Payments : ApplyPaymentSucceeded(q) \/ ApplyPaymentFailed(q)
        BY <2>3 DEF HandlePaymentEvent
      <3>2. q = p /\ ledger' = EnsureEntry(p)
        BY <2>1, <3>1 DEF ApplyPaymentSucceeded, ApplyPaymentFailed
      <3>3. QED  BY <3>2 DEF Booked, EnsureEntry
    <2>4. ASSUME NEW c \in PayCalls, NEW q \in Payments, PayOrderBegin(c, q)
          PROVE  pay'[p].status # "succeeded"
      BY <2>1, <2>4 DEF PayOrderBegin
    <2>5. QED
      BY <2>1, <2>2, <2>3, <2>4
      DEF PayNext, PayOrderStep, CreatePayment, PayOrderAbort, CaptureCharge,
          DeclineCharge, paymentsVars, payVars
  <1>3. QED  BY <1>1, <1>2

LEMMA MatchStep ==
  ASSUME PaymentsTypeOK, RefInv, OrderMatchesLedger, [PayNext]_paymentsVars
  PROVE  OrderMatchesLedger'
  <1> USE OrderOfType DEF PaymentsTypeOK, OrderTypeOK
  <1>1. CASE UNCHANGED <<status, audit, ledger>>
    BY <1>1 DEF OrderMatchesLedger, Booked
  <1>2. ASSUME NEW p \in Payments, Books(p)
        PROVE  OrderMatchesLedger'
    <2> SUFFICES ASSUME NEW o \in Orders
                 PROVE  LET bookedFor == \E q \in Payments : OrderOf[q] = o /\ Booked(q)
                        IN  /\ status'[o] \in Settled => bookedFor'
                            /\ bookedFor' => status'[o] # "created"
      BY DEF OrderMatchesLedger
    <2>1. CASE o = OrderOf[p]
      BY <1>2, <2>1 DEF Books, MarkPaid
    <2>2. CASE o # OrderOf[p]
      <3>1. status'[o] = status[o]
        BY <1>2, <2>2 DEF Books, MarkPaid
      <3>2. \A q \in Payments : OrderOf[q] = o => (Booked(q)' <=> Booked(q))
        BY <1>2, <2>2 DEF Books, Booked
      <3>3. QED  BY <3>1, <3>2 DEF OrderMatchesLedger
    <2>3. QED  BY <2>1, <2>2
  <1>3. ASSUME NEW o \in Orders, NEW a \in AdminAction, Transition(o, a),
               UNCHANGED payVars
        PROVE  OrderMatchesLedger'
    <2>1. /\ \A q \in Orders \ {o} : status'[q] = status[q]
          /\ status'[o] \in Settled <=> status[o] \in Settled
          /\ status'[o] # "created"
          /\ status[o] = "created" => status'[o] = "cancelled"
      BY <1>3 DEF Transition, NextStatus, AdminAction, Settled, OrderStatus
    <2>2. \A q \in Payments : Booked(q)' <=> Booked(q)
      BY <1>3 DEF payVars, Booked
    <2>3. QED  BY <2>1, <2>2 DEF OrderMatchesLedger
  <1>4. QED  BY <1>1, <1>2, <1>3, StepShape

LEMMA PayInvInit == OrderInit /\ PayInit => PayInv
  <1> SUFFICES ASSUME OrderInit, PayInit  PROVE PayInv
    OBVIOUS
  <1>1. PaymentsTypeOK
    BY PayInitType
  <1>2. RefInv
    BY DEF PayInit, RefInv, UnusedIsFree, CallHoldsOwn, RowHoldsOwn, NewsIsTrue, IdleCall
  <1>3. LedgerBacked /\ SucceededIsBooked
    BY DEF PayInit, LedgerBacked, SucceededIsBooked, Booked
  <1>4. /\ \A p \in Payments : ~ Booked(p)
        /\ \A o \in Orders : status[o] = "created" /\ status[o] \notin Settled
    BY DEF OrderInit, PayInit, Settled, Booked
  <1>5. OrderMatchesLedger
    BY <1>4 DEF OrderMatchesLedger
  <1>6. QED  BY <1>1, <1>2, <1>3, <1>5 DEF PayInv

LEMMA PayInvStep == PayInv /\ [PayNext]_paymentsVars => PayInv'
  BY PayStepType, RefStep, BackedStep, SucceededStep, MatchStep DEF PayInv

LEMMA PayInvariant == PaySpec => []PayInv
  BY PayInvInit, PayInvStep, PTL DEF PaySpec, PaymentsInit

(* Every booked payment is backed by a charge that the provider captured   *)
(* for that payment: PayOrder, retries of a key and late events never book *)
(* money that belongs to another payment or to nobody.                     *)
THEOREM LedgerIsBacked == PaySpec => []LedgerBacked
  BY PayInvariant, PTL DEF PayInv

(* A payment row that says succeeded has its payment_succeeded ledger row. *)
THEOREM SucceededRowsAreBooked == PaySpec => []SucceededIsBooked
  BY PayInvariant, PTL DEF PayInv

(* An order is settled exactly with a booked payment or cancelled: PayOrder *)
(* and the webhook keep orders and financial_entries in agreement.         *)
THEOREM OrdersMatchLedger == PaySpec => []OrderMatchesLedger
  BY PayInvariant, PTL DEF PayInv
-----------------------------------------------------------------------------
(* With a provider that never answers "succeeded", no call books money.    *)
OnceInv ==
  "succeeded" \notin PayOutcomes => /\ \A c \in PayCalls : call[c].status # "succeeded"
                                    /\ \A p \in Payments : ledger[p] <= 1

(* The two facts that BookedOnce, and RefundsProofs, need of it.           *)
LEMMA PayOnceInit == PayInit => OnceInv
  BY DEF PayInit, OnceInv, IdleCall

LEMMA PayOnceStep == PaymentsTypeOK /\ OnceInv /\ [PayNext]_paymentsVars => OnceInv'
  <1> SUFFICES ASSUME PaymentsTypeOK, OnceInv, [PayNext]_paymentsVars,
                      "succeeded" \notin PayOutcomes
               PROVE  /\ \A c \in PayCalls : call'[c].status # "succeeded"
                      /\ \A p \in Payments : ledger'[p] <= 1
    BY DEF OnceInv
  <1> USE DEF PaymentsTypeOK, PayTypeOK
  <1>1. \A c \in PayCalls : call[c].status # "succeeded"
    BY DEF OnceInv
  <1>2. \A c \in PayCalls : call'[c].status # "succeeded"
    BY <1>1
    DEF PayNext, PayOrderStep, PayOrderBegin, CreatePayment, NewCharge, AnsweredCall,
        AskingCall, IdleCall, PayOrderFinalize, PayOrderAbort, CaptureCharge,
        DeclineCharge, HandlePaymentEvent, paymentsVars, payVars
  <1>3. ledger' = ledger \/ \E p \in Payments : ledger' = EnsureEntry(p)
    BY <1>1
    DEF PayNext, PayOrderStep, PayOrderBegin, CreatePayment, PayOrderFinalize,
        PayOrderAbort, CaptureCharge, DeclineCharge, HandlePaymentEvent,
        ApplyPaymentSucceeded, ApplyPaymentFailed, paymentsVars, payVars
  <1>4. \A p \in Payments : ledger'[p] <= 1
    BY <1>3 DEF OnceInv, EnsureEntry
  <1>5. QED  BY <1>2, <1>4

(* A payment is booked at most once when only webhooks finalize payments.  *)
THEOREM BookedOnce == PaySpec => []LedgerOnce
  BY PayOnceInit, PayOnceStep, PaymentsTypeCorrect, PTL
  DEF PaySpec, PaymentsInit, OnceInv, LedgerOnce
-----------------------------------------------------------------------------
(* Orders move along Moves only, whichever of PayOrder, the webhook and an *)
(* admin gets to the row first.                                            *)
THEOREM StatusMovesForward == PaySpec => StatusMoves
  <1>1. PayInv /\ [PayNext]_paymentsVars
          => [\A o \in Orders : status'[o] # status[o]
                                  => <<status[o], status'[o]>> \in Moves]_orderVars
    <2> SUFFICES ASSUME PayInv, [PayNext]_paymentsVars, NEW o \in Orders,
                        status'[o] # status[o]
                 PROVE  <<status[o], status'[o]>> \in Moves
      OBVIOUS
    <2> USE OrderOfType DEF PayInv, PaymentsTypeOK, OrderTypeOK
    <2>1. ASSUME NEW p \in Payments, Books(p)
          PROVE  <<status[o], status'[o]>> \in Moves
      <3>1. status[o] = "created" /\ status'[o] = "paid"
        BY <2>1 DEF Books, MarkPaid
      <3>2. QED  BY <3>1 DEF Moves
    <2>2. ASSUME NEW q \in Orders, NEW a \in AdminAction, Transition(q, a)
          PROVE  <<status[o], status'[o]>> \in Moves
      <3>1. <<a, status[o], status'[o]>> \in NextStatus
        BY <2>2 DEF Transition
      <3>2. QED  BY <3>1 DEF NextStatus, AdminAction, Moves
    <2>3. QED  BY <2>1, <2>2, StepShape
  <1>2. QED  BY <1>1, PayInvariant, PTL DEF PaySpec, PaymentsInit, StatusMoves

(* What the audit rows say of an order limits where it can be now.         *)
AuditInv ==
  /\ AuditTrail
  /\ \A o \in Orders : /\ Recorded(o, "cancel") => status[o] = "cancelled"
                       /\ ShipRecorded(o) => status[o] \in Settled

(* It holds at first, and every step of payments and admins keeps it.      *)
LEMMA AuditInit == OrderInit => AuditInv
  BY DEF OrderInit, AuditInv, AuditTrail, ShipRecorded, Recorded

LEMMA AuditStep == PayInv /\ AuditInv /\ [PayNext]_paymentsVars => AuditInv'
  <1> SUFFICES ASSUME PayInv, AuditInv, [PayNext]_paymentsVars
               PROVE  AuditInv'
    OBVIOUS
  <1> USE OrderOfType DEF PayInv, PaymentsTypeOK, OrderTypeOK
  <1>1. CASE UNCHANGED <<status, audit, ledger>>
    BY <1>1 DEF AuditInv, AuditTrail, ShipRecorded, Recorded
  <1>2. ASSUME NEW p \in Payments, Books(p)
        PROVE  AuditInv'
    <2>1. /\ audit' = audit
          /\ \A o \in Orders : \/ status'[o] = status[o]
                               \/ status[o] = "created" /\ status'[o] = "paid"
      BY <1>2 DEF Books, MarkPaid
    <2>2. QED
      BY <2>1 DEF AuditInv, AuditTrail, ShipRecorded, Recorded, Settled, OrderStatus
  <1>3. ASSUME NEW o \in Orders, NEW a \in AdminAction, Transition(o, a)
        PROVE  AuditInv'
    <2>1. /\ \A q \in Orders \ {o} : status'[q] = status[q]
          /\ <<a, status[o], status'[o]>> \in NextStatus
      BY <1>3 DEF Transition
    <2>2. \A q \in Orders, b \in AdminAction \cup {"ship_manual"} :
            Recorded(q, b)' <=> Recorded(q, b) \/ (q = o /\ b = a)
      <3>1. PICK to : audit' = audit \cup {[order |-> o, action |-> a,
                                            from |-> status[o], to |-> to]}
        BY <1>3, Zenon DEF Transition
      <3>2. PICK row : row = [order |-> o, action |-> a, from |-> status[o], to |-> to]
        OBVIOUS
      <3>3. row.order = o /\ row.action = a
        BY <3>2
      <3>4. QED  BY <3>1, <3>2, <3>3, Zenon DEF Recorded
    <2>3. QED
      BY <2>1, <2>2
      DEF AuditInv, AuditTrail, ShipRecorded, NextStatus, AdminAction, Settled,
          OrderStatus
  <1>4. QED  BY <1>1, <1>2, <1>3, StepShape

(* The order_events rows tell the truth about shipping and cancelling.     *)
THEOREM AuditIsTrue == PaySpec => []AuditTrail
  BY AuditInit, AuditStep, PayInvariant, PTL DEF PaySpec, PaymentsInit, AuditInv
-----------------------------------------------------------------------------
(* What the promise sees of a state of Payments.                           *)
CapturedSet == {p \in Payments : CapturedFor(p)}
BookedSet == {p \in Payments : Booked(p)}
StateOf == [o \in Orders |-> CASE status[o] = "created" -> "open"
                               [] status[o] = "cancelled" -> "cancelled"
                               [] status[o] \in Settled -> "settled"]

(* At most one payment becomes captured by a step, and then nothing else   *)
(* that the promise can see changes.                                       *)
LEMMA CaptureShape ==
  ASSUME PaymentsTypeOK, [PayNext]_paymentsVars
  PROVE  \/ CapturedSet' = CapturedSet
         \/ /\ \E p \in Payments : CapturedSet' = CapturedSet \cup {p}
            /\ UNCHANGED <<status, ledger>>
  <1> USE DEF PaymentsTypeOK, PayTypeOK
  <1>1. ASSUME NEW r \in PayRefs, charge[r].state # "captured",
               \A x \in PayRefs \ {r} : charge'[x] = charge[x]
        PROVE  \/ CapturedSet' = CapturedSet
               \/ \E p \in Payments : CapturedSet' = CapturedSet \cup {p}
    <2>1. CASE charge'[r].state = "captured"
      <3>1. PICK p : p = charge'[r].for
        OBVIOUS
      <3>2. \A q \in Payments : CapturedFor(q)' <=> CapturedFor(q) \/ q = p
        BY <1>1, <2>1, <3>1 DEF CapturedFor
      <3>3. CASE p \in Payments
        <4>1. CapturedSet' = CapturedSet \cup {p}
          BY <3>2, <3>3 DEF CapturedSet
        <4>2. QED  BY <3>3, <4>1
      <3>4. CASE p \notin Payments
        BY <3>2, <3>4 DEF CapturedSet
      <3>5. QED  BY <3>3, <3>4
    <2>2. CASE charge'[r].state # "captured"
      <3>1. \A q \in Payments : CapturedFor(q)' <=> CapturedFor(q)
        BY <1>1, <2>2 DEF CapturedFor
      <3>2. QED  BY <3>1 DEF CapturedSet
    <2>3. QED  BY <2>1, <2>2
  <1>2. CASE charge' = charge
    BY <1>2 DEF CapturedSet, CapturedFor
  <1>3. CASE charge' # charge
    <2>1. UNCHANGED <<status, ledger>>
      BY <1>3 DEF PayNext, PayOrderStep, PayOrderBegin, CreatePayment, PayOrderFinalize,
                  PayOrderAbort, CaptureCharge, DeclineCharge, HandlePaymentEvent,
                  paymentsVars, payVars, orderVars
    <2>2. PICK r \in PayRefs : /\ charge[r].state # "captured"
                               /\ \A x \in PayRefs \ {r} : charge'[x] = charge[x]
      BY <1>3 DEF PayNext, PayOrderStep, PayOrderBegin, CreatePayment, NewCharge,
                  PayOrderFinalize, PayOrderAbort, CaptureCharge, DeclineCharge,
                  HandlePaymentEvent, paymentsVars, payVars
    <2>3. QED  BY <1>1, <2>1, <2>2
  <1>4. QED  BY <1>2, <1>3

(* Nothing has happened yet.                                               *)
LEMMA SettlementStarts == OrderInit /\ PayInit => Promise!SettlementInit
  <1> SUFFICES ASSUME OrderInit, PayInit  PROVE Promise!SettlementInit
    OBVIOUS
  <1>1. \A p \in Payments : ~ CapturedFor(p) /\ ~ Booked(p)
    BY DEF PayInit, CapturedFor, Booked
  <1>2. StateOf = [o \in Orders |-> "open"]
    BY DEF OrderInit, StateOf, Settled
  <1>3. QED  BY <1>1, <1>2 DEF Promise!SettlementInit, StateOf

(* Every step captures, books or cancels, or is a stutter of Settlement.   *)
LEMMA SettlementStep ==
  PayInv /\ [PayNext]_paymentsVars => [Promise!SettlementNext]_(Promise!settlementVars)
  <1> SUFFICES ASSUME PayInv, [PayNext]_paymentsVars
               PROVE  \/ Promise!SettlementNext
                      \/ UNCHANGED <<CapturedSet, BookedSet, StateOf>>
    BY DEF Promise!settlementVars, CapturedSet, BookedSet, StateOf
  <1> USE OrderOfType DEF PayInv, PaymentsTypeOK, OrderTypeOK
  <1>1. CASE UNCHANGED <<status, audit, ledger>>
    <2>1. UNCHANGED <<BookedSet, StateOf>>
      BY <1>1 DEF BookedSet, StateOf, Booked
    <2>2. CASE \E p \in Payments : CapturedSet' = CapturedSet \cup {p}
      BY <2>1, <2>2 DEF Promise!SettlementNext, Promise!Capture, CapturedSet,
                        BookedSet, StateOf
    <2>3. QED  BY <2>1, <2>2, CaptureShape
  <1>2. ASSUME NEW p \in Payments, Books(p)
        PROVE  Promise!Book(p)
    <2>1. CapturedSet' = CapturedSet /\ p \in CapturedSet
      BY <1>2 DEF Books, CapturedSet, CapturedFor
    <2>2. BookedSet' = BookedSet \cup {p}
      BY <1>2 DEF Books, BookedSet, Booked
    <2>3. StateOf' = [StateOf EXCEPT ![OrderOf[p]] = IF @ = "open" THEN "settled" ELSE @]
      <3>1. \A o \in Orders : status[o] \in OrderStatus
        OBVIOUS
      <3>2. status' = MarkPaid(OrderOf[p]) /\ OrderOf[p] \in Orders
        BY <1>2 DEF Books
      <3>3. QED  BY <3>1, <3>2 DEF StateOf, MarkPaid, Settled, OrderStatus
    <2>4. QED  BY <2>1, <2>2, <2>3 DEF Promise!Book, CapturedSet, BookedSet, StateOf
  <1>3. ASSUME NEW o \in Orders, NEW a \in AdminAction, Transition(o, a),
               UNCHANGED payVars
        PROVE  Promise!Cancel(o) \/ UNCHANGED <<CapturedSet, BookedSet, StateOf>>
    <2>1. UNCHANGED <<CapturedSet, BookedSet>>
      BY <1>3 DEF payVars, CapturedSet, BookedSet, CapturedFor, Booked
    <2>2. PICK to : /\ <<a, status[o], to>> \in NextStatus
                    /\ status' = [status EXCEPT ![o] = to]
      BY <1>3 DEF Transition
    <2>3. CASE a = "cancel"
      <3>1. status[o] = "created" /\ to = "cancelled"
        BY <2>2, <2>3 DEF NextStatus
      <3>2. StateOf[o] = "open" /\ StateOf' = [StateOf EXCEPT ![o] = "cancelled"]
        BY <2>2, <3>1 DEF StateOf, Settled, OrderStatus
      <3>3. QED  BY <2>1, <3>2 DEF Promise!Cancel, CapturedSet, BookedSet, StateOf
    <2>4. CASE a # "cancel"
      <3>1. status[o] \in Settled /\ to \in Settled
        BY <2>2, <2>4 DEF NextStatus, AdminAction, Settled, OrderStatus
      <3>2. UNCHANGED StateOf
        BY <2>2, <3>1 DEF StateOf, Settled, OrderStatus
      <3>3. QED  BY <2>1, <3>2
    <2>5. QED  BY <2>3, <2>4
  <1>4. QED
    BY <1>1, <1>2, <1>3, StepShape DEF Promise!SettlementNext

(* PayOrder, the webhook and the back office together implement the        *)
(* promise of Settlement: every step captures, books or cancels, or does   *)
(* nothing that the promise can see.                                       *)
THEOREM PaymentsImplementSettlement == PaySpec => ImplementsSettlement
  BY SettlementStarts, SettlementStep, PayInvariant, PTL
  DEF PaySpec, PaymentsInit, ImplementsSettlement, Promise!SettlementSpec
=============================================================================
