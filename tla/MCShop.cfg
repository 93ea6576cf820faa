\* The shop as deployed: every answer of the provider is "initiated", webhooks
\* finalize and can come twice under two event ids, the admin form refunds all
\* that is left.  A payment is retried with its key; calls can die.  Liveness, so
\* no symmetry.
SPECIFICATION FairSpec
CONSTANTS
  Orders = {o1}
  Total = 2
  PayKeys = {k1}
  PayCalls = {c1}
  PayRefs = {r1, r2}
  PayOutcomes = {"initiated"}
  EventIds = {e1, e2}
  NoPayment = NoPayment
  NoRef = NoRef
  MayAbort = TRUE
  RefundKeys = {q1}
  RefundCalls = {d1}
  RefundRefs = {x1}
  RefundOutcomes = {"initiated"}
  RequestAmounts = {0}
  RefundEventIds = {f1}
  MaxTries = 2
  MaxRequests = 2
  NoRefund = NoRefund
INVARIANT
  LedgerOnce
PROPERTIES
  StoredRefGetsBooked
  StoredRefundGetsBooked
CHECK_DEADLOCK FALSE
