\* One order paid at once, two refund keys, two concurrent refund
\* requests, two provider refunds, requests for all, a part or too much.
SPECIFICATION Spec
CONSTANTS
  Orders = {o1}
  Total = 2
  PayKeys = {k1}
  PayCalls = {c1}
  PayRefs = {r1}
  PayOutcomes = {"succeeded"}
  EventIds = {}
  NoPayment = NoPayment
  NoRef = NoRef
  MayAbort = TRUE
  RefundKeys = {q1, q2}
  RefundCalls = {d1, d2}
  RefundRefs = {x1, x2}
  RefundOutcomes = {"initiated", "succeeded", "failed", "error"}
  RequestAmounts = {0, 1, 3}
  RefundEventIds = {f1, f2}
  MaxTries = 2
  MaxRequests = 2
  NoRefund = NoRefund
SYMMETRY Symmetry
INVARIANTS
  TypeOK
  RefundAgrees
  RefundBacked
  RefundedMatchesLedger
PROPERTIES
  OrderSteps
CHECK_DEADLOCK FALSE
