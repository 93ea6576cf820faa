\* The shop as deployed, two requests for all that is left: is more given back
\* than was paid?
SPECIFICATION Spec
CONSTANTS
  Orders = {o1}
  Total = 2
  PayKeys = {k1}
  PayCalls = {c1}
  PayRefs = {r1}
  PayOutcomes = {"initiated"}
  EventIds = {e1}
  NoPayment = NoPayment
  NoRef = NoRef
  MayAbort = FALSE
  RefundKeys = {q1, q2}
  RefundCalls = {d1}
  RefundRefs = {x1, x2}
  RefundOutcomes = {"initiated"}
  RequestAmounts = {0}
  RefundEventIds = {f1}
  MaxTries = 2
  MaxRequests = 4
  NoRefund = NoRefund
INVARIANT
  NoOverRefund
CHECK_DEADLOCK FALSE
