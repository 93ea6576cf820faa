\* One order, paid by one charge or not at all, refunded by one key in part or
\* whole, and shipped by label or by hand with one crash or failed write.
SPECIFICATION FulfilmentSpec
CONSTANTS
  Orders = {o1}
  Total = 2
  PayKeys = {k1}
  PayCalls = {c1}
  PayRefs = {r1}
  PayOutcomes = {"initiated", "succeeded"}
  EventIds = {e1}
  NoPayment = NoPayment
  NoRef = NoRef
  MayAbort = TRUE
  RefundKeys = {q1}
  RefundCalls = {d1}
  RefundRefs = {x1}
  RefundOutcomes = {"initiated", "succeeded", "failed", "error"}
  RequestAmounts = {0, 1}
  RefundEventIds = {f1}
  MaxTries = 2
  MaxRequests = 2
  NoRefund = NoRefund
  Shipments = {s1}
  Workers = {w1}
  MaxAttempts = 2
  BatchLimit = 1
  MaxFaults = 1
  NoOrder = NoOrder
  NoShipment = NoShipment
  NoWorker = NoWorker
INVARIANTS
  ParcelsArePaid
  RefundAgrees
PROPERTIES
  ImplementsShipping
CHECK_DEADLOCK FALSE
