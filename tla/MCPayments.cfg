\* One order, two idempotency keys, two concurrent requests and three charges,
\* any answer of the provider, calls that can die at any point.
SPECIFICATION PaySpec
CONSTANTS
  Orders = {o1}
  Total = 1
  PayKeys = {k1, k2}
  PayCalls = {c1, c2}
  PayRefs = {r1, r2, r3}
  PayOutcomes = {"initiated", "succeeded", "other", "error"}
  EventIds = {e1}
  NoPayment = NoPayment
  NoRef = NoRef
  MayAbort = TRUE
SYMMETRY Symmetry
INVARIANTS
  PaymentsTypeOK
  OrderMatchesLedger
  LedgerBacked
  SucceededIsBooked
PROPERTIES
  ImplementsSettlement
CHECK_DEADLOCK FALSE
