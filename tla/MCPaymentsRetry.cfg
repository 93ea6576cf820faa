\* A retry of one payment with the same key, nothing dies, every event is
\* delivered in the end: is a charge that was captured always finalized?
SPECIFICATION FairPaySpec
CONSTANTS
  Orders = {o1}
  Total = 1
  PayKeys = {k1}
  PayCalls = {c1, c2}
  PayRefs = {r1, r2}
  PayOutcomes = {"initiated"}
  EventIds = {e1}
  NoPayment = NoPayment
  NoRef = NoRef
  MayAbort = FALSE
PROPERTY
  WebhookFinalizes
CHECK_DEADLOCK FALSE
