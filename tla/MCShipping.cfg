\* One order, two shipments, two workers that lock up to two jobs at once,
\* two attempts for a job and one crash or failed write.
SPECIFICATION FairShippingSpec
CONSTANTS
  Orders = {o1}
  Total = 1
  Shipments = {s1, s2}
  Workers = {w1, w2}
  MaxAttempts = 2
  BatchLimit = 2
  MaxFaults = 1
  NoOrder = NoOrder
  NoShipment = NoShipment
  NoWorker = NoWorker
INVARIANTS
  ShippingTypeOK
  OneWorkerPerJob
  LabelBoughtOnce
  ShippedOnRecord
  OrphansExplained
  AuditTrail
PROPERTIES
  StatusMoves
  JobsSettle
  ImplementsJobQueue
CHECK_DEADLOCK FALSE
