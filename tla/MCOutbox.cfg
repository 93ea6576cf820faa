\* Two mails and a text message, a mail worker in each of the two processes
\* and one worker for texts, batches of up to two, two attempts for a message
\* and one stopped worker or failed write.
SPECIFICATION FairOutboxSpec
CONSTANTS
  Mails = {m1, m2}
  Texts = {t1}
  MailWorkers = {w1, w2}
  TextWorkers = {v1}
  MaxAttempts = 2
  BatchLimit = 2
  MaxFaults = 1
  NoMessage = NoMessage
  NoWorker = NoWorker
INVARIANTS
  OutboxTypeOK
  DeliveriesCounted
PROPERTIES
  MessagesSettle
  ImplementsJobQueue
CHECK_DEADLOCK FALSE
