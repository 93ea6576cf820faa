------------------------------- MODULE Outbox -------------------------------
(***************************************************************************)
(* The outboxes of mails (internal/modules/email) and text messages        *)
(* (internal/sms).  The shop inserts a row in the transaction of the       *)
(* business step; workers lock batches of rows, hand each message to the   *)
(* mail server or the SMS provider and mark the row.  Both the web server  *)
(* and the worker process run a mail worker.                               *)
(*                                                                         *)
(* A send that answers with an error may have delivered the message all    *)
(* the same (the last SMTP reply is lost), and there is no lease: a row    *)
(* whose worker stops stays in processing.  Every mail the shop inserts    *)
(* can be rendered, so the render error of processOne is left out.         *)
(***************************************************************************)
EXTENDS Naturals, FiniteSets

CONSTANTS
  Mails,         \* ids of email_outbox
  Texts,         \* ids of sms_outbox
  MailWorkers,
  TextWorkers,
  MaxAttempts,   \* 8 in the code, for both
  BatchLimit,    \* 10 in the code, for both
  MaxFaults,     \* bound: stopped workers and failed writes
  NoMessage,     \* what a worker with no answer in hand is at
  NoWorker       \* locked_by of a row that is not locked

Messages == Mails \cup Texts
Workers == MailWorkers \cup TextWorkers

ASSUME OutboxAssumption ==
  /\ MaxAttempts \in Nat \ {0} /\ BatchLimit \in Nat /\ MaxFaults \in Nat
  /\ IsFiniteSet(Messages)
  /\ Mails \cap Texts = {} /\ MailWorkers \cap TextWorkers = {}
  /\ NoMessage \notin Messages /\ NoWorker \notin Workers

VARIABLES
  row,         \* the outbox rows: status ("none": no row), attempt_count, locked_by
  sender,      \* the workers: rows of the batch still to do, the one at hand
  delivered,   \* times a message has reached its recipient
  answered,    \* history: messages a worker was told are sent
  faults       \* history: stopped workers and failed writes so far

outboxVars == <<row, sender, delivered, answered, faults>>
-----------------------------------------------------------------------------
Row(st, n, w) == [status |-> st, attempts |-> n, by |-> w]

IdleSender == [pc |-> "idle", todo |-> {}, at |-> NoMessage]
BusySender(batch) == [pc |-> "busy", todo |-> batch, at |-> NoMessage]
SenderAt(pc, batch, m) == [pc |-> pc, todo |-> batch, at |-> m]

Rows == [status : {"none", "pending", "processing", "sent", "failed"},
         attempts : 0 .. MaxAttempts,
         by : Workers \cup {NoWorker}]
Senders == [pc : {"idle", "busy", "accepted", "refused"},
            todo : SUBSET Messages,
            at : Messages \cup {NoMessage}]

OutboxTypeOK ==
  /\ row \in [Messages -> Rows]
  /\ sender \in [Workers -> Senders]
  /\ delivered \in [Messages -> 0 .. MaxAttempts]
  /\ answered \subseteq Messages
  /\ faults \in 0 .. MaxFaults

OutboxInit ==
  /\ row = [m \in Messages |-> Row("none", 0, NoWorker)]
  /\ sender = [w \in Workers |-> IdleSender]
  /\ delivered = [m \in Messages |-> 0]
  /\ answered = {}
  /\ faults = 0

(* The table a worker reads.                                               *)
Outgoing(w) == IF w \in MailWorkers THEN Mails ELSE Texts
-----------------------------------------------------------------------------
Enqueue(m) ==
  /\ row[m].status = "none"
  /\ row' = [row EXCEPT ![m] = Row("pending", 0, NoWorker)]
  /\ UNCHANGED <<sender, delivered, answered, faults>>

(* A faulty LockBatch whose rows stay pending.                             *)
LockBatchUnmarked(w, batch) ==
  /\ sender[w].pc = "idle"
  /\ batch # {} /\ Cardinality(batch) <= BatchLimit
  /\ \A m \in batch : row[m].status = "pending"
  /\ sender' = [sender EXCEPT ![w] = BusySender(batch)]
  /\ UNCHANGED <<row, delivered, answered, faults>>

(* LockBatch, FetchAndLock: SELECT ... FOR UPDATE SKIP LOCKED and UPDATE   *)
(* in one transaction.  Any of the pending rows may not be due yet.        *)
LockBatch(w, batch) ==
  /\ sender[w].pc = "idle"
  /\ batch # {} /\ Cardinality(batch) <= BatchLimit
  /\ \A m \in batch : row[m].status = "pending"
  /\ row' = [m \in Messages |-> IF m \in batch
                                THEN Row("processing", row[m].attempts, w)
                                ELSE row[m]]
  /\ sender' = [sender EXCEPT ![w] = BusySender(batch)]
  /\ UNCHANGED <<delivered, answered, faults>>

(* A faulty Deliver: text messages are sent with no idempotency key.       *)
DeliverAgain(m) == [delivered EXCEPT ![m] = @ + 1]

(* The message reaches its recipient.  Every attempt at a text message     *)
(* carries the same idempotency key, so the provider sends it once.        *)
Deliver(m) ==
  IF m \in Texts /\ delivered[m] > 0
  THEN delivered
  ELSE [delivered EXCEPT ![m] = @ + 1]

(* Sender.Send, SMSProvider.Send: success, or an error that tells nothing  *)
(* of whether the message has been delivered.                              *)
SendAccepted(w, m) ==
  /\ sender[w].pc = "busy" /\ m \in sender[w].todo
  /\ delivered' = Deliver(m)
  /\ answered' = answered \cup {m}
  /\ sender' = [sender EXCEPT ![w] = SenderAt("accepted", sender[w].todo, m)]
  /\ UNCHANGED <<row, faults>>

SendRefused(w, m) ==
  /\ sender[w].pc = "busy" /\ m \in sender[w].todo
  /\ delivered' \in {delivered, Deliver(m)}
  /\ sender' = [sender EXCEPT ![w] = SenderAt("refused", sender[w].todo, m)]
  /\ UNCHANGED <<row, answered, faults>>

(* The worker is through with the message at hand and turns to the next.   *)
Through(w, m) ==
  LET rest == sender[w].todo \ {m}
  IN  [sender EXCEPT ![w] = IF rest = {} THEN IdleSender ELSE BusySender(rest)]
-----------------------------------------------------------------------------
MarkSent(w) ==
  LET m == sender[w].at
  IN  /\ sender[w].pc = "accepted"
      /\ row' = [row EXCEPT ![m] = Row("sent", row[m].attempts, NoWorker)]
      /\ sender' = Through(w, m)
      /\ UNCHANGED <<delivered, answered, faults>>

(* Two faulty variants of LastAttempt, off by one.                         *)
LastAttemptEarly(m) == row[m].attempts + 2 >= MaxAttempts
LastAttemptLate(m) == row[m].attempts >= MaxAttempts

(* attemptNum >= maxSendAttempts.  The worker compares the copy LockBatch  *)
(* returned, which nobody changes while the row is locked.                 *)
LastAttempt(m) == row[m].attempts + 1 >= MaxAttempts

(* A faulty MarkRetry that does not count the attempt.                     *)
MarkRetryUncounted(w) ==
  LET m == sender[w].at
  IN  /\ sender[w].pc = "refused"
      /\ ~ LastAttempt(m)
      /\ row' = [row EXCEPT ![m] = Row("pending", row[m].attempts, NoWorker)]
      /\ sender' = Through(w, m)
      /\ UNCHANGED <<delivered, answered, faults>>

MarkRetry(w) ==
  LET m == sender[w].at
  IN  /\ sender[w].pc = "refused"
      /\ ~ LastAttempt(m)
      /\ row' = [row EXCEPT ![m] = Row("pending", row[m].attempts + 1, NoWorker)]
      /\ sender' = Through(w, m)
      /\ UNCHANGED <<delivered, answered, faults>>

MarkFailed(w) ==
  LET m == sender[w].at
  IN  /\ sender[w].pc = "refused"
      /\ LastAttempt(m)
      /\ row' = [row EXCEPT ![m] = Row("failed", row[m].attempts + 1, NoWorker)]
      /\ sender' = Through(w, m)
      /\ UNCHANGED <<delivered, answered, faults>>

(* The UPDATE that marks a row fails and is only logged, or the worker     *)
(* stops with all of its batch.                                            *)
Fault(w) ==
  /\ faults < MaxFaults
  /\ sender[w].pc # "idle"
  /\ \/ sender[w].pc \in {"accepted", "refused"} /\ sender' = Through(w, sender[w].at)
     \/ sender' = [sender EXCEPT ![w] = IdleSender]
  /\ faults' = faults + 1
  /\ UNCHANGED <<row, delivered, answered>>
-----------------------------------------------------------------------------
Tick(w) ==
  \/ \E batch \in SUBSET Outgoing(w) : LockBatch(w, batch)
  \/ \E m \in Messages : SendAccepted(w, m) \/ SendRefused(w, m)
  \/ MarkSent(w) \/ MarkRetry(w) \/ MarkFailed(w)

OutboxNext ==
  \/ \E m \in Messages : Enqueue(m)
  \/ \E w \in Workers : Tick(w) \/ Fault(w)

OutboxSpec == OutboxInit /\ [][OutboxNext]_outboxVars

(* The ticker keeps calling tick, and a batch that was locked is worked on.*)
FairOutboxSpec == OutboxSpec /\ \A w \in Workers : WF_outboxVars(Tick(w))
-----------------------------------------------------------------------------
Held(m) == \E w \in Workers : m \in sender[w].todo
Orphaned(m) == row[m].status = "processing" /\ ~ Held(m)

(* Whatever batches the workers lock, put back and lose, no two of them    *)
(* have the same message in hand, what they have is marked as theirs, and  *)
(* with no stop and no failed write no row is left in processing.          *)
OneSenderPerMessage ==
  /\ \A w \in Workers : \A m \in sender[w].todo :
       /\ row[m].status = "processing" /\ row[m].by = w
       /\ m \in Outgoing(w)
       /\ \A v \in Workers \ {w} : m \notin sender[v].todo
  /\ faults = 0 => \A m \in Messages : ~ Orphaned(m)

(* A message is delivered once, unless an error hid a delivery: each       *)
(* delivery but one is an attempt on the row, through any crash.  A text   *)
(* message is never delivered twice.  A row says sent of what a sender has *)
(* acknowledged and failed of what it has refused MaxAttempts times.       *)
DeliveriesCounted ==
  \A m \in Messages :
    /\ delivered[m] <= row[m].attempts
                         + (IF row[m].status \in {"processing", "sent"} THEN 1 ELSE 0)
    /\ m \in Texts => delivered[m] <= 1
    /\ m \in answered => delivered[m] > 0 /\ row[m].status \in {"processing", "sent"}
    /\ row[m].status = "sent" => m \in answered
    /\ row[m].status = "failed" => row[m].attempts = MaxAttempts

(* Every message is sent or given up in the end, or orphaned.              *)
MessagesSettle ==
  \A m \in Messages :
    row[m].status = "pending" ~> (row[m].status \in {"sent", "failed"} \/ Orphaned(m))

QueueState == [none |-> "absent", pending |-> "waiting", processing |-> "taken",
               sent |-> "done", failed |-> "given up"]

MessageState == [m \in Messages |-> QueueState[row[m].status]]
LockedBy == [m \in Messages |-> row[m].by]
Attempts == [m \in Messages |-> row[m].attempts]

(* The outboxes implement the same abstract queue as the label jobs.       *)
Queue == INSTANCE JobQueue WITH
  Jobs     <- Messages,
  state    <- MessageState,
  holder   <- LockedBy,
  worked   <- answered,
  attempts <- Attempts

ImplementsJobQueue == Queue!QueueSpec
=============================================================================
