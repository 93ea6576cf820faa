------------------------------ MODULE Shipping ------------------------------
(***************************************************************************)
(* Shipping (internal/modules/shipping): an admin queues a label job or    *)
(* enters a shipment by hand; workers, one in the web server and one in    *)
(* the worker process, lock batches of jobs, buy labels from the carrier   *)
(* and complete the shipments, while payments, refunds and admins change   *)
(* the orders.                                                             *)
(*                                                                         *)
(* QueueShipment and CreateManualShipment lock the order first and are one *)
(* action each.  completeShipment reads the order without a lock: the read *)
(* and the writes after it are two actions.                                *)
(***************************************************************************)
EXTENDS OrderAdmin, FiniteSets

CONSTANTS
  Shipments,     \* ids of shipments; at most one job each, identified with it
  Workers,
  MaxAttempts,   \* 8 in the code
  BatchLimit,    \* 5 in the code
  MaxFaults,     \* bound: crashes of a worker and failed writes
  NoOrder,       \* the order of a shipment that does not exist yet
  NoShipment,    \* what a worker that has no label in hand is at
  NoWorker       \* locked_by of a job that is not locked

ASSUME ShippingAssumption ==
  /\ MaxAttempts \in Nat \ {0} /\ BatchLimit \in Nat /\ MaxFaults \in Nat
  /\ IsFiniteSet(Shipments)
  /\ NoOrder \notin Orders /\ NoShipment \notin Shipments /\ NoWorker \notin Workers

VARIABLES
  shipment,   \* shipments: order_id and status ("none" before the row exists)
  job,        \* shipment_jobs: status ("none": no row), attempt_count, locked_by
  worker,     \* the workers: jobs of the batch still to do, the one at hand
  labels,     \* labels the carrier has acknowledged for a shipment
  mails,      \* "shipped" mails in the outbox for a shipment
  faults      \* history: crashes and failed writes so far

shipVars == <<shipment, job, worker, labels, mails, faults>>
shippingVars == <<orderVars, shipment, job, worker, labels, mails, faults>>
-----------------------------------------------------------------------------
JobRow(st, n, w) == [status |-> st, attempts |-> n, by |-> w]

IdleWorker == [pc |-> "idle", todo |-> {}, at |-> NoShipment, seen |-> "paid"]
BusyWorker(batch) == [pc |-> "busy", todo |-> batch, at |-> NoShipment, seen |-> "paid"]
WorkerAt(pc, batch, s, seen) == [pc |-> pc, todo |-> batch, at |-> s, seen |-> seen]

ShipmentRows == [order : Orders \cup {NoOrder},
                 status : {"none", "pending", "shipped", "failed"}]
JobRows == [status : {"none", "pending", "processing", "succeeded", "failed"},
            attempts : 0 .. MaxAttempts,
            by : Workers \cup {NoWorker}]
WorkerStates == [pc : {"idle", "busy", "labelled", "read"}, todo : SUBSET Shipments,
                 at : Shipments \cup {NoShipment}, seen : OrderStatus]

ShippingTypeOK ==
  /\ OrderTypeOK
  /\ shipment \in [Shipments -> ShipmentRows]
  /\ job \in [Shipments -> JobRows]
  /\ worker \in [Workers -> WorkerStates]
  /\ labels \in [Shipments -> Nat]
  /\ mails \in [Shipments -> Nat]
  /\ faults \in 0 .. MaxFaults

ShippingInit ==
  /\ OrderInit
  /\ shipment = [s \in Shipments |-> [order |-> NoOrder, status |-> "none"]]
  /\ job = [s \in Shipments |-> JobRow("none", 0, NoWorker)]
  /\ worker = [w \in Workers |-> IdleWorker]
  /\ labels = [s \in Shipments |-> 0]
  /\ mails = [s \in Shipments |-> 0]
  /\ faults = 0

(* isShippableStatus, and the statuses promoteOrderStatus accepts.         *)
Shippable == {"paid", "shipped"}

(* A faulty Promote: no status guard on the UPDATE.                        *)
PromoteUnguarded(o, seen) ==
  [status EXCEPT ![o] = IF seen = "paid" THEN "shipped" ELSE @]

(* promoteOrderStatus: an order that was read as paid becomes shipped, if  *)
(* it still is paid.                                                       *)
Promote(o, seen) ==
  [status EXCEPT ![o] = IF seen = "paid" /\ @ = "paid" THEN "shipped" ELSE @]

ShipRow(o, action, from, to) == [order |-> o, action |-> action, from |-> from, to |-> to]
-----------------------------------------------------------------------------
QueueShipment(s, o) ==
  /\ shipment[s].status = "none"
  /\ status[o] \in Shippable
  /\ shipment' = [shipment EXCEPT ![s] = [order |-> o, status |-> "pending"]]
  /\ job' = [job EXCEPT ![s] = JobRow("pending", 0, NoWorker)]
  /\ audit' = audit \cup {ShipRow(o, "shipment_queue", status[o], status[o])}
  /\ UNCHANGED <<status, refunded, worker, labels, mails, faults>>

(* The mail is best effort: no address or a failed insert is ignored.      *)
CreateManualShipment(s, o) ==
  /\ shipment[s].status = "none"
  /\ status[o] \in Shippable
  /\ shipment' = [shipment EXCEPT ![s] = [order |-> o, status |-> "shipped"]]
  /\ status' = Promote(o, status[o])
  /\ audit' = audit \cup {ShipRow(o, "ship_manual", status[o], "shipped")}
  /\ mails' \in {mails, [mails EXCEPT ![s] = 1]}
  /\ UNCHANGED <<refunded, job, worker, labels, faults>>
-----------------------------------------------------------------------------
(* A faulty LockJobBatch that leaves the rows pending.                     *)
LockJobBatchUnmarked(w, batch) ==
  /\ worker[w].pc = "idle"
  /\ batch # {} /\ Cardinality(batch) <= BatchLimit
  /\ \A s \in batch : job[s].status = "pending"
  /\ worker' = [worker EXCEPT ![w] = BusyWorker(batch)]
  /\ UNCHANGED <<orderVars, shipment, job, labels, mails, faults>>

(* SELECT ... FOR UPDATE SKIP LOCKED, UPDATE ... SET status = 'processing' *)
(* in one transaction.  Any of the pending jobs may not be due yet.        *)
LockJobBatch(w, batch) ==
  /\ worker[w].pc = "idle"
  /\ batch # {} /\ Cardinality(batch) <= BatchLimit
  /\ \A s \in batch : job[s].status = "pending"
  /\ job' = [s \in Shipments |-> IF s \in batch
                                 THEN JobRow("processing", job[s].attempts, w)
                                 ELSE job[s]]
  /\ worker' = [worker EXCEPT ![w] = BusyWorker(batch)]
  /\ UNCHANGED <<orderVars, shipment, labels, mails, faults>>

(* The worker is through with job s and turns to the next of its batch.    *)
Through(w, s) ==
  LET rest == worker[w].todo \ {s}
  IN  [worker EXCEPT ![w] = IF rest = {} THEN IdleWorker ELSE BusyWorker(rest)]

(* ProcessJob: the carrier acknowledges a label ...                        *)
CreateLabel(w, s) ==
  /\ worker[w].pc = "busy" /\ s \in worker[w].todo
  /\ labels' = [labels EXCEPT ![s] = @ + 1]
  /\ worker' = [worker EXCEPT ![w] = WorkerAt("labelled", worker[w].todo, s, "paid")]
  /\ UNCHANGED <<orderVars, shipment, job, mails, faults>>

(* Two faulty variants of LastAttempt, off by one.                         *)
LastAttemptEarly(s) == job[s].attempts + 2 >= MaxAttempts
LastAttemptLate(s) == job[s].attempts >= MaxAttempts

LastAttempt(s) == job[s].attempts + 1 >= MaxAttempts

(* A faulty RetryJob that does not count the attempt.                      *)
RetryJobUncounted(w, s) ==
  /\ worker[w].pc = "busy" /\ s \in worker[w].todo
  /\ ~ LastAttempt(s)
  /\ job' = [job EXCEPT ![s] = JobRow("pending", job[s].attempts, NoWorker)]
  /\ worker' = Through(w, s)
  /\ UNCHANGED <<orderVars, shipment, labels, mails, faults>>

(* A faulty RetryJob that leaves the job in processing.                    *)
RetryJobStuck(w, s) ==
  /\ worker[w].pc = "busy" /\ s \in worker[w].todo
  /\ ~ LastAttempt(s)
  /\ job' = [job EXCEPT ![s].attempts = @ + 1]
  /\ worker' = Through(w, s)
  /\ UNCHANGED <<orderVars, shipment, labels, mails, faults>>

(* ... or answers with an error, whatever it did: retryJob,                *)
RetryJob(w, s) ==
  /\ worker[w].pc = "busy" /\ s \in worker[w].todo
  /\ ~ LastAttempt(s)
  /\ job' = [job EXCEPT ![s] = JobRow("pending", job[s].attempts + 1, NoWorker)]
  /\ worker' = Through(w, s)
  /\ UNCHANGED <<orderVars, shipment, labels, mails, faults>>

(* and markJobFailed after the last attempt.                               *)
MarkJobFailed(w, s) ==
  /\ worker[w].pc = "busy" /\ s \in worker[w].todo
  /\ LastAttempt(s)
  /\ job' = [job EXCEPT ![s] = JobRow("failed", job[s].attempts + 1, NoWorker)]
  /\ shipment' = [shipment EXCEPT ![s].status = "failed"]
  /\ worker' = Through(w, s)
  /\ UNCHANGED <<orderVars, labels, mails, faults>>
-----------------------------------------------------------------------------
(* A faulty variant of the next action that puts the job back.             *)
ReadOrderRetrying(w) ==
  LET s == worker[w].at
      seen == status[shipment[s].order]
  IN  /\ worker[w].pc = "labelled"
      /\ IF seen \in Shippable
         THEN /\ worker' = [worker EXCEPT ![w] = WorkerAt("read", worker[w].todo, s, seen)]
              /\ UNCHANGED job
         ELSE /\ worker' = Through(w, s)
              /\ job' = [job EXCEPT ![s] = JobRow("pending", job[s].attempts, NoWorker)]
      /\ UNCHANGED <<orderVars, shipment, labels, mails, faults>>

(* completeShipment reads the order.  If it can no longer be shipped the   *)
(* transaction rolls back, and nothing touches the job again.              *)
ReadOrder(w) ==
  LET s == worker[w].at
      seen == status[shipment[s].order]
  IN  /\ worker[w].pc = "labelled"
      /\ worker' = IF seen \in Shippable
                   THEN [worker EXCEPT ![w] = WorkerAt("read", worker[w].todo, s, seen)]
                   ELSE Through(w, s)
      /\ UNCHANGED <<orderVars, shipment, job, labels, mails, faults>>

(* A faulty CompleteShipment that does not close the job.                  *)
CompleteShipmentOnly(w) ==
  LET s == worker[w].at
      o == shipment[s].order
      seen == worker[w].seen
  IN  /\ worker[w].pc = "read"
      /\ shipment' = [shipment EXCEPT ![s].status = "shipped"]
      /\ status' = Promote(o, seen)
      /\ audit' = audit \cup {ShipRow(o, "ship", seen, "shipped")}
      /\ job' = [job EXCEPT ![s] = JobRow("pending", job[s].attempts, NoWorker)]
      /\ mails' \in {mails, [mails EXCEPT ![s] = @ + 1]}
      /\ worker' = Through(w, s)
      /\ UNCHANGED <<refunded, labels, faults>>

(* A faulty CompleteShipment that writes no order_events row.              *)
CompleteShipmentUnaudited(w) ==
  LET s == worker[w].at
  IN  /\ worker[w].pc = "read"
      /\ shipment' = [shipment EXCEPT ![s].status = "shipped"]
      /\ status' = Promote(shipment[s].order, worker[w].seen)
      /\ job' = [job EXCEPT ![s] = JobRow("succeeded", job[s].attempts, NoWorker)]
      /\ mails' \in {mails, [mails EXCEPT ![s] = @ + 1]}
      /\ worker' = Through(w, s)
      /\ UNCHANGED <<audit, refunded, labels, faults>>

(* The writes of completeShipment, judged by the status that was read; the *)
(* mail is written if the job knows an address.                            *)
CompleteShipment(w) ==
  LET s == worker[w].at
      o == shipment[s].order
      seen == worker[w].seen
  IN  /\ worker[w].pc = "read"
      /\ shipment' = [shipment EXCEPT ![s].status = "shipped"]
      /\ status' = Promote(o, seen)
      /\ audit' = audit \cup {ShipRow(o, "ship", seen, "shipped")}
      /\ job' = [job EXCEPT ![s] = JobRow("succeeded", job[s].attempts, NoWorker)]
      /\ mails' \in {mails, [mails EXCEPT ![s] = @ + 1]}
      /\ worker' = Through(w, s)
      /\ UNCHANGED <<refunded, labels, faults>>

(* A write of the worker fails and is only logged, or the process dies     *)
(* with all of its batch.                                                  *)
Fault(w) ==
  /\ faults < MaxFaults
  /\ worker[w].pc # "idle"
  /\ \/ worker[w].pc = "busy" /\ \E s \in worker[w].todo : worker' = Through(w, s)
     \/ worker[w].pc # "busy" /\ worker' = Through(w, worker[w].at)
     \/ worker' = [worker EXCEPT ![w] = IdleWorker]
  /\ faults' = faults + 1
  /\ UNCHANGED <<orderVars, shipment, job, labels, mails>>
-----------------------------------------------------------------------------
Tick(w) ==
  \/ \E batch \in SUBSET Shipments : LockJobBatch(w, batch)
  \/ \E s \in Shipments : CreateLabel(w, s) \/ RetryJob(w, s) \/ MarkJobFailed(w, s)
  \/ ReadOrder(w)
  \/ CompleteShipment(w)

(* The forms of the back office and the workers; and, in ShippingNext,     *)
(* whoever else writes the orders.                                         *)
ShippingStep ==
  \/ \E s \in Shipments, o \in Orders : QueueShipment(s, o) \/ CreateManualShipment(s, o)
  \/ \E w \in Workers : Tick(w) \/ Fault(w)

ShippingNext ==
  \/ ShippingStep
  \/ \E o \in Orders : OrderStep(o) /\ UNCHANGED shipVars

ShippingSpec == ShippingInit /\ [][ShippingNext]_shippingVars

(* The ticker keeps calling tick, and a tick that has begun goes on.       *)
FairShippingSpec == ShippingSpec /\ \A w \in Workers : WF_shippingVars(Tick(w))
-----------------------------------------------------------------------------
Held(s) == \E w \in Workers : s \in worker[w].todo
Orphaned(s) == job[s].status = "processing" /\ ~ Held(s)

(* No two workers have the same job in hand, whatever batches they lock,   *)
(* put back and lose; and what they have in hand is marked.                *)
OneWorkerPerJob ==
  \A w \in Workers : \A s \in worker[w].todo :
    /\ job[s].status = "processing"
    /\ \A v \in Workers \ {w} : s \notin worker[v].todo

(* A label is acknowledged at most once for a shipment, through retries,   *)
(* crashes and refunds in between; a job that has succeeded has its label, *)
(* and the carrier has acknowledged none for one that has failed.          *)
LabelBoughtOnce ==
  \A s \in Shipments :
    /\ labels[s] <= 1
    /\ job[s].status = "succeeded" => labels[s] = 1 /\ shipment[s].status = "shipped"
    /\ job[s].status = "failed" => labels[s] = 0 /\ shipment[s].status = "failed"

(* The customer is told at most once of a shipment and only of one that is *)
(* under way; and what is under way was paid for and is on record, however *)
(* the order has moved since the worker read it.                           *)
ShippedOnRecord ==
  \A s \in Shipments :
    /\ mails[s] <= 1
    /\ mails[s] = 1 => shipment[s].status = "shipped"
    /\ shipment[s].status = "shipped"
         => status[shipment[s].order] \in Settled /\ ShipRecorded(shipment[s].order)

(* Nothing frees a job that nobody works on any more: there is no lease.   *)
(* Without crashes and failed writes that takes an order that could no     *)
(* longer be shipped when its label had been bought.                       *)
OrphansExplained ==
  \A s \in Shipments :
    Orphaned(s) /\ faults = 0 => status[shipment[s].order] \notin Shippable

(* Every job is settled in the end, or orphaned.                           *)
JobsSettle ==
  \A s \in Shipments :
    job[s].status = "pending"
      ~> (job[s].status \in {"succeeded", "failed"} \/ Orphaned(s))

QueueState == [none |-> "absent", pending |-> "waiting", processing |-> "taken",
               succeeded |-> "done", failed |-> "given up"]

JobState == [s \in Shipments |-> QueueState[job[s].status]]
LockedBy == [s \in Shipments |-> job[s].by]
Attempts == [s \in Shipments |-> job[s].attempts]
Labelled == {s \in Shipments : labels[s] > 0}

(* Label jobs implement the abstract queue: only the worker that locked a  *)
(* job works on it, and none is given up before its last attempt.          *)
Queue == INSTANCE JobQueue WITH
  Jobs     <- Shipments,
  state    <- JobState,
  holder   <- LockedBy,
  worked   <- Labelled,
  attempts <- Attempts

ImplementsJobQueue == Queue!QueueSpec
=============================================================================
