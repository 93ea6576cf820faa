---------------------------- MODULE OutboxProofs ----------------------------
(***************************************************************************)
(* Proofs about Outbox, for any messages and workers, any batch and any    *)
(* limit of attempts, and any number of stopped workers.                   *)
(***************************************************************************)
EXTENDS Outbox, TLAPS

(* The inductive invariant.  What a worker has in hand is locked by it;    *)
(* only the message at hand may have been delivered by this attempt.       *)
Answering(w) == sender[w].pc \in {"accepted", "refused"}

HoldsOwn(w) ==
  /\ sender[w].pc = "idle" => sender[w].todo = {}
  /\ Answering(w) => sender[w].at \in sender[w].todo
  /\ \A m \in sender[w].todo :
       /\ row[m].status = "processing" /\ row[m].by = w
       /\ m \in Outgoing(w)
       /\ m \in answered <=> sender[w].pc = "accepted" /\ sender[w].at = m
       /\ delivered[m] <= row[m].attempts \/ (Answering(w) /\ sender[w].at = m)

SendersHoldOwn == \A w \in Workers : HoldsOwn(w)

(* A row agrees with what its recipient and the workers have seen.         *)
RowAgrees(m) ==
  /\ row[m].status = "none" => /\ delivered[m] = 0 /\ m \notin answered
                               /\ row[m].attempts = 0 /\ row[m].by = NoWorker
  /\ row[m].status \in {"none", "pending", "processing"} => row[m].attempts < MaxAttempts
  /\ row[m].status \in {"pending", "failed"} => m \notin answered
  /\ row[m].status = "sent" => m \in answered
  /\ row[m].status = "failed" => row[m].attempts = MaxAttempts
  /\ delivered[m] <= row[m].attempts
                       + (IF row[m].status \in {"processing", "sent"} THEN 1 ELSE 0)
  /\ m \in Texts => delivered[m] <= 1
  /\ m \in answered => delivered[m] > 0

RowsAgree == \A m \in Messages : RowAgrees(m)

NoneLost == faults = 0 => \A m \in Messages : ~ Orphaned(m)

OutInv == OutboxTypeOK /\ SendersHoldOwn /\ RowsAgree /\ NoneLost
-----------------------------------------------------------------------------
LEMMA RowType ==
  ASSUME NEW st \in {"none", "pending", "processing", "sent", "failed"},
         NEW n \in 0 .. MaxAttempts, NEW w \in Workers \cup {NoWorker}
  PROVE  Row(st, n, w) \in Rows
  BY DEF Row, Rows

(* No row is in the hands of two workers.                                  *)
LEMMA HeldByOne ==
  ASSUME SendersHoldOwn, NEW w \in Workers, NEW v \in Workers \ {w},
         NEW m \in sender[w].todo
  PROVE  m \notin sender[v].todo
  BY DEF SendersHoldOwn, HoldsOwn

(* The next message of the batch.                                          *)
LEMMA ThroughShape ==
  ASSUME sender \in [Workers -> Senders], NEW w \in Workers, NEW m, sender' = Through(w, m)
  PROVE  /\ sender' \in [Workers -> Senders]
         /\ \A v \in Workers \ {w} : sender'[v] = sender[v]
         /\ sender'[w].todo = sender[w].todo \ {m}
         /\ sender'[w].pc \in {"idle", "busy"}
         /\ sender'[w].pc = "idle" => sender'[w].todo = {}
  <1> DEFINE rest == sender[w].todo \ {m}
             next == IF rest = {} THEN IdleSender ELSE BusySender(rest)
  <1>1. rest \in SUBSET Messages
    BY DEF Senders
  <1>2. /\ next \in Senders /\ next.todo = rest
        /\ next.pc \in {"idle", "busy"} /\ (next.pc = "idle" => rest = {})
    BY <1>1 DEF IdleSender, BusySender, Senders
  <1>3. sender' = [sender EXCEPT ![w] = next]
    BY DEF Through
  <1> HIDE DEF next
  <1>4. sender'[w] = next /\ \A v \in Workers \ {w} : sender'[v] = sender[v]
    BY <1>3
  <1>5. sender' \in [Workers -> Senders]
    BY <1>2, <1>3
  <1>6. QED  BY <1>2, <1>4, <1>5

LEMMA OutInitially == OutboxInit => OutInv
  <1> SUFFICES ASSUME OutboxInit  PROVE OutInv
    OBVIOUS
  <1> USE OutboxAssumption DEF OutboxInit, Row, IdleSender
  <1>1. OutboxTypeOK
    BY DEF OutboxTypeOK, Rows, Senders
  <1>2. SendersHoldOwn
    BY DEF SendersHoldOwn, HoldsOwn, Answering
  <1>3. RowsAgree
    BY DEF RowsAgree, RowAgrees
  <1>4. NoneLost
    BY DEF NoneLost, Orphaned
  <1>5. QED  BY <1>1, <1>2, <1>3, <1>4 DEF OutInv
-----------------------------------------------------------------------------
(* The invariant is preserved: one lemma per action.                       *)
LEMMA EnqueueKeeps ==
  ASSUME OutInv, NEW m \in Messages, Enqueue(m)
  PROVE  OutInv'
  <1> USE OutboxAssumption DEF OutInv, OutboxTypeOK, Enqueue
  <1>1. row'[m] = Row("pending", 0, NoWorker) /\ \A n \in Messages \ {m} : row'[n] = row[n]
    OBVIOUS
  <1>2. \A w \in Workers : m \notin sender[w].todo
    BY DEF SendersHoldOwn, HoldsOwn
  <1>3. OutboxTypeOK'
    <2>1. Row("pending", 0, NoWorker) \in Rows
      BY RowType
    <2>2. QED  BY <2>1
  <1>4. SendersHoldOwn'
    BY <1>1, <1>2 DEF SendersHoldOwn, HoldsOwn, Answering, Outgoing, Senders
  <1>5. RowsAgree'
    BY <1>1 DEF RowsAgree, RowAgrees, Row
  <1>6. NoneLost'
    BY <1>1 DEF NoneLost, Orphaned, Held, Row
  <1>7. QED  BY <1>3, <1>4, <1>5, <1>6

LEMMA LockBatchKeeps ==
  ASSUME OutInv, NEW w \in Workers, NEW batch \in SUBSET Outgoing(w), LockBatch(w, batch)
  PROVE  OutInv'
  <1> USE OutboxAssumption DEF OutInv, OutboxTypeOK, LockBatch
  <1>1. batch \subseteq Messages
    BY DEF Outgoing, Messages
  <1>2. /\ \A m \in batch : row'[m] = Row("processing", row[m].attempts, w)
        /\ \A m \in Messages \ batch : row'[m] = row[m]
    BY <1>1
  <1>3. sender'[w] = BusySender(batch) /\ \A v \in Workers \ {w} : sender'[v] = sender[v]
    OBVIOUS
  <1>4. \A v \in Workers : \A m \in batch : m \notin sender[v].todo
    BY DEF SendersHoldOwn, HoldsOwn
  <1>5. OutboxTypeOK'
    <2>1. \A m \in batch : Row("processing", row[m].attempts, w) \in Rows
      <3> SUFFICES ASSUME NEW m \in batch  PROVE Row("processing", row[m].attempts, w) \in Rows
        OBVIOUS
      <3>1. row[m].attempts \in 0 .. MaxAttempts
        BY <1>1 DEF Rows
      <3>2. QED  BY <3>1, RowType
    <2>2. row' \in [Messages -> Rows]
      BY <1>1, <2>1
    <2>3. sender' \in [Workers -> Senders]
      BY <1>1 DEF BusySender, Senders
    <2>4. QED  BY <2>2, <2>3
  <1>6. SendersHoldOwn'
    <2> SUFFICES ASSUME NEW v \in Workers  PROVE HoldsOwn(v)'
      BY DEF SendersHoldOwn
    <2>1. CASE v = w
      <3>1. \A m \in batch : m \notin answered /\ delivered[m] <= row[m].attempts
        BY <1>1 DEF RowsAgree, RowAgrees, Rows
      <3>2. sender'[w].todo = batch /\ sender'[w].pc = "busy"
        BY <1>3 DEF BusySender
      <3>3. \A m \in batch : /\ row'[m].status = "processing" /\ row'[m].by = w
                             /\ row'[m].attempts = row[m].attempts
        <4> HIDE DEF LockBatch, OutInv, OutboxTypeOK
        <4> TAKE m \in batch
        <4>1. row'[m] = Row("processing", row[m].attempts, w)
          BY <1>2
        <4>2. QED  BY <4>1 DEF Row
      <3>4. batch \subseteq Outgoing(w)' /\ UNCHANGED <<delivered, answered>>
        BY DEF Outgoing
      <3>5. ~ Answering(w)'
        BY <3>2 DEF Answering
      <3> HIDE DEF LockBatch, OutInv, OutboxTypeOK
      <3>6. HoldsOwn(w)'
        BY <3>1, <3>2, <3>3, <3>4, <3>5 DEF HoldsOwn
      <3>7. QED  BY <2>1, <3>6
    <2>2. CASE v # w
      <3>1. sender'[v] = sender[v] /\ \A m \in sender[v].todo : row'[m] = row[m]
        BY <1>2, <1>3, <1>4, <2>2 DEF Senders
      <3>2. QED  BY <3>1 DEF SendersHoldOwn, HoldsOwn, Answering, Outgoing
    <2>3. QED  BY <2>1, <2>2
  <1>7. RowsAgree'
    <2> SUFFICES ASSUME NEW m \in Messages  PROVE RowAgrees(m)'
      BY DEF RowsAgree
    <2>1. delivered[m] \in Nat /\ row[m].attempts \in Nat
      BY DEF Rows
    <2>2. CASE m \in batch
      BY <1>2, <2>1, <2>2 DEF RowsAgree, RowAgrees, Row
    <2>3. CASE m \notin batch
      BY <1>2, <2>3 DEF RowsAgree, RowAgrees
    <2>4. QED  BY <2>2, <2>3
  <1>8. NoneLost'
    <2> SUFFICES ASSUME faults = 0, NEW m \in Messages, row'[m].status = "processing"
                 PROVE  Held(m)'
      BY DEF NoneLost, Orphaned
    <2>1. CASE m \in batch
      BY <1>3, <2>1 DEF Held, BusySender
    <2>2. CASE m \notin batch
      <3>1. PICK v \in Workers : m \in sender[v].todo
        BY <1>2, <2>2 DEF NoneLost, Orphaned, Held
      <3>2. v # w
        BY <3>1 DEF SendersHoldOwn, HoldsOwn
      <3>3. QED  BY <1>3, <3>1, <3>2 DEF Held
    <2>3. QED  BY <2>1, <2>2
  <1>9. QED  BY <1>5, <1>6, <1>7, <1>8

LEMMA DeliverShape ==
  ASSUME delivered \in [Messages -> 0 .. MaxAttempts], NEW m \in Messages,
         NEW d \in {delivered, Deliver(m)}
  PROVE  /\ d \in [Messages -> Nat]
         /\ \A n \in Messages \ {m} : d[n] = delivered[n]
         /\ d[m] \in {delivered[m], delivered[m] + 1}
         /\ m \in Texts /\ delivered[m] <= 1 => d[m] <= 1
         /\ d = Deliver(m) => d[m] > 0
  BY OutboxAssumption DEF Deliver

LEMMA SendKeeps ==
  ASSUME OutInv, NEW w \in Workers, NEW m \in Messages,
         SendAccepted(w, m) \/ SendRefused(w, m)
  PROVE  OutInv'
  <1> USE OutboxAssumption DEF OutInv, OutboxTypeOK
  <1>1. PICK pc \in {"accepted", "refused"} :
          /\ sender[w].pc = "busy" /\ m \in sender[w].todo
          /\ delivered' \in {delivered, Deliver(m)}
          /\ pc = "accepted" => delivered' = Deliver(m)
          /\ answered' = IF pc = "accepted" THEN answered \cup {m} ELSE answered
          /\ sender' = [sender EXCEPT ![w] = SenderAt(pc, sender[w].todo, m)]
          /\ UNCHANGED <<row, faults>>
    BY DEF SendAccepted, SendRefused
  <1>2. /\ delivered' \in [Messages -> Nat]
        /\ \A n \in Messages \ {m} : delivered'[n] = delivered[n]
        /\ delivered'[m] \in {delivered[m], delivered[m] + 1}
        /\ m \in Texts /\ delivered[m] <= 1 => delivered'[m] <= 1
        /\ pc = "accepted" => delivered'[m] > 0
    BY <1>1, DeliverShape
  <1>3. /\ row[m].status = "processing" /\ row[m].by = w /\ m \notin answered
        /\ delivered[m] <= row[m].attempts
    BY <1>1 DEF SendersHoldOwn, HoldsOwn, Answering
  <1>4. row[m].attempts \in Nat /\ row[m].attempts < MaxAttempts /\ delivered[m] \in Nat
    BY <1>3 DEF RowsAgree, RowAgrees, Rows
  <1>5. /\ sender'[w] = SenderAt(pc, sender[w].todo, m)
        /\ \A v \in Workers \ {w} : sender'[v] = sender[v]
    BY <1>1
  <1>6. OutboxTypeOK'
    <2>1. SenderAt(pc, sender[w].todo, m) \in Senders
      BY DEF SenderAt, Senders
    <2>2. delivered'[m] \in 0 .. MaxAttempts
      BY <1>2, <1>3, <1>4
    <2>3. delivered' \in [Messages -> 0 .. MaxAttempts]
      BY <1>2, <2>2
    <2>4. QED  BY <1>1, <2>1, <2>3
  <1>7. SendersHoldOwn'
    <2> SUFFICES ASSUME NEW v \in Workers  PROVE HoldsOwn(v)'
      BY DEF SendersHoldOwn
    <2>1. CASE v = w
      BY <1>1, <1>2, <1>5, <2>1
      DEF SendersHoldOwn, HoldsOwn, Answering, Outgoing, SenderAt, Senders
    <2>2. CASE v # w
      <3>1. m \notin sender[v].todo
        BY <1>1, <2>2, HeldByOne
      <3>2. QED
        BY <1>1, <1>2, <1>5, <2>2, <3>1
        DEF SendersHoldOwn, HoldsOwn, Answering, Outgoing, Senders
    <2>3. QED  BY <2>1, <2>2
  <1>8. RowsAgree'
    <2> SUFFICES ASSUME NEW n \in Messages  PROVE RowAgrees(n)'
      BY DEF RowsAgree
    <2>1. CASE n = m
      BY <1>1, <1>2, <1>3, <1>4, <2>1 DEF RowsAgree, RowAgrees
    <2>2. CASE n # m
      BY <1>1, <1>2, <2>2 DEF RowsAgree, RowAgrees
    <2>3. QED  BY <2>1, <2>2
  <1>9. NoneLost'
    <2>1. \A n \in Messages : Held(n) => Held(n)'
      BY <1>5 DEF Held, SenderAt
    <2>2. QED  BY <1>1, <2>1 DEF NoneLost, Orphaned
  <1>10. QED  BY <1>6, <1>7, <1>8, <1>9

(* What the three UPDATEs that mark a row have in common.                  *)
LEMMA MarkKeeps ==
  ASSUME OutInv, NEW w \in Workers, Answering(w),
         NEW st \in {"pending", "sent", "failed"}, NEW k \in 0 .. MaxAttempts,
         row' = [row EXCEPT ![sender[w].at] = Row(st, k, NoWorker)],
         sender' = Through(w, sender[w].at),
         UNCHANGED <<delivered, answered, faults>>,
         st = "sent" => sender[w].pc = "accepted" /\ k = row[sender[w].at].attempts,
         st # "sent" => sender[w].pc = "refused" /\ k = row[sender[w].at].attempts + 1,
         st = "pending" => k < MaxAttempts,
         st = "failed" => k = MaxAttempts
  PROVE  OutInv'
  <1> DEFINE m == sender[w].at
  <1> USE OutboxAssumption DEF OutInv, OutboxTypeOK
  <1>1. m \in sender[w].todo /\ m \in Messages
    BY DEF SendersHoldOwn, HoldsOwn, Senders
  <1>2. /\ row[m].status = "processing"
        /\ m \in answered <=> sender[w].pc = "accepted"
    BY <1>1 DEF SendersHoldOwn, HoldsOwn
  <1> HIDE DEF m
  <1>3. row'[m] = Row(st, k, NoWorker) /\ \A n \in Messages \ {m} : row'[n] = row[n]
    BY <1>1 DEF m
  <1>4. /\ sender' \in [Workers -> Senders]
        /\ \A v \in Workers \ {w} : sender'[v] = sender[v]
        /\ sender'[w].todo = sender[w].todo \ {m}
        /\ sender'[w].pc \in {"idle", "busy"}
        /\ sender'[w].pc = "idle" => sender'[w].todo = {}
    BY ThroughShape DEF m
  <1>5. OutboxTypeOK'
    <2>1. Row(st, k, NoWorker) \in Rows
      BY RowType
    <2>2. row' \in [Messages -> Rows]
      BY <1>1, <2>1
    <2>3. QED  BY <1>4, <2>2
  <1>6. SendersHoldOwn'
    <2> SUFFICES ASSUME NEW v \in Workers  PROVE HoldsOwn(v)'
      BY DEF SendersHoldOwn
    <2>1. CASE v = w
      <3>1. \A n \in sender[w].todo \ {m} :
              /\ row[n].status = "processing" /\ row[n].by = w
              /\ n \in Outgoing(w) /\ n \notin answered
              /\ delivered[n] <= row[n].attempts
        BY DEF SendersHoldOwn, HoldsOwn, m
      <3>2. \A n \in sender[w].todo \ {m} : row'[n] = row[n]
        BY <1>3 DEF Senders
      <3>3. QED  BY <1>4, <2>1, <3>1, <3>2 DEF HoldsOwn, Answering, Outgoing
    <2>2. CASE v # w
      <3>1. m \notin sender[v].todo
        BY <1>1, <2>2, HeldByOne
      <3>2. \A n \in sender[v].todo : row'[n] = row[n]
        BY <1>3, <3>1 DEF Senders
      <3>3. QED
        BY <1>4, <2>2, <3>2 DEF SendersHoldOwn, HoldsOwn, Answering, Outgoing
    <2>3. QED  BY <2>1, <2>2
  <1>7. RowsAgree'
    <2> SUFFICES ASSUME NEW n \in Messages  PROVE RowAgrees(n)'
      BY DEF RowsAgree
    <2>1. CASE n = m
      <3>1. delivered[m] \in Nat /\ row[m].attempts \in Nat
        BY <1>1 DEF Rows
      <3>2. row[m].attempts = row[sender[w].at].attempts
        BY DEF m
      <3>3. QED
        BY <1>1, <1>2, <1>3, <2>1, <3>1, <3>2 DEF RowsAgree, RowAgrees, Row
    <2>2. CASE n # m
      BY <1>3, <2>2 DEF RowsAgree, RowAgrees
    <2>3. QED  BY <2>1, <2>2
  <1>8. NoneLost'
    <2> SUFFICES ASSUME faults = 0, NEW n \in Messages, row'[n].status = "processing"
                 PROVE  Held(n)'
      BY DEF NoneLost, Orphaned
    <2>1. n # m
      BY <1>3 DEF Row
    <2>2. PICK v \in Workers : n \in sender[v].todo
      BY <1>3, <2>1 DEF NoneLost, Orphaned, Held
    <2>3. n \in sender'[v].todo
      BY <1>4, <2>1, <2>2
    <2>4. QED  BY <2>3 DEF Held
  <1>9. QED  BY <1>5, <1>6, <1>7, <1>8

LEMMA AtHand ==
  ASSUME OutInv, NEW w \in Workers, Answering(w)
  PROVE  /\ sender[w].at \in Messages
         /\ row[sender[w].at].attempts \in Nat
         /\ row[sender[w].at].attempts < MaxAttempts
  <1>1. sender[w].at \in sender[w].todo /\ sender[w].at \in Messages
    BY DEF OutInv, OutboxTypeOK, SendersHoldOwn, HoldsOwn, Senders
  <1>2. row[sender[w].at].status = "processing"
    BY <1>1 DEF OutInv, SendersHoldOwn, HoldsOwn
  <1>3. QED  BY <1>1, <1>2 DEF OutInv, OutboxTypeOK, RowsAgree, RowAgrees, Rows

LEMMA MarksKeep ==
  ASSUME OutInv, NEW w \in Workers, MarkSent(w) \/ MarkRetry(w) \/ MarkFailed(w)
  PROVE  OutInv'
  <1> USE OutboxAssumption
  <1>1. Answering(w)
    BY DEF Answering, MarkSent, MarkRetry, MarkFailed
  <1>2. PICK n \in Nat : n = row[sender[w].at].attempts /\ n < MaxAttempts
    BY <1>1, AtHand
  <1>3. CASE MarkSent(w)
    <2>1. n \in 0 .. MaxAttempts
      BY <1>2
    <2>2. QED  BY <1>1, <1>2, <1>3, <2>1, MarkKeeps DEF MarkSent
  <1>4. CASE MarkRetry(w)
    <2>1. n + 1 \in 0 .. MaxAttempts /\ n + 1 < MaxAttempts
      BY <1>2, <1>4 DEF MarkRetry, LastAttempt
    <2>2. PICK k \in 0 .. MaxAttempts : k = n + 1
      BY <2>1
    <2>3. QED  BY <1>1, <1>2, <1>4, <2>1, <2>2, MarkKeeps DEF MarkRetry
  <1>5. CASE MarkFailed(w)
    <2>1. n + 1 \in 0 .. MaxAttempts /\ n + 1 = MaxAttempts
      BY <1>2, <1>5 DEF MarkFailed, LastAttempt
    <2>2. PICK k \in 0 .. MaxAttempts : k = n + 1
      BY <2>1
    <2>3. QED  BY <1>1, <1>2, <1>5, <2>1, <2>2, MarkKeeps DEF MarkFailed
  <1>6. QED  BY <1>3, <1>4, <1>5

LEMMA FaultKeeps ==
  ASSUME OutInv, NEW w \in Workers, Fault(w)
  PROVE  OutInv'
  <1> USE OutboxAssumption DEF OutInv, OutboxTypeOK, Fault
  <1>1. /\ sender' \in [Workers -> Senders]
        /\ \A v \in Workers \ {w} : sender'[v] = sender[v]
        /\ sender'[w].todo \subseteq sender[w].todo
        /\ \A m \in sender'[w].todo : ~ (Answering(w) /\ sender[w].at = m)
        /\ sender'[w].pc \in {"idle", "busy"}
        /\ sender'[w].pc = "idle" => sender'[w].todo = {}
    <2>1. CASE sender' = [sender EXCEPT ![w] = IdleSender]
      BY <2>1 DEF IdleSender, Senders
    <2>2. CASE sender' = Through(w, sender[w].at)
      BY <2>2, ThroughShape
    <2>3. QED  BY <2>1, <2>2
  <1>2. OutboxTypeOK'
    BY <1>1
  <1>3. SendersHoldOwn'
    <2> SUFFICES ASSUME NEW v \in Workers  PROVE HoldsOwn(v)'
      BY DEF SendersHoldOwn
    <2>1. CASE v = w
      BY <1>1, <2>1 DEF SendersHoldOwn, HoldsOwn, Answering, Outgoing
    <2>2. CASE v # w
      BY <1>1, <2>2 DEF SendersHoldOwn, HoldsOwn, Answering, Outgoing
    <2>3. QED  BY <2>1, <2>2
  <1>4. RowsAgree'
    BY DEF RowsAgree, RowAgrees
  <1>5. NoneLost'
    BY DEF NoneLost
  <1>6. QED  BY <1>2, <1>3, <1>4, <1>5

LEMMA OutStep == OutInv /\ [OutboxNext]_outboxVars => OutInv'
  <1> SUFFICES ASSUME OutInv, [OutboxNext]_outboxVars  PROVE OutInv'
    OBVIOUS
  <1>1. CASE UNCHANGED outboxVars
    BY <1>1
    DEF outboxVars, OutInv, OutboxTypeOK, SendersHoldOwn, HoldsOwn, Answering, Outgoing,
        RowsAgree, RowAgrees, NoneLost, Orphaned, Held
  <1>2. ASSUME NEW m \in Messages, Enqueue(m)  PROVE OutInv'
    BY <1>2, EnqueueKeeps
  <1>3. ASSUME NEW w \in Workers, Tick(w)  PROVE OutInv'
    BY <1>3, LockBatchKeeps, SendKeeps, MarksKeep DEF Tick
  <1>4. ASSUME NEW w \in Workers, Fault(w)  PROVE OutInv'
    BY <1>4, FaultKeeps
  <1>5. QED  BY <1>1, <1>2, <1>3, <1>4 DEF OutboxNext

THEOREM OutboxInvariant == OutboxSpec => []OutInv
  BY OutInitially, OutStep, PTL DEF OutboxSpec

(* Types, for every message and worker.                                    *)
THEOREM OutboxTypeCorrect == OutboxSpec => []OutboxTypeOK
  <1>1. OutInv => OutboxTypeOK
    BY DEF OutInv
  <1>2. QED  BY <1>1, OutboxInvariant, PTL

(* SKIP LOCKED and the processing mark keep the workers of the web server  *)
(* and of the worker process apart, through any crash.                     *)
THEOREM SendersApart == OutboxSpec => []OneSenderPerMessage
  <1>1. OutInv => OneSenderPerMessage
    BY HeldByOne DEF OutInv, OneSenderPerMessage, SendersHoldOwn, HoldsOwn, NoneLost
  <1>2. QED  BY <1>1, OutboxInvariant, PTL

(* No message is delivered more often than its row has attempts, but for   *)
(* the one that is under way or was acknowledged.                          *)
THEOREM DeliveriesAccounted == OutboxSpec => []DeliveriesCounted
  <1>1. OutInv => DeliveriesCounted
    <2> SUFFICES ASSUME OutInv, NEW m \in Messages
                 PROVE  /\ RowAgrees(m)
                        /\ m \in answered => row[m].status \in {"processing", "sent"}
      BY DEF DeliveriesCounted, RowAgrees
    <2>1. row[m].status \in {"none", "pending", "processing", "sent", "failed"}
      BY DEF OutInv, OutboxTypeOK, Rows
    <2>2. QED  BY <2>1 DEF OutInv, RowsAgree, RowAgrees
  <1>2. QED  BY <1>1, OutboxInvariant, PTL
-----------------------------------------------------------------------------
(* The refinement: every step of the outboxes is a step of JobQueue, or    *)
(* leaves what JobQueue sees as it is.                                     *)
LEMMA QueueStates ==
  /\ QueueState["none"] = "absent" /\ QueueState["pending"] = "waiting"
  /\ QueueState["processing"] = "taken" /\ QueueState["sent"] = "done"
  /\ QueueState["failed"] = "given up"
  BY DEF QueueState

(* What JobQueue sees of one row that is written.                          *)
LEMMA RowWritten ==
  ASSUME row \in [Messages -> Rows], NEW m \in Messages, NEW st, NEW n, NEW w,
         row' = [row EXCEPT ![m] = Row(st, n, w)]
  PROVE  /\ MessageState' = [MessageState EXCEPT ![m] = QueueState[st]]
         /\ LockedBy' = [LockedBy EXCEPT ![m] = w]
         /\ Attempts' = [Attempts EXCEPT ![m] = n]
  <1>1. \A k \in Messages : row'[k] = IF k = m THEN Row(st, n, w) ELSE row[k]
    OBVIOUS
  <1>2. \A k \in Messages : /\ row'[k].status = IF k = m THEN st ELSE row[k].status
                            /\ row'[k].by = IF k = m THEN w ELSE row[k].by
                            /\ row'[k].attempts = IF k = m THEN n ELSE row[k].attempts
    BY <1>1 DEF Row
  <1>3. MessageState' = [MessageState EXCEPT ![m] = QueueState[st]]
    <2>1. MessageState' = [k \in Messages |-> QueueState[row'[k].status]]
      BY DEF MessageState, QueueState
    <2>2. QED  BY <1>2, <2>1 DEF MessageState
  <1>4. LockedBy' = [LockedBy EXCEPT ![m] = w]
    <2>1. LockedBy' = [k \in Messages |-> row'[k].by]
      BY DEF LockedBy
    <2>2. QED  BY <1>2, <2>1 DEF LockedBy
  <1>5. Attempts' = [Attempts EXCEPT ![m] = n]
    <2>1. Attempts' = [k \in Messages |-> row'[k].attempts]
      BY DEF Attempts
    <2>2. QED  BY <1>2, <2>1 DEF Attempts
  <1>6. QED  BY <1>3, <1>4, <1>5

LEMMA EnqueueSimulates ==
  ASSUME OutInv, NEW m \in Messages, Enqueue(m)
  PROVE  Queue!Enqueue(m)
  <1>1. row[m].status = "none" /\ row[m].attempts = 0 /\ row[m].by = NoWorker
    BY DEF Enqueue, OutInv, RowsAgree, RowAgrees
  <1>2. row \in [Messages -> Rows] /\ row' = [row EXCEPT ![m] = Row("pending", 0, NoWorker)]
    BY DEF Enqueue, OutInv, OutboxTypeOK
  <1>3. /\ MessageState' = [MessageState EXCEPT ![m] = QueueState["pending"]]
        /\ LockedBy' = [LockedBy EXCEPT ![m] = NoWorker]
        /\ Attempts' = [Attempts EXCEPT ![m] = 0]
    BY <1>2, RowWritten
  <1>4. MessageState[m] = "absent" /\ LockedBy' = LockedBy /\ Attempts' = Attempts
    BY <1>1, <1>3, QueueStates DEF MessageState, LockedBy, Attempts
  <1>5. answered' = answered
    BY DEF Enqueue
  <1>6. QED  BY <1>3, <1>4, <1>5, QueueStates DEF Queue!Enqueue

LEMMA LockBatchSimulates ==
  ASSUME OutInv, NEW w \in Workers, NEW batch \in SUBSET Messages, LockBatch(w, batch)
  PROVE  Queue!Take(w, batch)
  <1>1. \A m \in Messages :
          /\ row'[m].status = IF m \in batch THEN "processing" ELSE row[m].status
          /\ row'[m].by = IF m \in batch THEN w ELSE row[m].by
          /\ row'[m].attempts = row[m].attempts
    <2> TAKE m \in Messages
    <2>1. row'[m] = IF m \in batch THEN Row("processing", row[m].attempts, w) ELSE row[m]
      BY DEF LockBatch
    <2>2. QED  BY <2>1 DEF Row
  <1>2. \A m \in batch : MessageState[m] = "waiting"
    BY QueueStates DEF LockBatch, MessageState
  <1>3. MessageState' = [m \in Messages |-> IF m \in batch THEN "taken" ELSE MessageState[m]]
    <2>1. MessageState' = [m \in Messages |-> QueueState[row'[m].status]]
      BY DEF MessageState, QueueState
    <2>2. QED  BY <1>1, <2>1, QueueStates DEF MessageState
  <1>4. LockedBy' = [m \in Messages |-> IF m \in batch THEN w ELSE LockedBy[m]]
    <2>1. LockedBy' = [m \in Messages |-> row'[m].by]
      BY DEF LockedBy
    <2>2. QED  BY <1>1, <2>1 DEF LockedBy
  <1>5. Attempts' = Attempts
    <2>1. Attempts' = [m \in Messages |-> row'[m].attempts]
      BY DEF Attempts
    <2>2. QED  BY <1>1, <2>1 DEF Attempts
  <1>6. answered' = answered
    BY DEF LockBatch
  <1>7. QED  BY <1>2, <1>3, <1>4, <1>5, <1>6 DEF Queue!Take

(* What a worker has in hand is taken by it.                               *)
LEMMA InHand ==
  ASSUME OutInv, NEW w \in Workers, NEW m \in sender[w].todo
  PROVE  /\ m \in Messages /\ MessageState[m] = "taken" /\ LockedBy[m] = w
         /\ m \in answered <=> sender[w].pc = "accepted" /\ sender[w].at = m
  <1>1. /\ row[m].status = "processing" /\ row[m].by = w
        /\ m \in answered <=> sender[w].pc = "accepted" /\ sender[w].at = m
    BY DEF OutInv, SendersHoldOwn, HoldsOwn
  <1>2. m \in Messages
    BY DEF OutInv, OutboxTypeOK, Senders
  <1>3. QED  BY <1>1, <1>2, QueueStates DEF MessageState, LockedBy

LEMMA SendSimulates ==
  ASSUME OutInv, NEW w \in Workers, NEW m \in Messages
  PROVE  /\ SendAccepted(w, m) => Queue!Work(w, m)
         /\ SendRefused(w, m) => UNCHANGED Queue!queueVars
  <1>1. ASSUME row' = row  PROVE UNCHANGED <<MessageState, LockedBy, Attempts>>
    BY <1>1 DEF MessageState, LockedBy, Attempts
  <1>2. ASSUME SendAccepted(w, m)  PROVE Queue!Work(w, m)
    <2>1. sender[w].pc = "busy" /\ m \in sender[w].todo
      BY <1>2 DEF SendAccepted
    <2>2. MessageState[m] = "taken" /\ LockedBy[m] = w /\ m \notin answered
      BY <2>1, InHand
    <2>3. QED  BY <1>1, <1>2, <2>2 DEF SendAccepted, Queue!Work
  <1>3. QED  BY <1>1, <1>2 DEF SendRefused, Queue!queueVars

LEMMA MarkSimulates ==
  ASSUME OutInv, NEW w \in Workers, MarkSent(w) \/ MarkRetry(w) \/ MarkFailed(w)
  PROVE  \E m \in Messages : \/ Queue!Finish(w, m)
                             \/ Queue!FailedAttempt(w, m, "waiting")
                             \/ Queue!FailedAttempt(w, m, "given up")
  <1>1. Answering(w)
    BY DEF Answering, MarkSent, MarkRetry, MarkFailed
  <1>2. PICK m \in sender[w].todo : m = sender[w].at /\ m \in Messages
    BY <1>1 DEF OutInv, OutboxTypeOK, SendersHoldOwn, HoldsOwn, Senders
  <1>3. PICK n \in Nat : n = row[m].attempts
    BY <1>1, <1>2, AtHand
  <1>4. /\ MessageState[m] = "taken" /\ LockedBy[m] = w /\ Attempts[m] = n
        /\ m \in answered <=> sender[w].pc = "accepted"
    BY <1>2, <1>3, InHand DEF Attempts
  <1>5. row \in [Messages -> Rows] /\ m \in Messages
    BY <1>2 DEF OutInv, OutboxTypeOK
  <1>6. CASE MarkSent(w)
    <2>1. row' = [row EXCEPT ![m] = Row("sent", n, NoWorker)] /\ m \in answered
      BY <1>2, <1>3, <1>4, <1>6 DEF MarkSent
    <2>2. /\ MessageState' = [MessageState EXCEPT ![m] = "done"]
          /\ LockedBy' = [LockedBy EXCEPT ![m] = NoWorker]
          /\ Attempts' = [Attempts EXCEPT ![m] = n]
      <3>1. /\ MessageState' = [MessageState EXCEPT ![m] = QueueState["sent"]]
            /\ LockedBy' = [LockedBy EXCEPT ![m] = NoWorker]
            /\ Attempts' = [Attempts EXCEPT ![m] = n]
        BY <1>5, <2>1, RowWritten
      <3>2. QED  BY <3>1, QueueStates
    <2>3. Attempts' = Attempts
      BY <1>3, <2>2 DEF Attempts
    <2>4. answered' = answered
      BY <1>6 DEF MarkSent
    <2>5. QED  BY <1>2, <1>4, <2>1, <2>2, <2>3, <2>4 DEF Queue!Finish
  <1>7. CASE MarkRetry(w)
    <2>1. row' = [row EXCEPT ![m] = Row("pending", n + 1, NoWorker)] /\ m \notin answered
      BY <1>2, <1>3, <1>4, <1>7 DEF MarkRetry
    <2>2. /\ MessageState' = [MessageState EXCEPT ![m] = "waiting"]
          /\ LockedBy' = [LockedBy EXCEPT ![m] = NoWorker]
          /\ Attempts' = [Attempts EXCEPT ![m] = n + 1]
      <3>1. PICK k : k = n + 1
        OBVIOUS
      <3>2. row' = [row EXCEPT ![m] = Row("pending", k, NoWorker)]
        BY <2>1, <3>1
      <3>3. /\ MessageState' = [MessageState EXCEPT ![m] = QueueState["pending"]]
            /\ LockedBy' = [LockedBy EXCEPT ![m] = NoWorker]
            /\ Attempts' = [Attempts EXCEPT ![m] = k]
        BY <1>5, <3>2, RowWritten
      <3>4. QED  BY <3>1, <3>3, QueueStates
    <2>3. answered' = answered
      BY <1>7 DEF MarkRetry
    <2>4. QED  BY <1>2, <1>4, <2>1, <2>2, <2>3 DEF Queue!FailedAttempt
  <1>8. CASE MarkFailed(w)
    <2>1. /\ row' = [row EXCEPT ![m] = Row("failed", n + 1, NoWorker)] /\ m \notin answered
          /\ Attempts[m] + 1 >= MaxAttempts
      BY <1>2, <1>3, <1>4, <1>8 DEF MarkFailed, LastAttempt
    <2>2. /\ MessageState' = [MessageState EXCEPT ![m] = "given up"]
          /\ LockedBy' = [LockedBy EXCEPT ![m] = NoWorker]
          /\ Attempts' = [Attempts EXCEPT ![m] = n + 1]
      <3>1. PICK k : k = n + 1
        OBVIOUS
      <3>2. row' = [row EXCEPT ![m] = Row("failed", k, NoWorker)]
        BY <2>1, <3>1
      <3>3. /\ MessageState' = [MessageState EXCEPT ![m] = QueueState["failed"]]
            /\ LockedBy' = [LockedBy EXCEPT ![m] = NoWorker]
            /\ Attempts' = [Attempts EXCEPT ![m] = k]
        BY <1>5, <3>2, RowWritten
      <3>4. QED  BY <3>1, <3>3, QueueStates
    <2>3. answered' = answered
      BY <1>8 DEF MarkFailed
    <2>4. QED  BY <1>2, <1>4, <2>1, <2>2, <2>3 DEF Queue!FailedAttempt
  <1>9. QED  BY <1>6, <1>7, <1>8

LEMMA OutboxSimulates ==
  ASSUME OutInv, [OutboxNext]_outboxVars
  PROVE  [Queue!QueueNext]_(Queue!queueVars)
  <1> SUFFICES Queue!QueueNext \/ UNCHANGED Queue!queueVars
    OBVIOUS
  <1>1. ASSUME UNCHANGED <<row, answered>>  PROVE UNCHANGED Queue!queueVars
    BY <1>1 DEF MessageState, LockedBy, Attempts, Queue!queueVars
  <1>2. ASSUME NEW w \in Workers, Tick(w)  PROVE Queue!QueueNext \/ UNCHANGED Queue!queueVars
    <2>1. ASSUME NEW batch \in SUBSET Outgoing(w), LockBatch(w, batch)
          PROVE  Queue!QueueNext
      <3>1. batch \in SUBSET Messages
        BY DEF Outgoing, Messages
      <3>2. QED  BY <2>1, <3>1, LockBatchSimulates DEF Queue!QueueNext
    <2>2. ASSUME NEW m \in Messages, SendAccepted(w, m) \/ SendRefused(w, m)
          PROVE  Queue!QueueNext \/ UNCHANGED Queue!queueVars
      BY <2>2, SendSimulates DEF Queue!QueueNext
    <2>3. CASE MarkSent(w) \/ MarkRetry(w) \/ MarkFailed(w)
      BY <2>3, MarkSimulates DEF Queue!QueueNext
    <2>4. QED  BY <1>2, <2>1, <2>2, <2>3 DEF Tick
  <1>3. ASSUME NEW m \in Messages, Enqueue(m)  PROVE Queue!QueueNext
    BY <1>3, EnqueueSimulates DEF Queue!QueueNext
  <1>4. CASE UNCHANGED outboxVars
    BY <1>1, <1>4 DEF outboxVars
  <1>5. QED  BY <1>1, <1>2, <1>3, <1>4 DEF OutboxNext, Fault

(* Mails and text messages keep what JobQueue promises, as label jobs do:  *)
(* a message is acknowledged at most once, to the worker that locked it,   *)
(* and given up only after MaxAttempts failures.                           *)
THEOREM OutboxImplementsJobQueue == OutboxSpec => ImplementsJobQueue
  <1>1. OutboxInit => Queue!QueueInit
    <2> SUFFICES ASSUME OutboxInit  PROVE Queue!QueueInit
      OBVIOUS
    <2>1. MessageState = [m \in Messages |-> "absent"]
      BY QueueStates DEF OutboxInit, MessageState, Row
    <2>2. LockedBy = [m \in Messages |-> NoWorker] /\ Attempts = [m \in Messages |-> 0]
      BY DEF OutboxInit, LockedBy, Attempts, Row
    <2>3. answered = {}
      BY DEF OutboxInit
    <2>4. QED  BY <2>1, <2>2, <2>3 DEF Queue!QueueInit
  <1>2. OutInv /\ [OutboxNext]_outboxVars => [Queue!QueueNext]_(Queue!queueVars)
    BY OutboxSimulates
  <1>3. QED
    BY <1>1, <1>2, OutboxInvariant, PTL DEF OutboxSpec, ImplementsJobQueue, Queue!QueueSpec
=============================================================================
