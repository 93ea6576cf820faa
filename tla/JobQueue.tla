------------------------------ MODULE JobQueue ------------------------------
(***************************************************************************)
(* What a queue of jobs in a database table promises, with no batches,     *)
(* row locks, worker loops or crashes in sight: a job is in the hands of   *)
(* one worker at a time, its work is acknowledged at most once, a finished *)
(* job has been worked on, and a job is not given up before MaxAttempts    *)
(* attempts have failed.  A job may stay in the hands of a worker for      *)
(* ever.  Shipping.tla and Outbox.tla are shown to implement it.           *)
(***************************************************************************)
EXTENDS Naturals

CONSTANTS
  Jobs,
  Workers,
  NoWorker,      \* the holder of a job that nobody works on
  MaxAttempts

VARIABLES
  state,      \* "absent", "waiting", "taken", "done" or "given up"
  holder,     \* the worker that has taken a job
  worked,     \* the jobs whose work has been acknowledged
  attempts    \* failed attempts

queueVars == <<state, holder, worked, attempts>>

QueueInit ==
  /\ state = [j \in Jobs |-> "absent"]
  /\ holder = [j \in Jobs |-> NoWorker]
  /\ worked = {}
  /\ attempts = [j \in Jobs |-> 0]

Enqueue(j) ==
  /\ state[j] = "absent"
  /\ state' = [state EXCEPT ![j] = "waiting"]
  /\ UNCHANGED <<holder, worked, attempts>>

(* A worker takes any of the jobs that wait.                               *)
Take(w, batch) ==
  /\ \A j \in batch : state[j] = "waiting"
  /\ state' = [j \in Jobs |-> IF j \in batch THEN "taken" ELSE state[j]]
  /\ holder' = [j \in Jobs |-> IF j \in batch THEN w ELSE holder[j]]
  /\ UNCHANGED <<worked, attempts>>

Work(w, j) ==
  /\ state[j] = "taken" /\ holder[j] = w
  /\ j \notin worked
  /\ worked' = worked \cup {j}
  /\ UNCHANGED <<state, holder, attempts>>

Finish(w, j) ==
  /\ state[j] = "taken" /\ holder[j] = w
  /\ j \in worked
  /\ state' = [state EXCEPT ![j] = "done"]
  /\ holder' = [holder EXCEPT ![j] = NoWorker]
  /\ UNCHANGED <<worked, attempts>>

(* An attempt has failed: the job waits again, or is given up.             *)
FailedAttempt(w, j, next) ==
  /\ state[j] = "taken" /\ holder[j] = w
  /\ j \notin worked
  /\ next = "given up" => attempts[j] + 1 >= MaxAttempts
  /\ state' = [state EXCEPT ![j] = next]
  /\ holder' = [holder EXCEPT ![j] = NoWorker]
  /\ attempts' = [attempts EXCEPT ![j] = @ + 1]
  /\ UNCHANGED worked

QueueNext ==
  \/ \E j \in Jobs : Enqueue(j)
  \/ \E w \in Workers, batch \in SUBSET Jobs : Take(w, batch)
  \/ \E w \in Workers, j \in Jobs :
       \/ Work(w, j)
       \/ Finish(w, j)
       \/ FailedAttempt(w, j, "waiting")
       \/ FailedAttempt(w, j, "given up")

QueueSpec == QueueInit /\ [][QueueNext]_queueVars
=============================================================================
