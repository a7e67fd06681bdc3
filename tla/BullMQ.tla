------------------------------- MODULE BullMQ -------------------------------
(***************************************************************************)
(* The job queue every background task of the system goes through.  BullMQ *)
(* itself is a library (bullmq ^5.12.10, backed by Redis): what is written *)
(* here is what src/worker/ignitor/worker_ignitor.ts relies on.            *)
(*                                                                         *)
(* A job waits until a worker takes it under a lock.  A handler that       *)
(* throws uses up one attempt and the job waits again until its attempts   *)
(* are gone; a worker that dies, or whose lock expires, leaves the job     *)
(* stalled, and the stalled check puts it back MaxStalled times before it  *)
(* fails the job.  Only the holder of the lock can settle a job.           *)
(***************************************************************************)
EXTENDS Integers, FiniteSets

CONSTANTS
    Workers,     \* BullMQ workers listening on one queue
    NoWorker,    \* the value of a lock nobody holds
    MaxStalled   \* maxStalledCount, 1 unless the Worker options say otherwise

ASSUME QueueAssumption ==
    /\ IsFiniteSet(Workers)
    /\ NoWorker \notin Workers
    /\ MaxStalled \in Nat

-----------------------------------------------------------------------------
JobStates == {"absent", "waiting", "active", "completed", "failed"}

Job == [state: JobStates, lock: Workers \cup {NoWorker}, made: Nat, stalls: Nat]

Absent == [state |-> "absent",  lock |-> NoWorker, made |-> 0, stalls |-> 0]

\* Queue.add and Queue.addBulk.
Added  == [state |-> "waiting", lock |-> NoWorker, made |-> 0, stalls |-> 0]

Settled(job) == job.state \in {"completed", "failed"}

\* How often the handler of the job has been entered.  An entry ends as a made
\* attempt, as a stall, or is the one that is running or that completed the job.
Starts(job) ==
    job.made + job.stalls + (IF job.state \in {"active", "completed"} THEN 1 ELSE 0)

\* The entries a job with this many attempts may see at most.
MaxStarts(attempts) == attempts + MaxStalled

-----------------------------------------------------------------------------
\* moveToActive: worker w takes the job under a fresh lock.
Taken(job, w) == [job EXCEPT !.state = "active", !.lock = w]

\* The lock runs out, with the worker alive or dead.
Unlocked(job) == [job EXCEPT !.lock = NoWorker]

\* moveToCompleted, by the holder of the lock.
Completed(job) == [job EXCEPT !.state = "completed", !.lock = NoWorker]

\* Mutant: attempts are not counted.
AttemptFailedUncounted(job, attempts) ==
    [job EXCEPT !.state = "waiting", !.lock = NoWorker]

\* moveToFailed, by the holder of the lock: retried at once while attempts are left.
AttemptFailed(job, attempts) ==
    [job EXCEPT !.state = IF job.made + 1 < attempts THEN "waiting" ELSE "failed",
                !.lock  = NoWorker,
                !.made  = job.made + 1]

\* moveStalledJobsToWait: an active job without a lock.
Stalled(job) == job.state = "active" /\ job.lock = NoWorker

Recovered(job) ==
    [job EXCEPT !.state  = IF job.stalls + 1 > MaxStalled THEN "failed" ELSE "waiting",
                !.stalls = job.stalls + 1]

-----------------------------------------------------------------------------
\* A job with this many attempts that only the operations of BullMQ touched.
JobInv(job, attempts) ==
    /\ job \in Job
    /\ job.state = "absent" => job = Absent
    /\ job.lock # NoWorker => job.state = "active"
    /\ job.state # "failed" => job.made < attempts /\ job.stalls <= MaxStalled
    /\ job.state = "failed" =>
         \/ job.made = attempts /\ job.stalls <= MaxStalled
         \/ job.made < attempts /\ job.stalls = MaxStalled + 1
=============================================================================
