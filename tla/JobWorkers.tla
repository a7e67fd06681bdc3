----------------------------- MODULE JobWorkers -----------------------------
(***************************************************************************)
(* src/worker/ignitor/worker_ignitor.ts, for the components whose queues   *)
(* hold jobs of several kinds: workers take jobs, run a handler split at   *)
(* its awaits, and settle the job.  A component adds the handlers; each    *)
(* operator here is the part of a step that concerns the queue.            *)
(***************************************************************************)
EXTENDS BullMQ

CONSTANT NoKey   \* the job of a worker that runs none

VARIABLES
    job,     \* job[k]: the jobs of the component's queue
    worker   \* worker[w]: where its handler stands, the job, which entry of it

Idle == [pc |-> "idle", key |-> NoKey, entry |-> 0]

Entry(w) == worker[w].entry

-----------------------------------------------------------------------------
Goto(w, pc) == worker' = [worker EXCEPT ![w].pc = pc]

Leave(w) == worker' = [worker EXCEPT ![w] = Idle]

\* Queue.add or addBulk of these jobs, from anywhere.
Add(keys) == job' = [k \in DOMAIN job |-> IF k \in keys THEN Added ELSE job[k]]

\* Worker w takes job k, whose handler starts at pc.
TakeJob(w, k, pc) ==
    /\ worker[w] = Idle
    /\ job[k].state = "waiting"
    /\ job' = [job EXCEPT ![k] = Taken(@, w)]
    /\ worker' = [worker EXCEPT ![w] =
           [pc |-> pc, key |-> k, entry |-> Starts(job[k]) + 1]]

\* BullMQ ignores what a worker reports of a job it lost the lock of.
Settle(w, outcome) ==
    LET k == worker[w].key
    IN  /\ job' = [job EXCEPT ![k] = IF @.lock = w THEN outcome ELSE @]
        /\ Leave(w)

\* The handler returned done.
SucceedJob(w) == Settle(w, Completed(job[worker[w].key]))

\* The handler returned fail, which processJob throws, or it threw.
FailJob(w, attempts) == Settle(w, AttemptFailed(job[worker[w].key], attempts))

\* The jobs w holds a lock on lose it.
ReleaseLocks(w) ==
    job' = [k \in DOMAIN job |-> IF job[k].lock = w THEN Unlocked(job[k]) ELSE job[k]]

\* The process of w dies and is started again.
CrashWorker(w) ==
    /\ worker[w] # Idle
    /\ Leave(w)
    /\ ReleaseLocks(w)

\* The lock runs out under a handler that goes on.
ExpireLock(w) ==
    /\ \E k \in DOMAIN job : job[k].lock = w
    /\ ReleaseLocks(w)
    /\ UNCHANGED worker

\* The stalled check finds job k without a lock.
RecoverJob(k) ==
    /\ Stalled(job[k])
    /\ job' = [job EXCEPT ![k] = Recovered(@)]
    /\ UNCHANGED worker
=============================================================================
