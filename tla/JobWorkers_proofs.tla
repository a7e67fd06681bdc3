-------------------------- MODULE JobWorkers_proofs --------------------------
(***************************************************************************)
(* What the steps of a worker do to the jobs of a queue and to the other   *)
(* workers, for any set of jobs of any attempts, and any handlers.         *)
(***************************************************************************)
EXTENDS JobWorkers, BullMQ_proofs

-----------------------------------------------------------------------------
(***************************************************************************)
(* The queue of a component: its jobs, how many attempts each has, where   *)
(* its handlers may stand, and the jobs that are added once only.  Of      *)
(* those, no two workers are ever in the same entry, also when one of them *)
(* lost its lock and goes on with a job that is run again.                 *)
(***************************************************************************)
\* Jobs and workers are what they should be.
QueueTypes(keys, pcs) ==
    /\ job \in [keys -> Job]
    /\ worker \in [Workers -> [pc: pcs, key: keys \cup {NoKey}, entry: Nat]]

\* A worker out of "idle" runs a job, in an entry that was counted.
WorkersOK(keys, once) ==
    \A w \in Workers :
        /\ worker[w].pc = "idle" => worker[w] = Idle
        /\ worker[w].pc # "idle" => worker[w].key \in keys
        /\ worker[w].pc # "idle" /\ worker[w].key \in once =>
              worker[w].entry \in 1 .. Starts(job[worker[w].key])

\* Two workers run one job in different entries.
EntriesDiffer(once) ==
    \A v, w \in Workers :
        /\ v # w /\ worker[v].pc # "idle" /\ worker[w].pc # "idle"
        /\ worker[v].key = worker[w].key /\ worker[w].key \in once
        => worker[v].entry # worker[w].entry

\* The lock of a job is held by a worker that runs it.
LocksOK(keys) ==
    \A k \in keys, w \in Workers :
        job[k].lock = w => worker[w].pc # "idle" /\ worker[w].key = k

QueueInv(keys, attempts, pcs, once) ==
    /\ QueueTypes(keys, pcs)
    /\ \A k \in keys : JobInv(job[k], attempts[k])
    /\ WorkersOK(keys, once)
    /\ EntriesDiffer(once)
    /\ LocksOK(keys)

-----------------------------------------------------------------------------
\* The record of a worker without a job.
LEMMA IdleWorker ==
  ASSUME NEW keys, NEW pcs, "idle" \in pcs
  PROVE  Idle \in [pc: pcs, key: keys \cup {NoKey}, entry: Nat] /\ Idle.pc = "idle"
  BY DEF Idle

\* A worker that goes on keeps its job and its entry, and the others theirs.
LEMMA GoneOn ==
  ASSUME NEW keys, NEW pcs, QueueTypes(keys, pcs),
         NEW w \in Workers, NEW pc \in pcs, Goto(w, pc)
  PROVE  /\ worker' \in [Workers -> [pc: pcs, key: keys \cup {NoKey}, entry: Nat]]
         /\ worker'[w].pc = pc
         /\ worker'[w].key = worker[w].key
         /\ worker'[w].entry = worker[w].entry
         /\ \A v \in Workers : v # w => worker'[v] = worker[v]
  BY DEF QueueTypes, Goto

\* Handlers that go on, and jobs that are added, or added again when they are done.
LEMMA MoveStep ==
  ASSUME NEW keys, NEW attempts \in [keys -> Nat \ {0}], NEW pcs, NEW once,
         QueueInv(keys, attempts, pcs, once),
         NEW added \in SUBSET keys,
         \A k \in added : job[k] = Absent \/ (k \notin once /\ job[k].state = "completed"),
         UNCHANGED job \/ Add(added),
         \/ UNCHANGED worker
         \/ \E w \in Workers, pc \in pcs \ {"idle"} : worker[w].pc # "idle" /\ Goto(w, pc)
  PROVE  QueueInv(keys, attempts, pcs, once)'
  <1> USE DEF QueueInv
  <1>1. /\ job' \in [keys -> Job]
        /\ \A k \in keys :
              /\ JobInv(job'[k], attempts[k])
              /\ k \in once => Starts(job'[k]) = Starts(job[k])
              /\ job'[k].lock = job[k].lock \/ job'[k].lock = NoWorker
    <2>1. CASE UNCHANGED job
      BY <2>1 DEF QueueTypes
    <2>2. CASE Add(added)
      <3>1. job' = [k \in keys |-> IF k \in added THEN Added ELSE job[k]]
        BY <2>2 DEF Add, QueueTypes
      <3>2. Added \in Job /\ Added.lock = NoWorker
        BY FreshJobs DEF JobInv, Added, Job, JobStates
      <3>3. \A k \in keys : JobInv(Added, attempts[k]) /\ Starts(Added) = 0 /\ Starts(Absent) = 0
        BY FreshJobs
      <3> QED
        BY <3>1, <3>2, <3>3 DEF QueueTypes
    <2> QED
      BY <2>1, <2>2
  <1>2. /\ worker' \in [Workers -> [pc: pcs, key: keys \cup {NoKey}, entry: Nat]]
        /\ \A w \in Workers :
              \/ worker'[w] = worker[w]
              \/ /\ worker[w].pc # "idle" /\ worker'[w].pc # "idle"
                 /\ worker'[w].key = worker[w].key /\ worker'[w].entry = worker[w].entry
    <2>1. CASE UNCHANGED worker
      BY <2>1 DEF QueueTypes
    <2>2. ASSUME NEW w \in Workers, NEW pc \in pcs \ {"idle"}, worker[w].pc # "idle", Goto(w, pc)
          PROVE  <1>2!1 /\ <1>2!2
      BY <2>2, GoneOn
    <2> QED
      BY <2>1, <2>2
  <1>3. QueueTypes(keys, pcs)'
    BY <1>1, <1>2 DEF QueueTypes
  <1>4. WorkersOK(keys, once)'
    BY <1>1, <1>2 DEF WorkersOK
  <1>5. EntriesDiffer(once)'
    BY <1>2 DEF EntriesDiffer
  <1>6. LocksOK(keys)'
    BY <1>1, <1>2, QueueAssumption DEF LocksOK
  <1> QED
    BY <1>1, <1>3, <1>4, <1>5, <1>6

\* A worker takes a job: one more start, the entry of which is its own.
LEMMA TakeStep ==
  ASSUME NEW keys, NEW attempts \in [keys -> Nat \ {0}], NEW pcs, NEW once,
         QueueInv(keys, attempts, pcs, once),
         NEW w \in Workers, NEW k \in keys, NEW pc \in pcs \ {"idle"}, TakeJob(w, k, pc)
  PROVE  /\ QueueInv(keys, attempts, pcs, once)'
         /\ worker[w].pc = "idle"
         /\ worker'[w] = [pc |-> pc, key |-> k, entry |-> Starts(job[k]) + 1]
         /\ \A v \in Workers : v # w => worker'[v] = worker[v]
         /\ Starts(job[k]) \in Nat /\ Starts(job'[k]) = Starts(job[k]) + 1
         /\ job[k].state = "waiting" /\ job'[k].state = "active" /\ job'[k] # Absent
         /\ job'[k].made = job[k].made
         /\ \A j \in keys : j # k => job'[j] = job[j]
  <1> USE DEF QueueInv
  <1>1. /\ worker[w] = Idle /\ job[k].state = "waiting"
        /\ job' = [job EXCEPT ![k] = Taken(job[k], w)]
        /\ worker' = [worker EXCEPT ![w] = [pc |-> pc, key |-> k, entry |-> Starts(job[k]) + 1]]
    BY DEF TakeJob
  <1>2. JobInv(job[k], attempts[k]) /\ attempts[k] \in Nat \ {0}
    OBVIOUS
  <1>3. /\ JobInv(Taken(job[k], w), attempts[k])
        /\ Starts(Taken(job[k], w)) = Starts(job[k]) + 1
        /\ Taken(job[k], w).state = "active" /\ Taken(job[k], w) # Absent
    BY <1>1, <1>2, TakenJob
  <1>4. Starts(job[k]) \in Nat
    BY <1>2, StartsBounded
  <1>5. /\ job' \in [keys -> Job] /\ job'[k] = Taken(job[k], w)
        /\ \A j \in keys : j # k => job'[j] = job[j]
    BY <1>1, <1>3 DEF QueueTypes, JobInv
  <1>6. /\ worker' \in [Workers -> [pc: pcs, key: keys \cup {NoKey}, entry: Nat]]
        /\ worker'[w] = [pc |-> pc, key |-> k, entry |-> Starts(job[k]) + 1]
        /\ \A v \in Workers : v # w => worker'[v] = worker[v]
    BY <1>1, <1>4 DEF QueueTypes
  <1>7. QueueTypes(keys, pcs)'
    BY <1>5, <1>6 DEF QueueTypes
  <1>8. \A j \in keys : JobInv(job'[j], attempts[j])
    BY <1>3, <1>5
  <1>9. WorkersOK(keys, once)'
    BY <1>3, <1>4, <1>5, <1>6 DEF WorkersOK
  <1>10. EntriesDiffer(once)'
    BY <1>4, <1>6 DEF EntriesDiffer, WorkersOK
  <1>11. LocksOK(keys)'
    <2>1. Taken(job[k], w).lock = w /\ Taken(job[k], w).made = job[k].made
      BY DEF Taken, QueueTypes, Job
    <2>2. Idle.pc = "idle"
      BY DEF Idle
    <2> QED
      BY <1>1, <1>5, <1>6, <2>1, <2>2 DEF LocksOK
  <1>12. job'[k].made = job[k].made
    BY <1>5 DEF Taken, QueueTypes, Job
  <1>13. worker[w].pc = "idle"
    BY <1>1 DEF Idle
  <1> QED
    BY <1>1, <1>3, <1>4, <1>5, <1>6, <1>7, <1>8, <1>9, <1>10, <1>11, <1>12, <1>13

\* Steps after which jobs have started as often as before, hold no new lock, and
\* workers go on as they are or have left their job.
LEMMA QuietStep ==
  ASSUME NEW keys, NEW attempts \in [keys -> Nat \ {0}], NEW pcs, NEW once, "idle" \in pcs,
         QueueInv(keys, attempts, pcs, once),
         QueueTypes(keys, pcs)',
         \A k \in keys : JobInv(job'[k], attempts[k]) /\ Undisturbed(job'[k], job[k]),
         \A w \in Workers : worker'[w] \in {worker[w], Idle},
         \A k \in keys, w \in Workers :
            job'[k].lock = w => job[k].lock = w /\ worker'[w] = worker[w]
  PROVE  QueueInv(keys, attempts, pcs, once)'
  <1> USE DEF QueueInv
  <1>1. \A w \in Workers : worker[w].pc # "idle" => worker[w].key \in keys
    BY DEF WorkersOK
  <1>2. WorkersOK(keys, once)'
    <2> SUFFICES ASSUME NEW w \in Workers
                 PROVE  /\ worker'[w].pc = "idle" => worker'[w] = Idle
                        /\ worker'[w].pc # "idle" => worker'[w].key \in keys
                        /\ worker'[w].pc # "idle" /\ worker'[w].key \in once =>
                              worker'[w].entry \in 1 .. Starts(job'[worker'[w].key])
      BY DEF WorkersOK
    <2>1. CASE worker'[w] = Idle
      BY <2>1, IdleWorker
    <2>2. CASE worker'[w] = worker[w]
      <3>1. worker[w].pc # "idle" => Starts(job'[worker[w].key]) = Starts(job[worker[w].key])
        BY <1>1 DEF Undisturbed
      <3> QED
        BY <2>2, <3>1 DEF WorkersOK
    <2> QED
      BY <2>1, <2>2
  <1>3. EntriesDiffer(once)'
    BY IdleWorker DEF EntriesDiffer
  <1>4. LocksOK(keys)'
    BY DEF LocksOK
  <1> QED
    BY <1>2, <1>3, <1>4

\* A worker reports what became of its job, and leaves it.  Only a job it holds the
\* lock of, which is active, takes notice.
LEMMA SettleStep ==
  ASSUME NEW keys, NEW attempts \in [keys -> Nat \ {0}], NEW pcs, NEW once, "idle" \in pcs,
         QueueInv(keys, attempts, pcs, once),
         NEW w \in Workers, worker[w].pc # "idle",
         SucceedJob(w) \/ FailJob(w, attempts[worker[w].key])
  PROVE  /\ QueueInv(keys, attempts, pcs, once)'
         /\ worker[w].key \in keys
         /\ worker'[w] = Idle /\ Idle.pc = "idle"
         /\ \A v \in Workers : v # w => worker'[v] = worker[v]
         /\ \A k \in keys : Undisturbed(job'[k], job[k])
         /\ \A k \in keys : k # worker[w].key => job'[k] = job[k]
         /\ \/ job'[worker[w].key] = job[worker[w].key]
            \/ /\ job[worker[w].key].state = "active"
               /\ SucceedJob(w) => job'[worker[w].key].state = "completed"
               /\ ~SucceedJob(w) => job'[worker[w].key].state \in {"waiting", "failed"}
  <1> USE DEF QueueInv
  <1> DEFINE k == worker[w].key
             outcome == IF SucceedJob(w) THEN Completed(job[k])
                                         ELSE AttemptFailed(job[k], attempts[k])
  <1>1. k \in keys /\ JobInv(job[k], attempts[k]) /\ attempts[k] \in Nat \ {0}
    BY DEF WorkersOK
  <1>2. /\ job' = [job EXCEPT ![k] = IF job[k].lock = w THEN outcome ELSE job[k]]
        /\ worker' = [worker EXCEPT ![w] = Idle]
    BY DEF SucceedJob, FailJob, Settle, Leave
  <1>3. job[k].lock = w =>
           /\ job[k].state = "active"
           /\ JobInv(outcome, attempts[k]) /\ Undisturbed(outcome, job[k])
           /\ outcome.lock = NoWorker
           /\ SucceedJob(w) => outcome.state = "completed"
           /\ ~SucceedJob(w) => outcome.state \in {"waiting", "failed"}
    <2> SUFFICES ASSUME job[k].lock = w
                 PROVE  /\ job[k].state = "active"
                        /\ JobInv(outcome, attempts[k]) /\ Undisturbed(outcome, job[k])
                        /\ outcome.lock = NoWorker
                        /\ SucceedJob(w) => outcome.state = "completed"
                        /\ ~SucceedJob(w) => outcome.state \in {"waiting", "failed"}
      OBVIOUS
    <2>1. job[k].state = "active"
      BY <1>1, QueueAssumption DEF JobInv
    <2>2. CASE SucceedJob(w)
      <3>1. outcome = Completed(job[k])
        BY <2>2
      <3>2. Completed(job[k]).lock = NoWorker
        BY <1>1 DEF Completed, JobInv, Job
      <3> HIDE DEF outcome
      <3> QED
        BY <1>1, <2>1, <2>2, <3>1, <3>2, CompletedJob
    <2>3. CASE ~SucceedJob(w)
      <3>1. outcome = AttemptFailed(job[k], attempts[k])
        BY <2>3
      <3>2. AttemptFailed(job[k], attempts[k]).lock = NoWorker
        BY <1>1 DEF AttemptFailed, JobInv, Job
      <3> HIDE DEF outcome
      <3> QED
        BY <1>1, <2>1, <2>3, <3>1, <3>2, AttemptFailedJob
    <2> QED
      BY <2>2, <2>3
  <1> HIDE DEF outcome
  <1>4. /\ job' \in [keys -> Job]
        /\ job'[k] = IF job[k].lock = w THEN outcome ELSE job[k]
        /\ \A j \in keys : j # k => job'[j] = job[j]
    BY <1>1, <1>2, <1>3 DEF QueueTypes, JobInv
  <1>5. /\ worker' \in [Workers -> [pc: pcs, key: keys \cup {NoKey}, entry: Nat]]
        /\ worker'[w] = Idle
        /\ \A v \in Workers : v # w => worker'[v] = worker[v]
    BY <1>2, IdleWorker DEF QueueTypes
  <1>6. \A j \in keys : JobInv(job'[j], attempts[j]) /\ Undisturbed(job'[j], job[j])
    BY <1>1, <1>3, <1>4 DEF Undisturbed
  <1>7. \A j \in keys, v \in Workers :
           job'[j].lock = v => job[j].lock = v /\ worker'[v] = worker[v]
    BY <1>3, <1>4, <1>5, QueueAssumption DEF LocksOK
  <1>8. QueueInv(keys, attempts, pcs, once)'
    <2>1. QueueTypes(keys, pcs)'
      BY <1>4, <1>5 DEF QueueTypes
    <2>2. \A v \in Workers : worker'[v] \in {worker[v], Idle}
      BY <1>5
    <2> QED
      BY <1>6, <1>7, <2>1, <2>2, QuietStep
  <1> QED
    BY <1>1, <1>3, <1>4, <1>5, <1>6, <1>8 DEF Idle

\* Locks run out, with or without the worker: jobs stay as far as they are.
LEMMA ReleaseStep ==
  ASSUME NEW keys, NEW attempts \in [keys -> Nat \ {0}], NEW pcs, NEW once, "idle" \in pcs,
         QueueInv(keys, attempts, pcs, once),
         NEW w \in Workers, CrashWorker(w) \/ ExpireLock(w)
  PROVE  /\ QueueInv(keys, attempts, pcs, once)'
         /\ CrashWorker(w) => worker'[w] = Idle /\ Idle.pc = "idle"
         /\ ExpireLock(w) => worker' = worker
         /\ \A v \in Workers : v # w => worker'[v] = worker[v]
         /\ \A k \in keys : Undisturbed(job'[k], job[k]) /\ job'[k].state = job[k].state
  <1> USE DEF QueueInv
  <1>1. job' = [k \in keys |-> IF job[k].lock = w THEN Unlocked(job[k]) ELSE job[k]]
    BY DEF CrashWorker, ExpireLock, ReleaseLocks, QueueTypes
  <1>2. \A k \in keys : job[k].lock = w =>
           /\ JobInv(Unlocked(job[k]), attempts[k]) /\ Undisturbed(Unlocked(job[k]), job[k])
           /\ Unlocked(job[k]).state = job[k].state /\ Unlocked(job[k]).lock = NoWorker
    <2> SUFFICES ASSUME NEW k \in keys, job[k].lock = w
                 PROVE  /\ JobInv(Unlocked(job[k]), attempts[k])
                        /\ Undisturbed(Unlocked(job[k]), job[k])
                        /\ Unlocked(job[k]).state = job[k].state
                        /\ Unlocked(job[k]).lock = NoWorker
      OBVIOUS
    <2>1. JobInv(job[k], attempts[k]) /\ attempts[k] \in Nat \ {0} /\ job[k].lock # NoWorker
      BY QueueAssumption
    <2>2. Unlocked(job[k]).lock = NoWorker
      BY <2>1 DEF Unlocked, JobInv, Job
    <2> QED
      BY <2>1, <2>2, UnlockedJob
  <1>3. \A k \in keys : /\ JobInv(job'[k], attempts[k]) /\ Undisturbed(job'[k], job[k])
                        /\ job'[k].state = job[k].state
                        /\ job'[k].lock # w
                        /\ job'[k].lock # NoWorker => job'[k].lock = job[k].lock
    BY <1>1, <1>2, QueueAssumption DEF Undisturbed
  <1>4. /\ worker' \in [Workers -> [pc: pcs, key: keys \cup {NoKey}, entry: Nat]]
        /\ CrashWorker(w) => worker'[w] = Idle
        /\ ExpireLock(w) => worker' = worker
        /\ \A v \in Workers : v # w => worker'[v] = worker[v]
    BY IdleWorker DEF CrashWorker, ExpireLock, Leave, QueueTypes
  <1>5. QueueTypes(keys, pcs)'
    BY <1>1, <1>3, <1>4 DEF QueueTypes, JobInv
  <1>6. QueueInv(keys, attempts, pcs, once)'
    <2>1. \A v \in Workers : worker'[v] \in {worker[v], Idle}
      BY <1>4
    <2>2. \A k \in keys, v \in Workers :
             job'[k].lock = v => job[k].lock = v /\ worker'[v] = worker[v]
      BY <1>3, <1>4, QueueAssumption
    <2> QED
      BY <1>3, <1>5, <2>1, <2>2, QuietStep
  <1> QED
    BY <1>3, <1>4, <1>6 DEF Idle

\* The stalled check takes notice of one active job.
LEMMA RecoverStep ==
  ASSUME NEW keys, NEW attempts \in [keys -> Nat \ {0}], NEW pcs, NEW once, "idle" \in pcs,
         QueueInv(keys, attempts, pcs, once),
         NEW k \in keys, RecoverJob(k)
  PROVE  /\ QueueInv(keys, attempts, pcs, once)'
         /\ worker' = worker
         /\ job[k].state = "active" /\ job'[k].state \in {"waiting", "failed"}
         /\ \A j \in keys : Undisturbed(job'[j], job[j])
         /\ \A j \in keys : j # k => job'[j] = job[j]
  <1> USE DEF QueueInv
  <1>1. /\ Stalled(job[k]) /\ worker' = worker
        /\ job' = [job EXCEPT ![k] = Recovered(job[k])]
    BY DEF RecoverJob
  <1>2. JobInv(job[k], attempts[k]) /\ attempts[k] \in Nat \ {0}
    OBVIOUS
  <1>3. /\ JobInv(Recovered(job[k]), attempts[k]) /\ Undisturbed(Recovered(job[k]), job[k])
        /\ Recovered(job[k]).state \in {"waiting", "failed"}
    BY <1>1, <1>2, RecoveredJob
  <1>4. Recovered(job[k]).lock = NoWorker
    BY <1>1, <1>2 DEF Recovered, Stalled, JobInv, Job
  <1>5. /\ job' \in [keys -> Job] /\ job'[k] = Recovered(job[k])
        /\ \A j \in keys : j # k => job'[j] = job[j]
    BY <1>1, <1>3 DEF QueueTypes, JobInv
  <1>6. \A j \in keys : JobInv(job'[j], attempts[j]) /\ Undisturbed(job'[j], job[j])
    BY <1>3, <1>5 DEF Undisturbed
  <1>7. QueueTypes(keys, pcs)'
    BY <1>1, <1>5 DEF QueueTypes
  <1>8. \A j \in keys, v \in Workers :
           job'[j].lock = v => job[j].lock = v /\ worker'[v] = worker[v]
    BY <1>1, <1>4, <1>5, QueueAssumption
  <1>9. \A v \in Workers : worker'[v] \in {worker[v], Idle}
    BY <1>1
  <1>10. QueueInv(keys, attempts, pcs, once)'
    BY <1>6, <1>7, <1>8, <1>9, QuietStep
  <1> QED
    BY <1>1, <1>3, <1>5, <1>6, <1>10 DEF Stalled
=============================================================================
