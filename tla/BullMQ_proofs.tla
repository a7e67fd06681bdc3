---------------------------- MODULE BullMQ_proofs ----------------------------
(***************************************************************************)
(* What the operations of the queue do to one job, for any number of       *)
(* attempts and any maxStalledCount: they keep JobInv, and none but taking *)
(* the job starts it once more.                                            *)
(***************************************************************************)
EXTENDS BullMQ, TLAPS

\* new is old, queued as before and started as often.
Undisturbed(new, old) ==
    /\ Starts(new) = Starts(old)
    /\ new = Absent <=> old = Absent

-----------------------------------------------------------------------------
\* The handler is entered at most attempts + maxStalledCount times.
LEMMA StartsBounded ==
  ASSUME NEW attempts \in Nat \ {0}, NEW job, JobInv(job, attempts)
  PROVE  /\ Starts(job) \in Nat
         /\ Starts(job) <= MaxStarts(attempts)
         /\ job.state = "waiting" => Starts(job) + 1 <= MaxStarts(attempts)
  BY QueueAssumption DEF JobInv, Job, JobStates, Starts, MaxStarts

\* A job that was not added, or just was, has not started.
LEMMA FreshJobs ==
  ASSUME NEW attempts \in Nat \ {0}
  PROVE  /\ JobInv(Absent, attempts) /\ Starts(Absent) = 0
         /\ JobInv(Added, attempts) /\ Starts(Added) = 0
         /\ Added # Absent /\ Absent.state = "absent" /\ Added.state = "waiting"
  BY QueueAssumption DEF JobInv, Job, JobStates, Absent, Added, Starts

\* A job in any other state has been added.
LEMMA AddedOnce ==
  ASSUME NEW attempts, NEW job, JobInv(job, attempts)
  PROVE  job.state = "absent" <=> job = Absent
  BY DEF JobInv, Absent

\* Taking a waiting job is one more start.
LEMMA TakenJob ==
  ASSUME NEW attempts \in Nat \ {0}, NEW job, JobInv(job, attempts),
         NEW w \in Workers, job.state = "waiting"
  PROVE  /\ JobInv(Taken(job, w), attempts)
         /\ Starts(Taken(job, w)) = Starts(job) + 1
         /\ Taken(job, w).state = "active"
         /\ Taken(job, w) # Absent
  <1> DEFINE new == Taken(job, w)
  <1>1. /\ job \in Job /\ job.made \in Nat /\ job.stalls \in Nat
        /\ job.made < attempts /\ job.stalls <= MaxStalled
    BY DEF JobInv, Job
  <1>2. /\ new.state = "active"
        /\ new.lock = w
        /\ new.made = job.made
        /\ new.stalls = job.stalls
    BY <1>1 DEF Taken, Job
  <1>3. new \in Job
    BY <1>1, QueueAssumption DEF Taken, Job, JobStates
  <1>4. JobInv(new, attempts)
    BY <1>1, <1>2, <1>3, QueueAssumption DEF JobInv
  <1>5. job # Absent /\ new # Absent
    BY <1>1, <1>2 DEF Absent
  <1>6. Starts(new) = Starts(job) + 1
    BY <1>1, <1>2 DEF Starts
  <1> QED
    BY <1>2, <1>4, <1>5, <1>6

\* Losing the lock changes nothing else.
LEMMA UnlockedJob ==
  ASSUME NEW attempts \in Nat \ {0}, NEW job, JobInv(job, attempts),
         job.lock # NoWorker
  PROVE  /\ JobInv(Unlocked(job), attempts)
         /\ Undisturbed(Unlocked(job), job)
         /\ Unlocked(job).state = job.state
  BY QueueAssumption DEF JobInv, Job, JobStates, Unlocked, Starts, Absent, Undisturbed

\* Completing an active job.
LEMMA CompletedJob ==
  ASSUME NEW attempts \in Nat \ {0}, NEW job, JobInv(job, attempts),
         job.state = "active"
  PROVE  /\ JobInv(Completed(job), attempts)
         /\ Undisturbed(Completed(job), job)
         /\ Completed(job).state = "completed"
  <1> DEFINE new == Completed(job)
  <1>1. /\ job \in Job /\ job.made \in Nat /\ job.stalls \in Nat
        /\ job.made < attempts /\ job.stalls <= MaxStalled
    BY DEF JobInv, Job
  <1>2. /\ new.state = "completed"
        /\ new.lock = NoWorker
        /\ new.made = job.made
        /\ new.stalls = job.stalls
    BY <1>1 DEF Completed, Job
  <1>3. new \in Job
    BY <1>1, QueueAssumption DEF Completed, Job, JobStates
  <1>4. JobInv(new, attempts)
    BY <1>1, <1>2, <1>3, QueueAssumption DEF JobInv
  <1>5. job # Absent /\ new # Absent
    BY <1>1, <1>2 DEF Absent
  <1> QED
    BY <1>1, <1>2, <1>4, <1>5 DEF Starts, Undisturbed

\* A failed attempt puts the job back or, the last one, fails it.
LEMMA AttemptFailedJob ==
  ASSUME NEW attempts \in Nat \ {0}, NEW job, JobInv(job, attempts),
         job.state = "active"
  PROVE  /\ JobInv(AttemptFailed(job, attempts), attempts)
         /\ Undisturbed(AttemptFailed(job, attempts), job)
         /\ AttemptFailed(job, attempts).state \in {"waiting", "failed"}
  <1> DEFINE new == AttemptFailed(job, attempts)
  <1>1. /\ job \in Job /\ job.made \in Nat /\ job.stalls \in Nat
        /\ job.made < attempts /\ job.stalls <= MaxStalled
    BY DEF JobInv, Job
  <1>2. /\ new.state = IF job.made + 1 < attempts THEN "waiting" ELSE "failed"
        /\ new.lock = NoWorker
        /\ new.made = job.made + 1
        /\ new.stalls = job.stalls
    BY <1>1 DEF AttemptFailed, Job
  <1>3. new \in Job
    <2> DEFINE next == IF job.made + 1 < attempts THEN "waiting" ELSE "failed"
             count == job.made + 1
    <2>1. new = [job EXCEPT !.state = next, !.lock = NoWorker, !.made = count]
      BY DEF AttemptFailed
    <2>2. next \in JobStates
      BY DEF JobStates
    <2>3. count \in Nat
      BY <1>1
    <2> HIDE DEF next, count
    <2> QED
      BY <1>1, <2>1, <2>2, <2>3, QueueAssumption DEF Job
  <1>4. JobInv(new, attempts)
    BY <1>1, <1>2, <1>3, QueueAssumption DEF JobInv
  <1>5. job # Absent /\ new # Absent
    BY <1>1, <1>2 DEF Absent
  <1> QED
    BY <1>1, <1>2, <1>4, <1>5 DEF Starts, Undisturbed

\* The stalled check puts the job back or fails it.
LEMMA RecoveredJob ==
  ASSUME NEW attempts \in Nat \ {0}, NEW job, JobInv(job, attempts), Stalled(job)
  PROVE  /\ JobInv(Recovered(job), attempts)
         /\ Undisturbed(Recovered(job), job)
         /\ Recovered(job).state \in {"waiting", "failed"}
  <1> DEFINE new == Recovered(job)
  <1>1. /\ job \in Job /\ job.made \in Nat /\ job.stalls \in Nat
        /\ job.made < attempts /\ job.stalls <= MaxStalled
        /\ job.state = "active" /\ job.lock = NoWorker
    BY DEF JobInv, Job, Stalled
  <1>2. /\ new.state = IF job.stalls + 1 > MaxStalled THEN "failed" ELSE "waiting"
        /\ new.lock = NoWorker
        /\ new.made = job.made
        /\ new.stalls = job.stalls + 1
    BY <1>1 DEF Recovered, Job
  <1>3. new \in Job
    <2> DEFINE next == IF job.stalls + 1 > MaxStalled THEN "failed" ELSE "waiting"
             count == job.stalls + 1
    <2>1. new = [job EXCEPT !.state = next, !.stalls = count]
      BY DEF Recovered
    <2>2. next \in JobStates
      BY DEF JobStates
    <2>3. count \in Nat
      BY <1>1
    <2> HIDE DEF next, count
    <2> QED
      BY <1>1, <2>1, <2>2, <2>3, QueueAssumption DEF Job
  <1>4. JobInv(new, attempts)
    BY <1>1, <1>2, <1>3, QueueAssumption DEF JobInv
  <1>5. job # Absent /\ new # Absent
    BY <1>1, <1>2 DEF Absent, Stalled
  <1> QED
    BY <1>1, <1>2, <1>4, <1>5 DEF Starts, Undisturbed
=============================================================================
