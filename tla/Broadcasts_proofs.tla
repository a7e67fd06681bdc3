-------------------------- MODULE Broadcasts_proofs --------------------------
(***************************************************************************)
(* First the workers: BroadcastDelivery implements DeliveryPromise, and a  *)
(* SendBroadcastJob that completed is whole, for any number of workers,    *)
(* requests, contacts, attempts and tolerated stalls.  Then the HTTP       *)
(* requests, for any number of requests, editors, filters and patches.     *)
(* Then both together: what each side was proved to keep alone, it keeps   *)
(* beside the other, and no mail is sent that no request asked for.        *)
(***************************************************************************)
EXTENDS Broadcasts, BroadcastDelivery_inv, BullMQ_proofs, FiniteSetTheorems

-----------------------------------------------------------------------------
(* What the records of the model are. *)

\* Every job has an attempt to make.
LEMMA AttemptsPositive ==
  SendAttempts \in Nat \ {0} /\ ContactAttempts \in Nat \ {0}
  BY DeliveryAssumption DEF SendAttempts

\* A task is one of three kinds, and its kind says what it holds.
LEMMA TaskKinds ==
  ASSUME NEW t \in Tasks
  PROVE  /\ t.kind \in {"none", "send", "contact"}
         /\ t.kind = "none" => t = NoTask
         /\ t.kind = "send" => t.request \in Requests
         /\ t.kind = "contact" => t.key \in ContactJobs
  BY DEF Tasks, NoTask, SendTasks, ContactTasks

\* An idle worker and its page.
LEMMA IdleRecord ==
  /\ Idle \in [pc: Pcs, task: Tasks, entry: Nat]
  /\ Idle.pc = "idle" /\ Idle.task = NoTask /\ NoTask.kind = "none"
  /\ BlankPage \in [batch: Batches, filter: Filters \cup {NoFilter}, ids: SUBSET Contacts]
  /\ BlankPage.batch = 0
  BY DEF Idle, NoTask, Tasks, Pcs, BlankPage, Batches, LastBatch

-----------------------------------------------------------------------------
(* Steps that start nothing: jobs keep their starts, and workers go on as   *)
(* they are or leave their job.                                             *)

\* Such a step keeps the invariant.
LEMMA QuietStep ==
  ASSUME DeliveryInv, QueueTypeOK', JobsOK',
         \A r \in Requests : Starts(sendJob'[r]) = Starts(sendJob[r]),
         \A k \in ContactJobs : Undisturbed(contactJob'[k], contactJob[k]),
         \A v \in Workers :
            \/ worker'[v] = worker[v] /\ page'[v] = page[v]
            \/ worker'[v] = Idle /\ page'[v] = BlankPage,
         UNCHANGED <<mailed, keyed>>
  PROVE  DeliveryInv'
  <1> USE DEF DeliveryInv
  <1>1. \A v \in Workers :
           /\ worker[v].task \in Tasks
           /\ worker[v].task.kind = "send" => worker[v].task.request \in Requests
           /\ worker[v].task.kind = "contact" => worker[v].task.key \in ContactJobs
    BY TaskKinds DEF QueueTypeOK, DeliveryTypeOK
  <1>2. HandlersOK'
    BY IdleRecord DEF HandlersOK, SendPcs, ContactPcs
  <1>3. EntriesOK'
    BY <1>1, IdleRecord DEF EntriesOK, Undisturbed
  <1>4. EntriesDiffer'
    BY IdleRecord DEF EntriesDiffer
  <1>5. MailsOK'
    BY DEF MailsOK, Undisturbed
  <1>6. ProgressOK'
    BY <1>1, IdleRecord DEF ProgressOK
  <1>7. PagesOK'
    <2>1. \A k \in ContactJobs : k.request \in Requests
      BY DEF ContactJobs
    <2>2. ASSUME NEW v \in Workers, NEW k \in ContactJobs,
                 worker'[v].pc \in SendPcs,
                 k.request = worker'[v].task.request,
                 k.run = worker'[v].entry,
                 k.batch >= page'[v].batch
          PROVE  contactJob'[k] = Absent
      <3>1. worker'[v] = worker[v] /\ page'[v] = page[v]
        BY <2>2, IdleRecord DEF SendPcs
      <3> QED
        BY <2>2, <3>1 DEF PagesOK, Undisturbed
    <2>3. ASSUME NEW k \in ContactJobs, k.run > Starts(sendJob'[k.request])
          PROVE  contactJob'[k] = Absent
      BY <2>1, <2>3 DEF PagesOK, Undisturbed
    <2> QED
      BY <2>2, <2>3 DEF PagesOK
  <1> QED
    BY <1>2, <1>3, <1>4, <1>5, <1>6, <1>7

\* The outcome a worker reports for a job changes it only if it holds the lock.
LEMMA SettledByHolder ==
  ASSUME NEW w \in Workers, NEW attempts \in Nat \ {0},
         NEW job, JobInv(job, attempts)
  PROVE  /\ JobInv(SettledBy(job, w, Completed(job)), attempts)
         /\ Undisturbed(SettledBy(job, w, Completed(job)), job)
         /\ JobInv(SettledBy(job, w, AttemptFailed(job, attempts)), attempts)
         /\ Undisturbed(SettledBy(job, w, AttemptFailed(job, attempts)), job)
  <1>1. CASE job.lock = w
    <2>1. job.state = "active"
      BY <1>1, QueueAssumption DEF JobInv
    <2> QED
      BY <1>1, <2>1, CompletedJob, AttemptFailedJob DEF SettledBy
  <1>2. CASE job.lock # w
    BY <1>2 DEF SettledBy, Undisturbed
  <1> QED
    BY <1>1, <1>2

\* A worker that leaves keeps the types of workers and pages.
LEMMA LeaveTypes ==
  ASSUME DeliveryInv, NEW w \in Workers, Leave(w)
  PROVE  /\ worker' \in [Workers -> [pc: Pcs, task: Tasks, entry: Nat]]
         /\ page' \in [Workers -> [batch: Batches, filter: Filters \cup {NoFilter},
                                   ids: SUBSET Contacts]]
         /\ \A v \in Workers :
               \/ worker'[v] = worker[v] /\ page'[v] = page[v]
               \/ worker'[v] = Idle /\ page'[v] = BlankPage
  BY IdleRecord DEF Leave, DeliveryInv, QueueTypeOK, DeliveryTypeOK

\* A worker leaves its job, the job keeps JobInv and has not started again.
LEMMA SettleStep ==
  ASSUME DeliveryInv, NEW w \in Workers, Leave(w), NEW new,
         \/ /\ worker[w].task.kind = "send"
            /\ sendJob' = [sendJob EXCEPT ![worker[w].task.request] = new]
            /\ UNCHANGED contactJob
            /\ JobInv(new, SendAttempts)
            /\ Undisturbed(new, sendJob[worker[w].task.request])
         \/ /\ worker[w].task.kind = "contact"
            /\ contactJob' = [contactJob EXCEPT ![worker[w].task.key] = new]
            /\ UNCHANGED sendJob
            /\ JobInv(new, ContactAttempts)
            /\ Undisturbed(new, contactJob[worker[w].task.key]),
         UNCHANGED <<row, abTestJob, matching, mailed, keyed>>
  PROVE  DeliveryInv'
  <1> USE DEF DeliveryInv
  <1>1. /\ worker[w].task.kind = "send" => worker[w].task.request \in Requests
        /\ worker[w].task.kind = "contact" => worker[w].task.key \in ContactJobs
    BY TaskKinds DEF QueueTypeOK, DeliveryTypeOK
  <1>2. /\ sendJob \in [Requests -> Job]
        /\ contactJob \in [ContactJobs -> Job]
    BY DEF QueueTypeOK, StateTypeOK, DeliveryTypeOK
  <1>3. new \in Job
    BY DEF JobInv
  <1>4. /\ sendJob' \in [Requests -> Job]
        /\ \A r \in Requests :
              JobInv(sendJob'[r], SendAttempts) /\ Undisturbed(sendJob'[r], sendJob[r])
    BY <1>1, <1>2, <1>3 DEF JobsOK, Undisturbed
  <1>5. /\ contactJob' \in [ContactJobs -> Job]
        /\ \A k \in ContactJobs :
              /\ JobInv(contactJob'[k], ContactAttempts)
              /\ Undisturbed(contactJob'[k], contactJob[k])
    BY <1>1, <1>2, <1>3 DEF JobsOK, Undisturbed
  <1>6. QueueTypeOK'
    BY <1>4, <1>5, LeaveTypes DEF QueueTypeOK, StateTypeOK, DeliveryTypeOK
  <1>7. JobsOK'
    BY <1>4, <1>5 DEF JobsOK
  <1> QED
    BY <1>4, <1>5, <1>6, <1>7, LeaveTypes, QuietStep DEF Undisturbed

\* A failed attempt of either kind of job.
LEMMA FailAttemptStep ==
  ASSUME DeliveryInv, NEW w \in Workers, FailAttempt(w),
         UNCHANGED <<row, abTestJob, matching, mailed, keyed>>
  PROVE  DeliveryInv'
  <1> DEFINE task == worker[w].task
             failedSend == SettledBy(sendJob[task.request], w,
                               AttemptFailed(sendJob[task.request], SendAttempts))
             failedContact == SettledBy(contactJob[task.key], w,
                                  AttemptFailed(contactJob[task.key], ContactAttempts))
  <1>1. /\ task.kind = "send" => task.request \in Requests
        /\ task.kind = "contact" => task.key \in ContactJobs
    BY TaskKinds DEF DeliveryInv, QueueTypeOK, DeliveryTypeOK
  <1>2. CASE /\ task.kind = "send"
             /\ sendJob' = [sendJob EXCEPT ![task.request] = failedSend]
             /\ UNCHANGED contactJob
    <2>1. JobInv(failedSend, SendAttempts) /\ Undisturbed(failedSend, sendJob[task.request])
      BY <1>1, <1>2, SettledByHolder, AttemptsPositive DEF DeliveryInv, JobsOK
    <2> HIDE DEF failedSend
    <2> QED
      BY <1>2, <2>1, SettleStep DEF FailAttempt
  <1>3. CASE /\ task.kind = "contact"
             /\ contactJob' = [contactJob EXCEPT ![task.key] = failedContact]
             /\ UNCHANGED sendJob
    <2>1. /\ JobInv(failedContact, ContactAttempts)
          /\ Undisturbed(failedContact, contactJob[task.key])
      BY <1>1, <1>3, SettledByHolder, AttemptsPositive DEF DeliveryInv, JobsOK
    <2> HIDE DEF failedContact
    <2> QED
      BY <1>3, <2>1, SettleStep DEF FailAttempt
  <1> QED
    BY <1>2, <1>3 DEF FailAttempt

\* The end of a handler that succeeded.
LEMMA SucceedStep ==
  ASSUME DeliveryInv, NEW w \in Workers, Succeed(w)
  PROVE  DeliveryInv'
  <1> DEFINE task == worker[w].task
             doneSend == SettledBy(sendJob[task.request], w,
                             Completed(sendJob[task.request]))
             doneContact == SettledBy(contactJob[task.key], w,
                                Completed(contactJob[task.key]))
  <1>1. /\ task.kind = "send" => task.request \in Requests
        /\ task.kind = "contact" => task.key \in ContactJobs
    BY TaskKinds DEF DeliveryInv, QueueTypeOK, DeliveryTypeOK
  <1>2. CASE /\ task.kind = "send"
             /\ sendJob' = [sendJob EXCEPT ![task.request] = doneSend]
             /\ UNCHANGED contactJob
    <2>1. JobInv(doneSend, SendAttempts) /\ Undisturbed(doneSend, sendJob[task.request])
      BY <1>1, <1>2, SettledByHolder, AttemptsPositive DEF DeliveryInv, JobsOK
    <2> HIDE DEF doneSend
    <2> QED
      BY <1>2, <2>1, SettleStep DEF Succeed
  <1>3. CASE /\ task.kind = "contact"
             /\ contactJob' = [contactJob EXCEPT ![task.key] = doneContact]
             /\ UNCHANGED sendJob
    <2>1. /\ JobInv(doneContact, ContactAttempts)
          /\ Undisturbed(doneContact, contactJob[task.key])
      BY <1>1, <1>3, SettledByHolder, AttemptsPositive DEF DeliveryInv, JobsOK
    <2> HIDE DEF doneContact
    <2> QED
      BY <1>3, <2>1, SettleStep DEF Succeed
  <1> QED
    BY <1>2, <1>3 DEF Succeed

\* Locks that are released change no job's starts or state.
LEMMA ReleasedJobs ==
  ASSUME DeliveryInv, NEW w \in Workers, ReleaseLocks(w)
  PROVE  /\ sendJob' \in [Requests -> Job]
         /\ contactJob' \in [ContactJobs -> Job]
         /\ JobsOK'
         /\ \A r \in Requests : Undisturbed(sendJob'[r], sendJob[r])
         /\ \A k \in ContactJobs :
               /\ Undisturbed(contactJob'[k], contactJob[k])
               /\ contactJob'[k].state = contactJob[k].state
  <1>1. ASSUME NEW r \in Requests
        PROVE  JobInv(sendJob'[r], SendAttempts) /\ Undisturbed(sendJob'[r], sendJob[r])
    <2>1. JobInv(sendJob[r], SendAttempts)
      BY DEF DeliveryInv, JobsOK
    <2> QED
      BY <2>1, UnlockedJob, AttemptsPositive, QueueAssumption
         DEF ReleaseLocks, Undisturbed
  <1>2. ASSUME NEW k \in ContactJobs
        PROVE  /\ JobInv(contactJob'[k], ContactAttempts)
               /\ Undisturbed(contactJob'[k], contactJob[k])
               /\ contactJob'[k].state = contactJob[k].state
    <2>1. JobInv(contactJob[k], ContactAttempts)
      BY DEF DeliveryInv, JobsOK
    <2> QED
      BY <2>1, UnlockedJob, AttemptsPositive, QueueAssumption
         DEF ReleaseLocks, Undisturbed
  <1>3. /\ \A r \in Requests : sendJob'[r] \in Job
        /\ \A k \in ContactJobs : contactJob'[k] \in Job
    BY <1>1, <1>2 DEF JobInv
  <1> QED
    BY <1>1, <1>2, <1>3 DEF ReleaseLocks, JobsOK

-----------------------------------------------------------------------------
(* Steps that start an entry or take one further. *)

\* Taking a SendBroadcastJob: the entry is new, so it has queued nothing.
LEMMA TakeSendStep ==
  ASSUME DeliveryInv, NEW w \in Workers, NEW r \in Requests, TakeSend(w, r)
  PROVE  DeliveryInv'
  <1> USE DEF DeliveryInv, TakeSend
  <1> DEFINE started == Starts(sendJob[r]) + 1
  <1>1. /\ JobInv(sendJob[r], SendAttempts)
        /\ JobInv(Taken(sendJob[r], w), SendAttempts)
        /\ Taken(sendJob[r], w) \in Job
        /\ Starts(Taken(sendJob[r], w)) = started
        /\ Starts(sendJob[r]) \in Nat
        /\ started \in Nat
        /\ sendJob' = [sendJob EXCEPT ![r] = Taken(sendJob[r], w)]
        /\ sendJob \in [Requests -> Job]
    BY TakenJob, StartsBounded, AttemptsPositive
       DEF JobsOK, JobInv, QueueTypeOK, StateTypeOK
  <1>2. /\ worker[w].pc = "idle" /\ worker[w].task.kind = "none"
        /\ worker'[w] = [pc |-> "loadBroadcast",
                         task |-> [kind |-> "send", request |-> r], entry |-> started]
        /\ worker'[w].pc = "loadBroadcast" /\ worker'[w].entry = started
        /\ worker'[w].task = [kind |-> "send", request |-> r]
        /\ worker'[w].task.kind = "send" /\ worker'[w].task.request = r
        /\ \A v \in Workers : v # w => worker'[v] = worker[v]
        /\ worker'[w] \in [pc: Pcs, task: Tasks, entry: Nat]
    BY <1>1, IdleRecord
       DEF QueueTypeOK, DeliveryTypeOK, Pcs, SendPcs, Tasks, SendTasks
  <1> HIDE DEF started
  <1>3. QueueTypeOK'
    BY <1>1, <1>2 DEF QueueTypeOK, StateTypeOK, DeliveryTypeOK
  <1>4. JobsOK'
    BY <1>1 DEF JobsOK
  <1>5. HandlersOK'
    BY <1>2 DEF HandlersOK, SendPcs, ContactPcs
  <1>6. \A q \in Requests : Starts(sendJob'[q]) =
                              IF q = r THEN started ELSE Starts(sendJob[q])
    BY <1>1
  <1>7. \A v \in Workers :
           /\ worker[v].task.kind = "send" => worker[v].task.request \in Requests
           /\ worker[v].task.kind \in {"none", "send", "contact"}
    BY TaskKinds DEF QueueTypeOK, DeliveryTypeOK
  <1>8. started = Starts(sendJob[r]) + 1
    BY DEF started
  <1>9. EntriesOK'
    BY <1>1, <1>2, <1>6, <1>7, <1>8 DEF EntriesOK
  <1>10. EntriesDiffer'
    <2>1. ASSUME NEW v \in Workers, v # w,
                 worker[v].task = [kind |-> "send", request |-> r]
          PROVE  worker[v].entry # started
      BY <1>1, <1>8, <2>1 DEF EntriesOK
    <2> QED
      BY <1>2, <2>1 DEF EntriesDiffer
  <1>11. MailsOK'
    BY DEF MailsOK
  <1>12. ProgressOK'
    BY <1>2 DEF ProgressOK
  <1>13. PagesOK'
    <2>1. ASSUME NEW v \in Workers, NEW k \in ContactJobs,
                 worker'[v].pc \in SendPcs, k.request = worker'[v].task.request,
                 k.run = worker'[v].entry, k.batch >= page[v].batch
          PROVE  contactJob[k] = Absent
      <3>1. CASE v = w
        BY <1>1, <1>2, <1>8, <2>1, <3>1 DEF PagesOK
      <3>2. CASE v # w
        BY <1>2, <2>1, <3>2 DEF PagesOK
      <3> QED
        BY <3>1, <3>2
    <2>2. ASSUME NEW k \in ContactJobs, k.run > Starts(sendJob'[k.request])
          PROVE  contactJob[k] = Absent
      <3>1. k.request \in Requests /\ k.run \in Int
        BY DEF ContactJobs
      <3>2. k.run > Starts(sendJob[k.request])
        BY <1>1, <1>6, <1>8, <2>2, <3>1
      <3> QED
        BY <3>2 DEF PagesOK
    <2> QED
      BY <2>1, <2>2 DEF PagesOK
  <1> QED
    BY <1>3, <1>4, <1>5, <1>9, <1>10, <1>11, <1>12, <1>13

\* Taking a SendBroadcastToContact job: the entry is new, so it mailed nothing.
LEMMA TakeContactStep ==
  ASSUME DeliveryInv, NEW w \in Workers, NEW k \in ContactJobs, TakeContact(w, k)
  PROVE  DeliveryInv'
  <1> USE DEF DeliveryInv, TakeContact
  <1> DEFINE started == Starts(contactJob[k]) + 1
  <1>1. /\ JobInv(contactJob[k], ContactAttempts)
        /\ JobInv(Taken(contactJob[k], w), ContactAttempts)
        /\ Taken(contactJob[k], w) \in Job
        /\ Taken(contactJob[k], w) # Absent /\ contactJob[k] # Absent
        /\ Starts(Taken(contactJob[k], w)) = started
        /\ Starts(contactJob[k]) \in Nat
        /\ started \in Nat
        /\ contactJob' = [contactJob EXCEPT ![k] = Taken(contactJob[k], w)]
        /\ contactJob \in [ContactJobs -> Job]
    BY TakenJob, StartsBounded, AttemptsPositive, FreshJobs
       DEF JobsOK, JobInv, QueueTypeOK, DeliveryTypeOK
  <1>2. /\ worker[w].pc = "idle" /\ worker[w].task.kind = "none"
        /\ worker'[w].pc = "loadContact" /\ worker'[w].entry = started
        /\ worker'[w].task = [kind |-> "contact", key |-> k]
        /\ worker'[w].task.kind = "contact" /\ worker'[w].task.key = k
        /\ \A v \in Workers : v # w => worker'[v] = worker[v]
        /\ worker'[w] \in [pc: Pcs, task: Tasks, entry: Nat]
    BY <1>1, IdleRecord
       DEF QueueTypeOK, DeliveryTypeOK, Pcs, ContactPcs, Tasks, ContactTasks
  <1> HIDE DEF started
  <1>3. QueueTypeOK'
    BY <1>1, <1>2 DEF QueueTypeOK, StateTypeOK, DeliveryTypeOK
  <1>4. JobsOK'
    BY <1>1 DEF JobsOK
  <1>5. HandlersOK'
    BY <1>2 DEF HandlersOK, SendPcs, ContactPcs
  <1>6. \A j \in ContactJobs : Starts(contactJob'[j]) =
                              IF j = k THEN started ELSE Starts(contactJob[j])
    BY <1>1
  <1>7. \A v \in Workers :
           worker[v].task.kind = "contact" => worker[v].task.key \in ContactJobs
    BY TaskKinds DEF QueueTypeOK, DeliveryTypeOK
  <1>8. started = Starts(contactJob[k]) + 1
    BY DEF started
  <1>9. EntriesOK'
    BY <1>1, <1>2, <1>6, <1>7, <1>8 DEF EntriesOK
  <1>10. EntriesDiffer'
    <2>1. ASSUME NEW v \in Workers, v # w,
                 worker[v].task = [kind |-> "contact", key |-> k]
          PROVE  worker[v].entry # started
      BY <1>1, <1>8, <2>1 DEF EntriesOK
    <2> QED
      BY <1>2, <2>1 DEF EntriesDiffer
  <1>11. MailsOK'
    BY <1>1, <1>6, <1>8 DEF MailsOK
  <1>12. ProgressOK'
    <2>1. started \notin mailed[k]
      BY <1>1, <1>8 DEF MailsOK
    <2> QED
      BY <1>2, <2>1 DEF ProgressOK
  <1>13. PagesOK'
    <2>1. \A j \in ContactJobs : contactJob[j] = Absent => contactJob'[j] = Absent
      BY <1>1
    <2> QED
      BY <1>2, <2>1 DEF PagesOK, SendPcs
  <1> QED
    BY <1>3, <1>4, <1>5, <1>9, <1>10, <1>11, <1>12, <1>13

\* A worker goes on in the entry it is in, and no job changes.
LEMMA GotoFacts ==
  ASSUME DeliveryInv, NEW w \in Workers, NEW pc \in Pcs, Goto(w, pc),
         worker[w].pc # "idle"
  PROVE  /\ worker' \in [Workers -> [pc: Pcs, task: Tasks, entry: Nat]]
         /\ worker'[w].pc = pc
         /\ \A v \in Workers :
               /\ v # w => worker'[v] = worker[v]
               /\ worker'[v].task = worker[v].task
               /\ worker'[v].entry = worker[v].entry
  BY DEF Goto, DeliveryInv, QueueTypeOK, DeliveryTypeOK

\* Then the entries of the workers stay as they were.
LEMMA SameEntries ==
  ASSUME DeliveryInv,
         \A v \in Workers : /\ worker'[v].task = worker[v].task
                            /\ worker'[v].entry = worker[v].entry,
         UNCHANGED <<sendJob, contactJob>>
  PROVE  EntriesOK' /\ EntriesDiffer' /\ JobsOK'
  BY DEF DeliveryInv, EntriesOK, EntriesDiffer, JobsOK

\* SendBroadcastJob read the broadcast: its first page comes next.
LEMMA LoadBroadcastStep ==
  ASSUME DeliveryInv, NEW w \in Workers, LoadBroadcast(w)
  PROVE  DeliveryInv'
  <1> USE DEF DeliveryInv
  <1>1. CASE ~row.exists /\ FailAttempt(w)
    BY <1>1, FailAttemptStep DEF LoadBroadcast
  <1>2. CASE /\ row.exists
             /\ Goto(w, "selectBatch")
             /\ page' = [page EXCEPT ![w] = [BlankPage EXCEPT !.filter = row.filter]]
             /\ UNCHANGED <<sendJob, contactJob>>
    <2> DEFINE first == [BlankPage EXCEPT !.filter = row.filter]
    <2>1. /\ worker[w].pc = "loadBroadcast" /\ worker[w].pc \in SendPcs
          /\ worker[w].pc # "idle" /\ "selectBatch" \in Pcs
          /\ UNCHANGED <<row, abTestJob, matching, mailed, keyed>>
      BY DEF LoadBroadcast, SendPcs, Pcs
    <2>2. /\ row.filter \in Filters
          /\ worker[w].task.kind = "send"
          /\ page[w] = BlankPage
      BY <1>2, <2>1 DEF QueueTypeOK, StateTypeOK, HandlersOK
    <2>3. /\ first \in [batch: Batches, filter: Filters \cup {NoFilter}, ids: SUBSET Contacts]
          /\ first.filter \in Filters /\ first.batch = BlankPage.batch
      BY <2>2, IdleRecord
    <2> HIDE DEF first
    <2>4. /\ page' = [page EXCEPT ![w] = first]
          /\ page'[w] = first
          /\ \A v \in Workers : v # w => page'[v] = page[v]
      BY <1>2 DEF first, QueueTypeOK, DeliveryTypeOK
    <2>5. /\ worker' \in [Workers -> [pc: Pcs, task: Tasks, entry: Nat]]
          /\ worker'[w].pc = "selectBatch"
          /\ \A v \in Workers :
                /\ v # w => worker'[v] = worker[v]
                /\ worker'[v].task = worker[v].task
                /\ worker'[v].entry = worker[v].entry
      BY <1>2, <2>1, GotoFacts
    <2>6. QueueTypeOK'
      BY <1>2, <2>1, <2>3, <2>4, <2>5 DEF QueueTypeOK, StateTypeOK, DeliveryTypeOK
    <2>7. HandlersOK'
      BY <2>2, <2>3, <2>4, <2>5 DEF HandlersOK, SendPcs, ContactPcs
    <2>8. EntriesOK' /\ EntriesDiffer' /\ JobsOK'
      BY <1>2, <2>5, SameEntries
    <2>9. MailsOK' /\ ProgressOK'
      BY <1>2, <2>1, <2>2, <2>5 DEF MailsOK, ProgressOK
    <2>10. PagesOK'
      BY <1>2, <2>1, <2>2, <2>3, <2>4, <2>5 DEF PagesOK
    <2> QED
      BY <2>6, <2>7, <2>8, <2>9, <2>10
  <1> QED
    BY <1>1, <1>2 DEF LoadBroadcast

\* SendBroadcastJob read a page of contacts.
LEMMA SelectBatchStep ==
  ASSUME DeliveryInv, NEW w \in Workers, SelectBatch(w)
  PROVE  DeliveryInv'
  <1> USE DEF DeliveryInv
  <1>1. /\ worker[w].pc = "selectBatch" /\ worker[w].pc \in SendPcs
        /\ worker[w].pc # "idle" /\ "addBulk" \in Pcs
        /\ Goto(w, "addBulk")
        /\ UNCHANGED <<row, sendJob, abTestJob, matching, contactJob, mailed, keyed>>
    BY DEF SelectBatch, SendPcs, Pcs
  <1>2. /\ worker[w].task.kind = "send"
        /\ page[w].filter \in Filters
        /\ matching[page[w].filter] \subseteq Contacts
    BY <1>1 DEF HandlersOK, QueueTypeOK, DeliveryTypeOK
  <1>3. PICK ids \in SUBSET matching[page[w].filter] : page' = [page EXCEPT ![w].ids = ids]
    BY DEF SelectBatch
  <1>4. /\ page' \in [Workers -> [batch: Batches, filter: Filters \cup {NoFilter},
                                  ids: SUBSET Contacts]]
        /\ page'[w].filter = page[w].filter /\ page'[w].batch = page[w].batch
        /\ \A v \in Workers : v # w => page'[v] = page[v]
    BY <1>2, <1>3 DEF QueueTypeOK, DeliveryTypeOK
  <1>5. /\ worker' \in [Workers -> [pc: Pcs, task: Tasks, entry: Nat]]
        /\ worker'[w].pc = "addBulk"
        /\ \A v \in Workers :
              /\ v # w => worker'[v] = worker[v]
              /\ worker'[v].task = worker[v].task
              /\ worker'[v].entry = worker[v].entry
    BY <1>1, GotoFacts
  <1>6. QueueTypeOK'
    BY <1>1, <1>4, <1>5 DEF QueueTypeOK, StateTypeOK, DeliveryTypeOK
  <1>7. HandlersOK'
    BY <1>2, <1>4, <1>5 DEF HandlersOK, SendPcs, ContactPcs
  <1>8. EntriesOK' /\ EntriesDiffer' /\ JobsOK'
    BY <1>1, <1>5, SameEntries
  <1>9. MailsOK' /\ ProgressOK'
    BY <1>1, <1>2, <1>5 DEF MailsOK, ProgressOK
  <1>10. PagesOK'
    BY <1>1, <1>4, <1>5 DEF PagesOK
  <1> QED
    BY <1>6, <1>7, <1>8, <1>9, <1>10

\* The jobs of a page are new jobs of the request and entry that queue them.
LEMMA PageJobsFresh ==
  ASSUME DeliveryInv, NEW w \in Workers, worker[w].pc = "addBulk"
  PROVE  \A k \in ContactJobs :
            k \in PageJobs(w) =>
               /\ k.request = worker[w].task.request
               /\ k.run = worker[w].entry
               /\ k.batch = page[w].batch
               /\ contactJob[k] = Absent
  <1>1. worker[w].pc \in SendPcs
    BY DEF SendPcs
  <1>2. ASSUME NEW k \in ContactJobs, k \in PageJobs(w)
        PROVE  /\ k.request = worker[w].task.request
               /\ k.run = worker[w].entry
               /\ k.batch = page[w].batch
    BY <1>2 DEF PageJobs
  <1>3. page[w].batch \in Int
    BY DEF DeliveryInv, QueueTypeOK, DeliveryTypeOK, Batches
  <1>4. ASSUME NEW k \in ContactJobs, k \in PageJobs(w)
        PROVE  contactJob[k] = Absent
    BY <1>1, <1>2, <1>3, <1>4 DEF DeliveryInv, PagesOK
  <1> QED
    BY <1>2, <1>4

\* SendBroadcastJob queued a page: it goes on with the next, or returns.
LEMMA AddBulkStep ==
  ASSUME DeliveryInv, NEW w \in Workers, AddBulk(w)
  PROVE  DeliveryInv'
  <1> USE DEF DeliveryInv
  <1>1. /\ worker[w].pc = "addBulk" /\ worker[w].pc \in SendPcs /\ worker[w].pc # "idle"
        /\ "selectBatch" \in Pcs /\ "return" \in Pcs
        /\ contactJob' = [k \in ContactJobs |->
                             IF k \in PageJobs(w) THEN Added ELSE contactJob[k]]
        /\ UNCHANGED <<row, sendJob, abTestJob, matching, mailed, keyed>>
    BY DEF AddBulk, SendPcs, Pcs
  <1>2. /\ worker[w].task.kind = "send" /\ page[w].filter \in Filters
        /\ page[w].batch \in Batches /\ page[w].batch \in Int
        /\ worker[w].entry \in Nat
    BY <1>1 DEF HandlersOK, QueueTypeOK, DeliveryTypeOK, Batches
  <1>3. /\ \A k \in ContactJobs :
              \/ k \in PageJobs(w) /\ contactJob'[k] = Added /\ contactJob[k] = Absent
              \/ k \notin PageJobs(w) /\ contactJob'[k] = contactJob[k]
        /\ \A k \in ContactJobs :
              /\ JobInv(contactJob'[k], ContactAttempts)
              /\ Starts(contactJob'[k]) = Starts(contactJob[k])
    BY <1>1, PageJobsFresh, FreshJobs, AttemptsPositive DEF JobsOK
  <1>4. contactJob' \in [ContactJobs -> Job]
    BY <1>1, <1>3 DEF JobInv
  <1>5. \E pc \in {"selectBatch", "return"} :
           /\ Goto(w, pc)
           /\ pc = "selectBatch" =>
                /\ page[w].batch < LastBatch
                /\ page' = [page EXCEPT ![w].batch = @ + 1, ![w].ids = {}]
           /\ pc = "return" => page' = [page EXCEPT ![w] = BlankPage]
    BY DEF AddBulk
  <1>6. PICK pc \in {"selectBatch", "return"} :
           /\ Goto(w, pc)
           /\ pc = "selectBatch" =>
                /\ page[w].batch < LastBatch
                /\ page' = [page EXCEPT ![w].batch = @ + 1, ![w].ids = {}]
           /\ pc = "return" => page' = [page EXCEPT ![w] = BlankPage]
    BY <1>5
  <1>7. /\ worker' \in [Workers -> [pc: Pcs, task: Tasks, entry: Nat]]
        /\ worker'[w].pc = pc
        /\ \A v \in Workers :
              /\ v # w => worker'[v] = worker[v]
              /\ worker'[v].task = worker[v].task
              /\ worker'[v].entry = worker[v].entry
    BY <1>1, <1>6, GotoFacts
  <1>8. /\ page' \in [Workers -> [batch: Batches, filter: Filters \cup {NoFilter},
                                  ids: SUBSET Contacts]]
        /\ pc = "selectBatch" => /\ page'[w].filter = page[w].filter
                                 /\ page'[w].batch = page[w].batch + 1
        /\ pc = "return" => page'[w] = BlankPage
        /\ \A v \in Workers : v # w => page'[v] = page[v]
    <2>1. page \in [Workers -> [batch: Batches, filter: Filters \cup {NoFilter},
                                ids: SUBSET Contacts]]
      BY DEF QueueTypeOK, DeliveryTypeOK
    <2>2. CASE pc = "selectBatch"
      <3> DEFINE next == page[w].batch + 1
      <3>1. next \in Batches
        BY <1>2, <1>6, <2>2 DEF Batches, LastBatch
      <3>2. page' = [page EXCEPT ![w].batch = next, ![w].ids = {}]
        BY <1>6, <2>2
      <3> HIDE DEF next
      <3>3. page'[w].batch = next
        BY <2>1, <3>2
      <3> QED
        BY <2>1, <2>2, <3>1, <3>2, <3>3 DEF next
    <2>3. CASE pc = "return"
      BY <1>6, <2>1, <2>3, IdleRecord
    <2> QED
      BY <2>2, <2>3
  <1>9. QueueTypeOK'
    BY <1>1, <1>4, <1>7, <1>8 DEF QueueTypeOK, StateTypeOK, DeliveryTypeOK
  <1>10. JobsOK'
    BY <1>1, <1>3 DEF JobsOK
  <1>11. HandlersOK'
    BY <1>1, <1>2, <1>7, <1>8 DEF HandlersOK, SendPcs, ContactPcs
  <1>12. EntriesOK' /\ EntriesDiffer'
    <2>1. \A v \in Workers :
             worker[v].task.kind = "contact" => worker[v].task.key \in ContactJobs
      BY TaskKinds DEF QueueTypeOK, DeliveryTypeOK
    <2> QED
      BY <1>1, <1>3, <1>7, <2>1 DEF EntriesOK, EntriesDiffer
  <1>13. MailsOK' /\ ProgressOK'
    BY <1>1, <1>2, <1>3, <1>7 DEF MailsOK, ProgressOK
  <1>14. PagesOK'
    <2>1. ASSUME NEW v \in Workers, NEW k \in ContactJobs,
                 worker'[v].pc \in SendPcs, k.request = worker'[v].task.request,
                 k.run = worker'[v].entry, k.batch >= page'[v].batch
          PROVE  contactJob'[k] = Absent
      <3>1. k.batch \in Int
        BY DEF ContactJobs, Batches
      <3>2. CASE v = w
        <4>1. pc = "selectBatch" /\ k.batch >= page[w].batch + 1
          BY <1>6, <1>7, <1>8, <2>1, <3>2 DEF SendPcs
        <4>2. k \notin PageJobs(w)
          BY <1>1, <1>2, <3>1, <4>1, PageJobsFresh
        <4>3. contactJob[k] = Absent
          BY <1>1, <1>2, <1>7, <2>1, <3>1, <3>2, <4>1 DEF PagesOK
        <4> QED
          BY <1>3, <4>2, <4>3
      <3>3. CASE v # w
        <4>1. /\ worker[v].pc \in SendPcs /\ k.request = worker[v].task.request
              /\ k.run = worker[v].entry /\ k.batch >= page[v].batch
              /\ worker[v].task.kind = "send"
          BY <1>7, <1>8, <2>1, <3>3 DEF HandlersOK
        <4>2. contactJob[k] = Absent
          BY <4>1 DEF PagesOK
        <4>3. k \notin PageJobs(w)
          <5> SUFFICES ASSUME k \in PageJobs(w)
                       PROVE  FALSE
            OBVIOUS
          <5>1. /\ worker[v].task.request = worker[w].task.request
                /\ worker[v].entry = worker[w].entry
            BY <1>1, <4>1, PageJobsFresh
          <5>2. worker[v].task \in SendTasks /\ worker[w].task \in SendTasks
            BY <1>2, <4>1
               DEF QueueTypeOK, DeliveryTypeOK, Tasks, NoTask, SendTasks, ContactTasks
          <5>3. worker[v].task = worker[w].task
            BY <5>1, <5>2 DEF SendTasks
          <5> QED
            BY <1>2, <3>3, <5>1, <5>3 DEF EntriesDiffer
        <4> QED
          BY <1>3, <4>2, <4>3
      <3> QED
        BY <3>2, <3>3
    <2>2. ASSUME NEW k \in ContactJobs, k.run > Starts(sendJob'[k.request])
          PROVE  contactJob'[k] = Absent
      <3>1. contactJob[k] = Absent
        BY <1>1, <2>2 DEF PagesOK
      <3>2. k \notin PageJobs(w)
        <4> SUFFICES ASSUME k \in PageJobs(w)
                     PROVE  FALSE
          OBVIOUS
        <4>1. k.request = worker[w].task.request /\ k.run = worker[w].entry
          BY <1>1, PageJobsFresh
        <4>2. worker[w].task.request \in Requests
          BY <1>2, TaskKinds DEF QueueTypeOK, DeliveryTypeOK
        <4>3. Starts(sendJob[k.request]) \in Nat
          BY <4>1, <4>2, StartsBounded, AttemptsPositive DEF JobsOK
        <4> QED
          BY <1>1, <1>2, <2>2, <4>1, <4>3 DEF EntriesOK
      <3> QED
        BY <1>3, <3>1, <3>2
    <2> QED
      BY <2>1, <2>2 DEF PagesOK
  <1> QED
    BY <1>9, <1>10, <1>11, <1>12, <1>13, <1>14

\* SendBroadcastToContact goes on with its entry: the rest of the state, and
\* what ProgressOK says of the new place, being as given.
LEMMA ContactGoesOn ==
  ASSUME DeliveryInv, NEW w \in Workers, NEW pc \in {"sendMail", "setKey", "return"},
         worker[w].pc \in ContactPcs, Goto(w, pc),
         mailed' \in [ContactJobs -> SUBSET ContactEntries],
         keyed' \in [ContactJobs -> SUBSET ContactEntries],
         MailsOK', ProgressOK',
         UNCHANGED <<row, sendJob, abTestJob, matching, contactJob, page>>
  PROVE  DeliveryInv'
  <1> USE DEF DeliveryInv
  <1>1. pc \in Pcs /\ worker[w].pc # "idle"
    BY DEF Pcs, ContactPcs
  <1>2. worker[w].task.kind = "contact" /\ page[w] = BlankPage
    BY DEF HandlersOK, ContactPcs
  <1>3. /\ worker' \in [Workers -> [pc: Pcs, task: Tasks, entry: Nat]]
        /\ worker'[w].pc = pc
        /\ \A v \in Workers :
              /\ v # w => worker'[v] = worker[v]
              /\ worker'[v].task = worker[v].task
              /\ worker'[v].entry = worker[v].entry
    BY <1>1, GotoFacts
  <1>4. QueueTypeOK'
    BY <1>3 DEF QueueTypeOK, StateTypeOK, DeliveryTypeOK
  <1>5. HandlersOK'
    BY <1>2, <1>3 DEF HandlersOK, SendPcs, ContactPcs
  <1>6. EntriesOK' /\ EntriesDiffer' /\ JobsOK'
    BY <1>3, SameEntries
  <1>7. PagesOK'
    BY <1>3 DEF PagesOK, SendPcs
  <1> QED
    BY <1>4, <1>5, <1>6, <1>7

\* What a worker that runs a contact job knows of its entry.
LEMMA ContactEntry ==
  ASSUME DeliveryInv, NEW w \in Workers, worker[w].pc \in ContactPcs
  PROVE  /\ worker[w].task.kind = "contact"
         /\ worker[w].task.key \in ContactJobs
         /\ worker[w].entry \in 1 .. Starts(contactJob[worker[w].task.key])
         /\ Starts(contactJob[worker[w].task.key]) \in Nat
         /\ worker[w].entry \in ContactEntries
         /\ contactJob[worker[w].task.key] # Absent
  <1>1. worker[w].task.kind = "contact" /\ worker[w].task.key \in ContactJobs
    BY TaskKinds
       DEF DeliveryInv, HandlersOK, QueueTypeOK, DeliveryTypeOK, ContactPcs
  <1>2. worker[w].entry \in 1 .. Starts(contactJob[worker[w].task.key])
    BY <1>1 DEF DeliveryInv, EntriesOK
  <1>3. /\ Starts(contactJob[worker[w].task.key]) \in Nat
        /\ Starts(contactJob[worker[w].task.key]) <= MaxStarts(ContactAttempts)
    BY <1>1, StartsBounded, AttemptsPositive DEF DeliveryInv, JobsOK
  <1>4. MaxStarts(ContactAttempts) \in Nat
    BY QueueAssumption, AttemptsPositive DEF MaxStarts
  <1>5. worker[w].entry \in ContactEntries
    BY <1>2, <1>3, <1>4 DEF ContactEntries
  <1>6. contactJob[worker[w].task.key] # Absent
    BY <1>2, FreshJobs, AttemptsPositive
  <1> QED
    BY <1>1, <1>2, <1>3, <1>5, <1>6

\* No other worker is in the entry of the contact job w runs.
LEMMA EntryIsOwn ==
  ASSUME DeliveryInv, NEW w \in Workers, worker[w].task.kind = "contact",
         NEW v \in Workers, v # w, worker[v].task.kind = "contact",
         worker[v].task.key = worker[w].task.key
  PROVE  worker[v].entry # worker[w].entry
  <1>1. worker[v].task \in ContactTasks /\ worker[w].task \in ContactTasks
    BY DEF DeliveryInv, QueueTypeOK, DeliveryTypeOK, Tasks, NoTask, SendTasks,
           ContactTasks
  <1>2. worker[v].task = worker[w].task
    BY <1>1 DEF ContactTasks
  <1> QED
    BY <1>2 DEF DeliveryInv, EntriesDiffer

\* SendBroadcastToContact read the broadcast and the contact.
LEMMA LoadContactStep ==
  ASSUME DeliveryInv, NEW w \in Workers, LoadContact(w)
  PROVE  DeliveryInv'
  <1>1. CASE FailAttempt(w)
    BY <1>1, FailAttemptStep DEF LoadContact
  <1>2. CASE Goto(w, "sendMail") /\ UNCHANGED <<sendJob, contactJob, page>>
    <2>1. /\ worker[w].pc = "loadContact" /\ worker[w].pc \in ContactPcs
          /\ worker[w].pc # "idle" /\ "sendMail" \in Pcs
          /\ UNCHANGED <<row, abTestJob, matching, mailed, keyed>>
      BY DEF LoadContact, ContactPcs, Pcs
    <2>2. /\ worker'[w].pc = "sendMail"
          /\ \A v \in Workers :
                /\ v # w => worker'[v] = worker[v]
                /\ worker'[v].task = worker[v].task
                /\ worker'[v].entry = worker[v].entry
      BY <1>2, <2>1, GotoFacts
    <2>3. MailsOK' /\ ProgressOK'
      BY <1>2, <2>1, <2>2 DEF DeliveryInv, MailsOK, ProgressOK
    <2>4. /\ mailed' \in [ContactJobs -> SUBSET ContactEntries]
          /\ keyed' \in [ContactJobs -> SUBSET ContactEntries]
      BY <2>1 DEF DeliveryInv, QueueTypeOK, DeliveryTypeOK
    <2> QED
      BY <1>2, <2>1, <2>3, <2>4, ContactGoesOn
  <1> QED
    BY <1>1, <1>2 DEF LoadContact

\* SendBroadcastToContact handed its mail to SMTP, the first of its entry.
LEMMA SendMailStep ==
  ASSUME DeliveryInv, NEW w \in Workers, SendMail(w)
  PROVE  DeliveryInv'
  <1>1. CASE FailAttempt(w) /\ UNCHANGED mailed
    BY <1>1, FailAttemptStep DEF SendMail
  <1>2. CASE /\ mailed' = [mailed EXCEPT ![worker[w].task.key] = @ \cup {worker[w].entry}]
             /\ Goto(w, "setKey")
             /\ UNCHANGED <<sendJob, contactJob, page>>
    <2> DEFINE k == worker[w].task.key
    <2>1. /\ worker[w].pc = "sendMail" /\ worker[w].pc \in ContactPcs
          /\ worker[w].pc # "idle" /\ "setKey" \in Pcs
          /\ UNCHANGED <<row, abTestJob, matching, keyed>>
      BY DEF SendMail, ContactPcs, Pcs
    <2>2. /\ worker[w].task.kind = "contact" /\ k \in ContactJobs
          /\ worker[w].entry \in 1 .. Starts(contactJob[k])
          /\ worker[w].entry \in ContactEntries
      BY <2>1, ContactEntry
    <2>3. /\ worker'[w].pc = "setKey"
          /\ \A v \in Workers :
                /\ v # w => worker'[v] = worker[v]
                /\ worker'[v].task = worker[v].task
                /\ worker'[v].entry = worker[v].entry
      BY <1>2, <2>1, GotoFacts
    <2>4. /\ mailed' \in [ContactJobs -> SUBSET ContactEntries]
          /\ keyed' \in [ContactJobs -> SUBSET ContactEntries]
          /\ mailed'[k] = mailed[k] \cup {worker[w].entry}
          /\ \A j \in ContactJobs : j # k => mailed'[j] = mailed[j]
      BY <1>2, <2>1, <2>2 DEF DeliveryInv, QueueTypeOK, DeliveryTypeOK
    <2>5. MailsOK'
      BY <1>2, <2>1, <2>2, <2>4 DEF DeliveryInv, MailsOK
    <2>6. ProgressOK'
      <3>1. ASSUME NEW v \in Workers, v # w, worker[v].task.kind = "contact"
            PROVE  LET j == worker[v].task.key
                   IN  /\ worker[v].pc \in {"loadContact", "sendMail"} =>
                            worker[v].entry \notin mailed'[j]
                       /\ worker[v].pc = "setKey" => worker[v].entry \in mailed'[j]
                       /\ worker[v].pc = "return" => worker[v].entry \in keyed'[j]
        <4>1. worker[v].task.key \in ContactJobs
          BY <3>1, TaskKinds DEF DeliveryInv, QueueTypeOK, DeliveryTypeOK
        <4>2. worker[v].task.key = k => worker[v].entry # worker[w].entry
          BY <2>2, <3>1, EntryIsOwn
        <4> QED
          BY <2>1, <2>4, <3>1, <4>1, <4>2 DEF DeliveryInv, ProgressOK
      <3> QED
        BY <2>1, <2>2, <2>3, <2>4, <3>1 DEF ProgressOK
    <2> QED
      BY <1>2, <2>1, <2>4, <2>5, <2>6, ContactGoesOn
  <1> QED
    BY <1>1, <1>2 DEF SendMail

\* SendBroadcastToContact set the Redis key of the mail its entry sent.
LEMMA SetKeyStep ==
  ASSUME DeliveryInv, NEW w \in Workers, SetKey(w)
  PROVE  DeliveryInv'
  <1> DEFINE k == worker[w].task.key
  <1>1. /\ worker[w].pc = "setKey" /\ worker[w].pc \in ContactPcs
        /\ worker[w].pc # "idle" /\ "return" \in Pcs
        /\ Goto(w, "return")
        /\ keyed' = [keyed EXCEPT ![k] = @ \cup {worker[w].entry}]
        /\ UNCHANGED <<row, sendJob, abTestJob, matching, contactJob, page, mailed>>
    BY DEF SetKey, ContactPcs, Pcs
  <1>2. /\ worker[w].task.kind = "contact" /\ k \in ContactJobs
        /\ worker[w].entry \in ContactEntries
    BY <1>1, ContactEntry
  <1>3. /\ worker'[w].pc = "return"
        /\ \A v \in Workers :
              /\ v # w => worker'[v] = worker[v]
              /\ worker'[v].task = worker[v].task
              /\ worker'[v].entry = worker[v].entry
    BY <1>1, GotoFacts
  <1>4. /\ mailed' \in [ContactJobs -> SUBSET ContactEntries]
        /\ keyed' \in [ContactJobs -> SUBSET ContactEntries]
        /\ keyed'[k] = keyed[k] \cup {worker[w].entry}
        /\ \A j \in ContactJobs : j # k => keyed'[j] = keyed[j]
    BY <1>1, <1>2 DEF DeliveryInv, QueueTypeOK, DeliveryTypeOK
  <1>5. MailsOK'
    <2>1. worker[w].entry \in mailed[k]
      BY <1>1, <1>2 DEF DeliveryInv, ProgressOK
    <2> QED
      BY <1>1, <1>2, <1>4, <2>1 DEF DeliveryInv, MailsOK
  <1>6. ProgressOK'
    <2>1. \A v \in Workers :
             worker[v].task.kind = "contact" => worker[v].task.key \in ContactJobs
      BY TaskKinds DEF DeliveryInv, QueueTypeOK, DeliveryTypeOK
    <2> QED
      BY <1>1, <1>2, <1>3, <1>4, <2>1 DEF DeliveryInv, ProgressOK
  <1> QED
    BY <1>1, <1>4, <1>5, <1>6, ContactGoesOn

-----------------------------------------------------------------------------
(* The invariant holds. *)

\* Nothing is queued and nobody works at first.
LEMMA DeliveryInvInit == DeliveryStart => DeliveryInv
  <1> SUFFICES ASSUME StateInit, DeliveryInit
               PROVE  DeliveryInv
    BY DEF DeliveryStart
  <1>1. Absent \in Job /\ Absent.lock = NoWorker
    BY FreshJobs, AttemptsPositive DEF JobInv, Absent
  <1>2. QueueTypeOK
    BY <1>1, StateAssumption, IdleRecord
       DEF QueueTypeOK, StateTypeOK, DeliveryTypeOK, StateInit, DeliveryInit
  <1>3. JobsOK
    BY FreshJobs, AttemptsPositive DEF JobsOK, StateInit, DeliveryInit
  <1>4. HandlersOK /\ EntriesOK /\ EntriesDiffer /\ ProgressOK
    BY IdleRecord
       DEF HandlersOK, EntriesOK, EntriesDiffer, ProgressOK, DeliveryInit, SendPcs,
           ContactPcs
  <1>5. MailsOK /\ PagesOK
    BY DEF MailsOK, PagesOK, DeliveryInit
  <1> QED
    BY <1>2, <1>3, <1>4, <1>5 DEF DeliveryInv

\* A worker dies, and its jobs lose their locks.
LEMMA CrashStep ==
  ASSUME DeliveryInv, NEW w \in Workers, Crash(w)
  PROVE  DeliveryInv'
  <1>1. Leave(w) /\ ReleaseLocks(w) /\ UNCHANGED <<row, abTestJob, matching, mailed, keyed>>
    BY DEF Crash
  <1>2. QueueTypeOK'
    BY <1>1, LeaveTypes, ReleasedJobs
       DEF DeliveryInv, QueueTypeOK, StateTypeOK, DeliveryTypeOK
  <1> QED
    BY <1>1, <1>2, LeaveTypes, ReleasedJobs, QuietStep DEF Undisturbed

\* The locks of a worker run out, and it goes on.
LEMMA LoseLockStep ==
  ASSUME DeliveryInv, NEW w \in Workers, LoseLock(w)
  PROVE  DeliveryInv'
  <1>1. ReleaseLocks(w) /\ UNCHANGED <<row, abTestJob, matching, worker, page, mailed, keyed>>
    BY DEF LoseLock
  <1>2. QueueTypeOK'
    BY <1>1, ReleasedJobs DEF DeliveryInv, QueueTypeOK, StateTypeOK, DeliveryTypeOK
  <1> QED
    BY <1>1, <1>2, ReleasedJobs, QuietStep DEF Undisturbed

\* The stalled check found a SendBroadcastJob.
LEMMA RecoverSendStep ==
  ASSUME DeliveryInv, NEW r \in Requests, RecoverSend(r)
  PROVE  DeliveryInv'
  <1> DEFINE new == Recovered(sendJob[r])
  <1>1. /\ sendJob' = [sendJob EXCEPT ![r] = new]
        /\ UNCHANGED <<row, abTestJob, matching, contactJob, worker, page, mailed, keyed>>
    BY DEF RecoverSend, workerVars
  <1>2. JobInv(new, SendAttempts) /\ Undisturbed(new, sendJob[r]) /\ new \in Job
    BY RecoveredJob, AttemptsPositive DEF RecoverSend, DeliveryInv, JobsOK, JobInv
  <1> HIDE DEF new
  <1>3. QueueTypeOK'
    BY <1>1, <1>2 DEF DeliveryInv, QueueTypeOK, StateTypeOK, DeliveryTypeOK
  <1>4. JobsOK' /\ \A q \in Requests : Starts(sendJob'[q]) = Starts(sendJob[q])
    BY <1>1, <1>2
       DEF DeliveryInv, JobsOK, Undisturbed, QueueTypeOK, StateTypeOK
  <1> QED
    BY <1>1, <1>3, <1>4, QuietStep DEF Undisturbed

\* The stalled check found a SendBroadcastToContact job.
LEMMA RecoverContactStep ==
  ASSUME DeliveryInv, NEW k \in ContactJobs, RecoverContact(k)
  PROVE  DeliveryInv'
  <1> DEFINE new == Recovered(contactJob[k])
  <1>1. /\ contactJob' = [contactJob EXCEPT ![k] = new]
        /\ UNCHANGED <<row, sendJob, abTestJob, matching, worker, page, mailed, keyed>>
    BY DEF RecoverContact
  <1>2. JobInv(new, ContactAttempts) /\ Undisturbed(new, contactJob[k]) /\ new \in Job
    BY RecoveredJob, AttemptsPositive DEF RecoverContact, DeliveryInv, JobsOK, JobInv
  <1> HIDE DEF new
  <1>3. QueueTypeOK'
    BY <1>1, <1>2 DEF DeliveryInv, QueueTypeOK, StateTypeOK, DeliveryTypeOK
  <1>4. JobsOK' /\ \A j \in ContactJobs : Undisturbed(contactJob'[j], contactJob[j])
    BY <1>1, <1>2
       DEF DeliveryInv, JobsOK, Undisturbed, QueueTypeOK, DeliveryTypeOK
  <1> QED
    BY <1>1, <1>3, <1>4, QuietStep

\* The unregistered job, the contacts and the row are no part of the invariant
\* beyond their types.
LEMMA OutsideStep ==
  ASSUME DeliveryInv, QueueTypeOK', UNCHANGED <<sendJob, workerVars>>
  PROVE  DeliveryInv'
  <1>1. JobsOK'
    BY DEF DeliveryInv, JobsOK, workerVars
  <1> QED
    BY <1>1, QuietStep DEF Undisturbed, workerVars

\* processJob completes the A/B test job it does not know.
LEMMA DropAbTestJobStep ==
  ASSUME DeliveryInv, NEW r \in Requests, DropAbTestJob(r)
  PROVE  DeliveryInv'
  <1>1. /\ Completed(abTestJob[r]) \in Job
        /\ abTestJob' = [abTestJob EXCEPT ![r] = Completed(abTestJob[r])]
        /\ UNCHANGED <<row, sendJob, matching, workerVars>>
    BY DEF DropAbTestJob, Completed, DeliveryInv, QueueTypeOK, StateTypeOK, Job, JobStates
  <1>2. QueueTypeOK'
    BY <1>1 DEF DeliveryInv, QueueTypeOK, StateTypeOK, DeliveryTypeOK, workerVars
  <1> QED
    BY <1>1, <1>2, OutsideStep

\* The audience or the row changes.
LEMMA ChangeStep ==
  ASSUME DeliveryInv, \/ DeleteRow
                      \/ \E c \in Movers, f \in Filters : ChangeContact(c, f)
  PROVE  DeliveryInv'
  <1>1. CASE DeleteRow
    <2>1. Deleted \in Row /\ ~Deleted.exists
      BY DEF Deleted, Row, Statuses, Completeness
    <2>2. QueueTypeOK'
      BY <1>1, <2>1
         DEF DeleteRow, DeliveryInv, QueueTypeOK, StateTypeOK, DeliveryTypeOK, workerVars
    <2> QED
      BY <1>1, <2>2, OutsideStep DEF DeleteRow
  <1>2. ASSUME NEW c \in Movers, NEW f \in Filters, ChangeContact(c, f)
        PROVE  DeliveryInv'
    <2>1. c \in Contacts
      BY DeliveryAssumption
    <2>2. QueueTypeOK'
      BY <1>2, <2>1
         DEF ChangeContact, DeliveryInv, QueueTypeOK, StateTypeOK, DeliveryTypeOK,
             workerVars
    <2> QED
      BY <1>2, <2>2, OutsideStep DEF ChangeContact
  <1> QED
    BY <1>1, <1>2

\* A send request adds its SendBroadcastJob, which has not started.
LEMMA SendJobAddedStep ==
  ASSUME DeliveryInv, NEW r \in Requests,
         sendJob[r] = Absent,
         sendJob' = [sendJob EXCEPT ![r] = Added],
         UNCHANGED <<row, abTestJob, matching, workerVars>>
  PROVE  DeliveryInv'
  <1>1. UNCHANGED <<row, abTestJob, matching, contactJob, worker, page, mailed, keyed>>
    BY DEF workerVars
  <1>2. /\ JobInv(Added, SendAttempts) /\ Added \in Job
        /\ Starts(Added) = Starts(Absent)
    BY FreshJobs, AttemptsPositive DEF JobInv
  <1>3. QueueTypeOK'
    BY <1>1, <1>2 DEF DeliveryInv, QueueTypeOK, StateTypeOK, DeliveryTypeOK
  <1>4. JobsOK' /\ \A q \in Requests : Starts(sendJob'[q]) = Starts(sendJob[q])
    BY <1>1, <1>2 DEF DeliveryInv, JobsOK, QueueTypeOK, StateTypeOK
  <1> QED
    BY <1>1, <1>3, <1>4, QuietStep DEF Undisturbed

\* A send request adds a job to one queue or the other.
LEMMA QueueStep ==
  ASSUME DeliveryInv, NEW r \in Requests, QueueSend(r) \/ QueueAbTest(r)
  PROVE  DeliveryInv'
  <1>1. CASE QueueSend(r)
    BY <1>1, SendJobAddedStep DEF QueueSend
  <1>2. CASE QueueAbTest(r)
    <2>1. Added \in Job
      BY FreshJobs, AttemptsPositive DEF JobInv
    <2>2. QueueTypeOK'
      BY <1>2, <2>1
         DEF QueueAbTest, DeliveryInv, QueueTypeOK, StateTypeOK, DeliveryTypeOK,
             workerVars
    <2> QED
      BY <1>2, <2>2, OutsideStep DEF QueueAbTest
  <1> QED
    BY <1>1, <1>2

\* Every step of the workers, the queue and the environment keeps the invariant.
LEMMA DeliveryInvStep ==
  DeliveryInv /\ [DeliveryNext \/ HttpStep]_deliveryVars => DeliveryInv'
  <1> SUFFICES ASSUME DeliveryInv, [DeliveryNext \/ HttpStep]_deliveryVars
               PROVE  DeliveryInv'
    OBVIOUS
  <1>1. ASSUME NEW w \in Workers, HandlerStep(w)
        PROVE  DeliveryInv'
    BY <1>1, LoadBroadcastStep, SelectBatchStep, AddBulkStep, LoadContactStep,
       SendMailStep, SetKeyStep, SucceedStep
       DEF HandlerStep
  <1>2. ASSUME NEW w \in Workers, Take(w)
        PROVE  DeliveryInv'
    BY <1>2, TakeSendStep, TakeContactStep DEF Take
  <1>3. ASSUME NEW w \in Workers, HandlerThrows(w)
        PROVE  DeliveryInv'
    BY <1>3, FailAttemptStep DEF HandlerThrows
  <1>4. ASSUME NEW w \in Workers, Crash(w) \/ LoseLock(w)
        PROVE  DeliveryInv'
    BY <1>4, CrashStep, LoseLockStep
  <1>5. CASE Recover
    BY <1>5, RecoverSendStep, RecoverContactStep DEF Recover
  <1>6. CASE \E r \in Requests : DropAbTestJob(r)
    BY <1>6, DropAbTestJobStep
  <1>7. CASE \/ DeleteRow
             \/ \E c \in Movers, f \in Filters : ChangeContact(c, f)
    BY <1>7, ChangeStep
  <1>8. CASE \E r \in Requests : QueueSend(r) \/ QueueAbTest(r)
    BY <1>8, QueueStep
  <1>9. CASE UNCHANGED deliveryVars
    <2>1. QueueTypeOK'
      BY <1>9 DEF deliveryVars, workerVars, DeliveryInv, QueueTypeOK, StateTypeOK,
                  DeliveryTypeOK
    <2> QED
      BY <1>9, <2>1, OutsideStep DEF deliveryVars
  <1> QED
    BY <1>1, <1>2, <1>3, <1>4, <1>5, <1>6, <1>7, <1>8, <1>9 DEF DeliveryNext, HttpStep

\* The invariant of the workers' side.
THEOREM DeliveryInvariant == DeliverySpec => []DeliveryInv
  BY DeliveryInvInit, DeliveryInvStep, PTL DEF DeliverySpec

\* Types, and with them the bound on how often a queued contact is mailed.
THEOREM QueueTypeCorrect == DeliverySpec => []QueueTypeOK
  <1>1. DeliveryInv => QueueTypeOK
    BY DEF DeliveryInv
  <1> QED
    BY <1>1, DeliveryInvariant, PTL

-----------------------------------------------------------------------------
(* A deleted broadcast mails nobody who was not on the way already.         *)

\* A deleted row links no content.
GoneIsEmpty == ~row.exists => row.content = "none"

\* Nobody is past the load of k, and no step mails or completes it.
StaysUnmailed(k) ==
    /\ ~PastLoad(k)'
    /\ mailed'[k] = mailed[k]
    /\ contactJob'[k].state = "completed" => contactJob[k].state = "completed"

\* A worker that is idle, runs another job or has still to load is not past the load.
LEMMA StillOut ==
  ASSUME NEW k \in ContactJobs, NEW w \in Workers, ~PastLoad(k),
         \A v \in Workers : v # w => worker'[v] = worker[v],
         \/ worker'[w] = Idle
         \/ worker'[w].task # [kind |-> "contact", key |-> k]
         \/ worker'[w].pc = "loadContact"
  PROVE  ~PastLoad(k)'
  <1>1. Idle.task # [kind |-> "contact", key |-> k]
    BY DEF Idle, NoTask
  <1> QED
    BY <1>1 DEF PastLoad

\* A worker that goes on: it was past the load, or runs another job.
LEMMA GoesOnOut ==
  ASSUME DeliveryInv, NEW k \in ContactJobs, NEW w \in Workers, NEW pc, ~PastLoad(k), Goto(w, pc),
         worker[w].task # [kind |-> "contact", key |-> k]
  PROVE  ~PastLoad(k)'
  <1>1. worker'[w].task = worker[w].task /\ \A v \in Workers : v # w => worker'[v] = worker[v]
    BY DEF Goto, DeliveryInv, QueueTypeOK, DeliveryTypeOK
  <1> QED
    BY <1>1, StillOut

\* The job of a worker past the load is not k.
LEMMA OtherJob ==
  ASSUME DeliveryInv, NEW k \in ContactJobs, NEW w \in Workers, ~PastLoad(k),
         worker[w].pc # "loadContact"
  PROVE  /\ worker[w].task # [kind |-> "contact", key |-> k]
         /\ worker[w].task.kind = "contact" => worker[w].task.key # k
  <1>1. worker[w].task # [kind |-> "contact", key |-> k]
    BY DEF PastLoad
  <1>2. worker[w].task \in Tasks
    BY DEF DeliveryInv, QueueTypeOK, DeliveryTypeOK
  <1> QED
    BY <1>1, <1>2 DEF Tasks, NoTask, SendTasks, ContactTasks

\* A failed attempt leaves the job to be run again, or failed.
LEMMA FailAttemptUnmailed ==
  ASSUME DeliveryInv, NEW k \in ContactJobs, NEW w \in Workers, ~PastLoad(k),
         FailAttempt(w), UNCHANGED mailed
  PROVE  StaysUnmailed(k)
  <1>1. ~PastLoad(k)'
    <2>1. worker'[w] = Idle /\ \A v \in Workers : v # w => worker'[v] = worker[v]
      BY DEF FailAttempt, Leave, DeliveryInv, QueueTypeOK, DeliveryTypeOK
    <2> QED
      BY <2>1, StillOut
  <1>2. contactJob \in [ContactJobs -> Job]
    BY DEF DeliveryInv, QueueTypeOK, DeliveryTypeOK
  <1>3. CASE UNCHANGED contactJob
    BY <1>1, <1>3 DEF StaysUnmailed
  <1>4. CASE contactJob' = [contactJob EXCEPT ![worker[w].task.key] =
                                SettledBy(@, w, AttemptFailed(@, ContactAttempts))]
    <2> DEFINE j == worker[w].task.key
               new == AttemptFailed(contactJob[k], ContactAttempts)
    <2>1. new.state # "completed"
      BY <1>2 DEF AttemptFailed, Job
    <2>2. contactJob'[k] = contactJob[k] \/ contactJob'[k] = new
      BY <1>2, <1>4 DEF SettledBy
    <2> HIDE DEF new
    <2> QED
      BY <1>1, <2>1, <2>2 DEF StaysUnmailed
  <1> QED
    BY <1>3, <1>4 DEF FailAttempt

\* No step of a handler mails or completes k: its own handlers have still to load.
LEMMA HandlerUnmailed ==
  ASSUME DeliveryInv, GoneIsEmpty, ~row.exists, NEW k \in ContactJobs, NEW w \in Workers,
         ~PastLoad(k), HandlerStep(w)
  PROVE  StaysUnmailed(k)
  <1> USE DEF DeliveryInv
  <1>1. /\ contactJob \in [ContactJobs -> Job] /\ mailed \in [ContactJobs -> SUBSET ContactEntries]
        /\ worker[w].pc # "loadContact" =>
              /\ worker[w].task # [kind |-> "contact", key |-> k]
              /\ worker[w].task.kind = "contact" => worker[w].task.key # k
    BY OtherJob DEF QueueTypeOK, DeliveryTypeOK
  <1>2. CASE LoadBroadcast(w)
    BY <1>2, FailAttemptUnmailed DEF LoadBroadcast
  <1>3. CASE SelectBatch(w)
    BY <1>1, <1>3, GoesOnOut DEF SelectBatch, StaysUnmailed
  <1>4. CASE AddBulk(w)
    <2>1. ~PastLoad(k)' /\ UNCHANGED mailed
      BY <1>1, <1>4, GoesOnOut DEF AddBulk
    <2>2. contactJob'[k] = contactJob[k] \/ contactJob'[k] = Added
      BY <1>4 DEF AddBulk
    <2> QED
      BY <2>1, <2>2 DEF StaysUnmailed, Added
  <1>5. CASE LoadContact(w)
    BY <1>5, FailAttemptUnmailed DEF LoadContact, GoneIsEmpty
  <1>6. CASE SendMail(w)
    <2>1. worker[w].task.kind = "contact" /\ worker[w].pc = "sendMail"
      BY <1>6 DEF SendMail, HandlersOK, ContactPcs
    <2>2. CASE FailAttempt(w) /\ UNCHANGED mailed
      BY <2>2, FailAttemptUnmailed
    <2>3. CASE /\ mailed' = [mailed EXCEPT ![worker[w].task.key] = @ \cup {worker[w].entry}]
               /\ Goto(w, "setKey") /\ UNCHANGED contactJob
      <3>1. mailed'[k] = mailed[k]
        BY <1>1, <2>1, <2>3
      <3> QED
        BY <1>1, <2>1, <2>3, <3>1, GoesOnOut DEF StaysUnmailed
    <2> QED
      BY <1>6, <2>2, <2>3 DEF SendMail
  <1>7. CASE SetKey(w)
    BY <1>1, <1>7, GoesOnOut DEF SetKey, StaysUnmailed
  <1>8. CASE Succeed(w)
    <2>1. worker'[w] = Idle /\ \A v \in Workers : v # w => worker'[v] = worker[v]
      BY <1>8 DEF Succeed, Leave, QueueTypeOK, DeliveryTypeOK
    <2>2. contactJob'[k] = contactJob[k] /\ UNCHANGED mailed
      BY <1>1, <1>8 DEF Succeed
    <2> QED
      BY <2>1, <2>2, StillOut DEF StaysUnmailed
  <1> QED
    BY <1>2, <1>3, <1>4, <1>5, <1>6, <1>7, <1>8 DEF HandlerStep

\* Nor does any other step of the workers' side.
LEMMA WorkersUnmailed ==
  ASSUME DeliveryInv, GoneIsEmpty, ~row.exists, NEW k \in ContactJobs, ~PastLoad(k),
         DeliveryNext
  PROVE  StaysUnmailed(k) /\ row' = row
  <1> USE DEF DeliveryInv
  <1>1. /\ contactJob \in [ContactJobs -> Job]
        /\ worker \in [Workers -> [pc: Pcs, task: Tasks, entry: Nat]]
    BY DEF QueueTypeOK, DeliveryTypeOK
  <1>2. row' = row
    BY DEF DeliveryNext, HandlerStep, LoadBroadcast, SelectBatch, AddBulk, LoadContact, SendMail,
           SetKey, Succeed, Take, TakeSend, TakeContact, HandlerThrows, Crash, LoseLock, Recover,
           RecoverSend, RecoverContact, DropAbTestJob, ChangeContact
  <1>3. ASSUME NEW w \in Workers, HandlerStep(w)
        PROVE  StaysUnmailed(k)
    BY <1>3, HandlerUnmailed
  <1>4. ASSUME NEW w \in Workers, Take(w)
        PROVE  StaysUnmailed(k)
    <2>1. ASSUME NEW r \in Requests, TakeSend(w, r)
          PROVE  StaysUnmailed(k)
      <3>1. /\ \A v \in Workers : v # w => worker'[v] = worker[v]
            /\ worker'[w].task = [kind |-> "send", request |-> r]
            /\ UNCHANGED <<contactJob, mailed>>
        BY <1>1, <2>1 DEF TakeSend
      <3>2. worker'[w].task # [kind |-> "contact", key |-> k]
        BY <3>1
      <3> QED
        BY <3>1, <3>2, StillOut DEF StaysUnmailed
    <2>2. ASSUME NEW j \in ContactJobs, TakeContact(w, j)
          PROVE  StaysUnmailed(k)
      <3>1. /\ \A v \in Workers : v # w => worker'[v] = worker[v]
            /\ worker'[w].pc = "loadContact"
            /\ contactJob' = [contactJob EXCEPT ![j] = Taken(@, w)] /\ UNCHANGED mailed
        BY <1>1, <2>2 DEF TakeContact
      <3>2. contactJob'[k].state = "completed" => contactJob[k].state = "completed"
        BY <1>1, <3>1 DEF Taken, Job
      <3> QED
        BY <3>1, <3>2, StillOut DEF StaysUnmailed
    <2> QED
      BY <1>4, <2>1, <2>2 DEF Take
  <1>5. ASSUME NEW w \in Workers, HandlerThrows(w)
        PROVE  StaysUnmailed(k)
    BY <1>5, FailAttemptUnmailed DEF HandlerThrows
  <1>6. ASSUME NEW w \in Workers, Crash(w) \/ LoseLock(w)
        PROVE  StaysUnmailed(k)
    <2>1. ReleaseLocks(w) /\ UNCHANGED mailed
      BY <1>6 DEF Crash, LoseLock
    <2>2. contactJob'[k].state = contactJob[k].state
      BY <2>1, ReleasedJobs
    <2>3. CASE Crash(w)
      <3>1. worker'[w] = Idle /\ \A v \in Workers : v # w => worker'[v] = worker[v]
        BY <1>1, <2>3 DEF Crash, Leave
      <3> QED
        BY <2>1, <2>2, <3>1, StillOut DEF StaysUnmailed
    <2>4. CASE LoseLock(w)
      BY <2>1, <2>2, <2>4 DEF LoseLock, StaysUnmailed, PastLoad
    <2> QED
      BY <1>6, <2>3, <2>4
  <1>7. CASE Recover
    <2>1. UNCHANGED <<worker, mailed>>
      BY <1>7 DEF Recover, RecoverSend, RecoverContact, workerVars
    <2>2. contactJob'[k] = contactJob[k] \/ contactJob'[k] = Recovered(contactJob[k])
      BY <1>1, <1>7 DEF Recover, RecoverSend, RecoverContact, workerVars
    <2>3. Recovered(contactJob[k]).state # "completed"
      BY <1>1 DEF Recovered, Job
    <2>4. ~PastLoad(k)'
      BY <2>1 DEF PastLoad
    <2>5. contactJob'[k].state = "completed" => contactJob[k].state = "completed"
      BY <2>2, <2>3
    <2> QED
      BY <1>2, <2>1, <2>4, <2>5 DEF StaysUnmailed
  <1>8. CASE \/ \E r \in Requests : DropAbTestJob(r)
             \/ \E c \in Movers, f \in Filters : ChangeContact(c, f)
    BY <1>8 DEF DropAbTestJob, ChangeContact, workerVars, StaysUnmailed, PastLoad
  <1> QED
    BY <1>2, <1>3, <1>4, <1>5, <1>6, <1>7, <1>8 DEF DeliveryNext

\* Once the broadcast is deleted, contacts whose handlers have not loaded it are not
\* mailed and their jobs do not complete, whatever is retried, recovered or queued.
THEOREM DeletedMailsNobody == DeliverySpec => NoMailOnceDeleted
  <1>1. DeliveryStart => GoneIsEmpty
    BY StateAssumption DEF DeliveryStart, StateInit, GoneIsEmpty
  <1>2. GoneIsEmpty /\ DeliveryInv /\ [DeliveryNext \/ HttpStep]_deliveryVars => GoneIsEmpty'
    <2> SUFFICES ASSUME GoneIsEmpty, [DeliveryNext \/ HttpStep]_deliveryVars
                 PROVE  GoneIsEmpty'
      OBVIOUS
    <2>1. row' = row \/ row' = Deleted
      BY DEF DeliveryNext, HandlerStep, LoadBroadcast, SelectBatch, AddBulk, LoadContact, SendMail,
             SetKey, Succeed, Take, TakeSend, TakeContact, HandlerThrows, Crash, LoseLock, Recover,
             RecoverSend, RecoverContact, DropAbTestJob, ChangeContact, HttpStep, DeleteRow,
             QueueSend, QueueAbTest, deliveryVars
    <2> QED
      BY <2>1 DEF GoneIsEmpty, Deleted
  <1>3. ASSUME DeliveryInv, GoneIsEmpty, DeliveryNext \/ HttpStep, NEW k \in ContactJobs,
               ~row.exists, ~PastLoad(k)
        PROVE  StaysUnmailed(k) /\ ~row'.exists
    <2>1. CASE DeliveryNext
      BY <1>3, <2>1, WorkersUnmailed
    <2>2. CASE HttpStep
      BY <1>3, <2>2 DEF HttpStep, DeleteRow, QueueSend, QueueAbTest, workerVars, StaysUnmailed, PastLoad
    <2> QED
      BY <1>3, <2>1, <2>2
  <1>4. DeliveryInv /\ GoneIsEmpty /\ [DeliveryNext \/ HttpStep]_deliveryVars =>
          [\A k \in ContactJobs :
              ~row.exists /\ ~PastLoad(k) =>
                  /\ ~row'.exists /\ ~PastLoad(k)'
                  /\ mailed'[k] = mailed[k]
                  /\ contactJob'[k].state = "completed" => contactJob[k].state = "completed"
          ]_deliveryVars
    BY <1>3 DEF StaysUnmailed
  <1> QED
    BY <1>1, <1>2, <1>4, DeliveryInvariant, PTL DEF DeliverySpec, NoMailOnceDeleted

-----------------------------------------------------------------------------
(* Pages and their sizes. *)

\* A longer audience has no shorter page, and sizes are natural numbers.
LEMMA PageSizes ==
  ASSUME NEW b \in Batches
  PROVE  /\ \A n \in Nat : PageSize(n, b) \in Nat
         /\ \A m, n \in Nat : m <= n => PageSize(m, b) <= PageSize(n, b)
  <1>1. /\ BatchSize \in Nat /\ BatchSize > 0
        /\ b * BatchSize \in Nat
    BY DeliveryAssumption DEF Batches, LastBatch
  <1> DEFINE skip == b * BatchSize
  <1> HIDE DEF skip
  <1>2. \A n \in Nat : PageSize(n, b) =
           IF n > skip THEN Least(BatchSize, n - skip) ELSE 0
    BY DEF PageSize, skip
  <1> QED
    BY <1>1, <1>2 DEF Least, skip

\* The sets of contacts a filter selects are finite, and ordered.
LEMMA Audiences ==
  ASSUME DeliveryInv, NEW f \in Filters
  PROVE  /\ IsFiniteSet(AllAlong(f)) /\ IsFiniteSet(matching[f]) /\ IsFiniteSet(Ever(f))
         /\ Cardinality(AllAlong(f)) \in Nat
         /\ Cardinality(matching[f]) \in Nat
         /\ Cardinality(Ever(f)) \in Nat
         /\ Cardinality(AllAlong(f)) <= Cardinality(matching[f])
         /\ Cardinality(matching[f]) <= Cardinality(Ever(f))
  <1>1. /\ Ever(f) \subseteq Contacts
        /\ AllAlong(f) \subseteq matching[f]
        /\ matching[f] \subseteq Ever(f)
        /\ IsFiniteSet(Contacts)
    BY DeliveryAssumption DEF DeliveryInv, QueueTypeOK, DeliveryTypeOK, Ever, AllAlong
  <1>2. IsFiniteSet(Ever(f))
    BY <1>1, FS_Subset
  <1>3. IsFiniteSet(matching[f])
    BY <1>1, <1>2, FS_Subset
  <1>4. IsFiniteSet(AllAlong(f))
    BY <1>1, <1>3, FS_Subset
  <1> QED
    BY <1>1, <1>2, <1>3, <1>4, FS_Subset, FS_CardinalityType

\* The jobs of these contacts in batch b of an entry.
JobsFor(r, n, b, ids) ==
    {[request |-> r, run |-> n, batch |-> b, contact |-> c] : c \in ids}

\* A page holds as many jobs as it has contacts.
LEMMA PageCardinality ==
  ASSUME NEW r \in Requests, NEW n, NEW b, NEW ids \in SUBSET Contacts
  PROVE  /\ IsFiniteSet(JobsFor(r, n, b, ids))
         /\ Cardinality(JobsFor(r, n, b, ids)) = Cardinality(ids)
  <1> DEFINE queued == JobsFor(r, n, b, ids)
  <1> DEFINE jobOf == [c \in ids |-> [request |-> r, run |-> n, batch |-> b, contact |-> c]]
  <1>1. IsFiniteSet(ids)
    BY DeliveryAssumption, FS_Subset
  <1>2. jobOf \in Bijection(ids, queued)
    <2>1. jobOf \in [ids -> queued]
      BY DEF JobsFor
    <2>2. ASSUME NEW c \in ids, NEW d \in ids, jobOf[c] = jobOf[d]
          PROVE  c = d
      <3>1. jobOf[c].contact = c /\ jobOf[d].contact = d
        OBVIOUS
      <3> QED
        BY <2>2, <3>1
    <2>3. \A j \in queued : \E c \in ids : jobOf[c] = j
      BY DEF JobsFor
    <2> HIDE DEF jobOf, queued
    <2> QED
      BY <2>1, <2>2, <2>3 DEF Bijection, Injection, Surjection, IsInjective
  <1>3. ExistsBijection(ids, queued)
    BY <1>2 DEF ExistsBijection
  <1> QED
    BY <1>1, <1>3, FS_Bijection

\* The audience a filter has in any state changes by Movers only.
LEMMA AudiencesStay ==
  ASSUME DeliveryInv,
         \/ UNCHANGED matching
         \/ \E c \in Movers, g \in Filters : ChangeContact(c, g)
  PROVE  \A f \in Filters : AllAlong(f)' = AllAlong(f) /\ Ever(f)' = Ever(f)
  <1>1. CASE UNCHANGED matching
    BY <1>1 DEF AllAlong, Ever
  <1>2. ASSUME NEW c \in Movers, NEW g \in Filters, ChangeContact(c, g), NEW f \in Filters
        PROVE  AllAlong(f)' = AllAlong(f) /\ Ever(f)' = Ever(f)
    <2>1. /\ matching'[f] = matching[f] \/ matching'[f] = matching[f] \ {c}
             \/ matching'[f] = matching[f] \cup {c}
      BY <1>2 DEF ChangeContact, DeliveryInv, QueueTypeOK, DeliveryTypeOK
    <2> QED
      BY <2>1 DEF AllAlong, Ever
  <1> QED
    BY <1>1, <1>2

\* While no job is added and the audiences stay, whole pages stay whole.
LEMMA PagesStay ==
  ASSUME \A k \in ContactJobs : contactJob'[k] = Absent <=> contactJob[k] = Absent,
         \A f \in Filters : AllAlong(f)' = AllAlong(f) /\ Ever(f)' = Ever(f)
  PROVE  /\ \A f \in Filters : \A size, b : Fits(size, b, f)' = Fits(size, b, f)
         /\ \A f \in Filters : \A r, n, b : PageWhole(r, n, b, f)' = PageWhole(r, n, b, f)
  <1>1. ASSUME NEW f \in Filters, NEW size, NEW b
        PROVE  Fits(size, b, f)' = Fits(size, b, f)
    BY DEF Fits
  <1>2. ASSUME NEW r, NEW n, NEW b
        PROVE  QueuedPage(r, n, b)' = QueuedPage(r, n, b)
    BY DEF QueuedPage
  <1> QED
    BY <1>1, <1>2 DEF PageWhole, Fits

-----------------------------------------------------------------------------
(* The steps that queue no page and complete no SendBroadcastJob. *)

\* Such a step keeps PagesInv, whatever one handler does: it stands still, runs
\* no SendBroadcastJob, starts a new entry, comes to its first page, or has read
\* a page that fits.
LEMMA NoPageStep ==
  ASSUME DeliveryInv, PagesInv,
         \A k \in ContactJobs : contactJob'[k] = Absent <=> contactJob[k] = Absent,
         \A f \in Filters : AllAlong(f)' = AllAlong(f) /\ Ever(f)' = Ever(f),
         \A r \in Requests : sendJob'[r].state = "completed" =>
             /\ sendJob[r].state = "completed"
             /\ Starts(sendJob'[r]) = Starts(sendJob[r]),
         \A v \in Workers :
            \/ worker'[v] = worker[v] /\ page'[v] = page[v]
            \/ worker'[v].pc \in {"idle"} \cup ContactPcs
            \/ worker'[v].pc = "return" /\ worker'[v].task.kind = "contact"
            \/ /\ worker'[v].pc = "loadBroadcast"
               /\ worker'[v].entry = Starts(sendJob[worker'[v].task.request]) + 1
            \/ /\ worker'[v].pc = "selectBatch" /\ page'[v].batch = 0
               /\ worker[v].pc \in SendPcs
               /\ worker'[v].task = worker[v].task
               /\ worker'[v].entry = worker[v].entry
            \/ /\ worker[v].pc = "selectBatch" /\ worker'[v].pc = "addBulk"
               /\ worker'[v].task = worker[v].task
               /\ worker'[v].entry = worker[v].entry
               /\ page'[v].batch = page[v].batch
               /\ page'[v].filter = page[v].filter
               /\ Fits(Cardinality(page'[v].ids), page[v].batch, page[v].filter)
  PROVE  PagesInv'
  <1>1. /\ \A f \in Filters : \A size, b : Fits(size, b, f)' = Fits(size, b, f)
        /\ \A f \in Filters : \A r, n, b : PageWhole(r, n, b, f)' = PageWhole(r, n, b, f)
    BY PagesStay
  <1>2. \A v \in Workers :
           worker[v].pc \in {"selectBatch", "addBulk"} => page[v].filter \in Filters
    BY DEF DeliveryInv, HandlersOK
  <1>3. ReadPageFits'
    <2> SUFFICES ASSUME NEW v \in Workers, worker'[v].pc = "addBulk",
                        NEW size, size = Cardinality(page'[v].ids),
                        NEW b, b = page'[v].batch, NEW f, f = page'[v].filter
                 PROVE  Fits(size, b, f)'
      BY DEF ReadPageFits, Fits, AllAlong, Ever
    <2>1. /\ worker[v].pc \in {"selectBatch", "addBulk"}
          /\ page'[v].filter = page[v].filter /\ page'[v].batch = page[v].batch
          /\ Fits(Cardinality(page'[v].ids), page[v].batch, page[v].filter)
      BY DEF PagesInv, ReadPageFits, ContactPcs
    <2>2. page[v].filter \in Filters
      BY <1>2, <2>1
    <2>3. f \in Filters /\ Fits(size, b, f)
      BY <2>1, <2>2
    <2> QED
      BY <1>1, <2>3
  <1>4. PagesBehindWhole'
    <2> SUFFICES ASSUME NEW v \in Workers, worker'[v].pc \in {"selectBatch", "addBulk"},
                        NEW r \in Requests, NEW n \in SendEntries, InEntry(v, r, n)',
                        NEW b \in Batches, b < page'[v].batch,
                        NEW f \in Filters, page'[v].filter = f
                 PROVE  PageWhole(r, n, b, f)'
      BY DEF PagesBehindWhole
    <2>1. b >= 0
      BY DEF Batches
    <2>2. /\ worker[v].pc \in {"selectBatch", "addBulk"}
          /\ worker'[v].task = worker[v].task /\ worker'[v].entry = worker[v].entry
          /\ page'[v].filter = page[v].filter /\ page'[v].batch = page[v].batch
      BY <2>1 DEF ContactPcs, Batches
    <2>3. PageWhole(r, n, b, f)
      BY <2>2 DEF PagesInv, PagesBehindWhole, InEntry
    <2> QED
      BY <1>1, <2>3
  <1>5. ReturnedWhole'
    <2> SUFFICES ASSUME NEW v \in Workers, worker'[v].pc = "return",
                        NEW r \in Requests, NEW n \in SendEntries, InEntry(v, r, n)'
                 PROVE  \E f \in Filters : \A b \in Batches : PageWhole(r, n, b, f)'
      BY DEF ReturnedWhole
    <2>1. worker'[v] = worker[v]
      BY DEF InEntry, ContactPcs
    <2>2. \E f \in Filters : \A b \in Batches : PageWhole(r, n, b, f)
      BY <2>1 DEF PagesInv, ReturnedWhole, InEntry
    <2> QED
      BY <1>1, <2>2
  <1>6. CompletedWhole'
    <2> SUFFICES ASSUME NEW r \in Requests, sendJob'[r].state = "completed"
                 PROVE  \E n \in 1 .. Starts(sendJob'[r]), f \in Filters :
                           /\ EntryOver(r, n)'
                           /\ \A b \in Batches : PageWhole(r, n, b, f)'
      BY DEF CompletedWhole
    <2>1. PICK n \in 1 .. Starts(sendJob[r]), f \in Filters :
             EntryOver(r, n) /\ \A b \in Batches : PageWhole(r, n, b, f)
      BY DEF PagesInv, CompletedWhole
    <2>2. EntryOver(r, n)'
      <3> SUFFICES ASSUME NEW v \in Workers, worker'[v].pc \in SendPcs,
                          InEntry(v, r, n)'
                   PROVE  FALSE
        BY DEF EntryOver
      <3>1. \/ /\ worker[v].pc \in SendPcs
               /\ worker'[v].task = worker[v].task
               /\ worker'[v].entry = worker[v].entry
            \/ worker'[v].entry = Starts(sendJob[r]) + 1
        BY DEF SendPcs, ContactPcs, InEntry
      <3>2. Starts(sendJob[r]) \in Nat
        BY StartsBounded, AttemptsPositive DEF DeliveryInv, JobsOK
      <3> QED
        BY <2>1, <3>1, <3>2 DEF EntryOver, InEntry
    <2> QED
      BY <1>1, <2>1, <2>2
  <1> QED
    BY <1>3, <1>4, <1>5, <1>6 DEF PagesInv

\* A worker that leaves its job without completing it.
LEMMA FailAttemptPages ==
  ASSUME DeliveryInv, PagesInv, NEW w \in Workers, FailAttempt(w), UNCHANGED matching
  PROVE  PagesInv'
  <1> DEFINE task == worker[w].task
             Failed(job, attempts) == SettledBy(job, w, AttemptFailed(job, attempts))
  <1>1. /\ task.kind = "send" => task.request \in Requests
        /\ task.kind = "contact" => task.key \in ContactJobs
    BY TaskKinds DEF DeliveryInv, QueueTypeOK, DeliveryTypeOK
  <1>2. \A f \in Filters : AllAlong(f)' = AllAlong(f) /\ Ever(f)' = Ever(f)
    BY AudiencesStay
  <1>3. \A v \in Workers :
           \/ worker'[v] = worker[v] /\ page'[v] = page[v]
           \/ worker'[v].pc = "idle"
    BY LeaveTypes, IdleRecord DEF FailAttempt
  <1>4. \A r \in Requests : sendJob'[r].state = "completed" => sendJob'[r] = sendJob[r]
    <2>1. ASSUME task.kind = "send",
                 sendJob' = [sendJob EXCEPT ![task.request] = Failed(@, SendAttempts)],
                 NEW r \in Requests, sendJob'[r].state = "completed"
          PROVE  sendJob'[r] = sendJob[r]
      <3>1. Failed(sendJob[r], SendAttempts).state # "completed" \/ sendJob[r].lock # w
        BY DEF SettledBy, AttemptFailed, DeliveryInv, QueueTypeOK, StateTypeOK, Job
      <3> QED
        BY <1>1, <2>1, <3>1 DEF SettledBy, DeliveryInv, QueueTypeOK, StateTypeOK
    <2> QED
      BY <2>1 DEF FailAttempt
  <1>5. \A k \in ContactJobs : contactJob'[k] = Absent <=> contactJob[k] = Absent
    <2>1. ASSUME task.kind = "contact",
                 contactJob' = [contactJob EXCEPT ![task.key] = Failed(@, ContactAttempts)],
                 NEW k \in ContactJobs
          PROVE  contactJob'[k] = Absent <=> contactJob[k] = Absent
      <3>1. Undisturbed(Failed(contactJob[k], ContactAttempts), contactJob[k])
        BY SettledByHolder, AttemptsPositive DEF DeliveryInv, JobsOK
      <3> HIDE DEF Failed
      <3> QED
        BY <1>1, <2>1, <3>1 DEF Undisturbed, DeliveryInv, QueueTypeOK, DeliveryTypeOK
    <2> QED
      BY <2>1 DEF FailAttempt
  <1> QED
    BY <1>2, <1>3, <1>4, <1>5, NoPageStep

\* The other steps of the workers and of the queue that neither queue a page nor
\* complete a SendBroadcastJob.
LEMMA QuietPages ==
  ASSUME DeliveryInv, PagesInv,
         \/ \E w \in Workers :
               \/ LoadContact(w) \/ SendMail(w) \/ SetKey(w) \/ Take(w)
               \/ HandlerThrows(w) \/ Crash(w) \/ LoseLock(w)
         \/ Recover
         \/ \E r \in Requests : DropAbTestJob(r)
         \/ \E c \in Movers, f \in Filters : ChangeContact(c, f)
  PROVE  PagesInv'
  <1> DEFINE AudiencesKept == \A f \in Filters : AllAlong(f)' = AllAlong(f) /\ Ever(f)' = Ever(f)
  <1>1. UNCHANGED matching => AudiencesKept
    BY AudiencesStay
  <1>2. \A r \in Requests : sendJob[r] \in Job /\ JobInv(sendJob[r], SendAttempts)
    BY DEF DeliveryInv, JobsOK, QueueTypeOK, StateTypeOK
  <1>3. ASSUME NEW w \in Workers, LoadContact(w) \/ SendMail(w) \/ SetKey(w) \/ HandlerThrows(w)
        PROVE  PagesInv'
    <2>1. UNCHANGED matching
      BY <1>3 DEF LoadContact, SendMail, SetKey, HandlerThrows
    <2>2. CASE FailAttempt(w)
      BY <2>1, <2>2, FailAttemptPages
    <2>3. ASSUME NEW pc \in {"sendMail", "setKey", "return"},
                 worker[w].pc \in ContactPcs, Goto(w, pc),
                 UNCHANGED <<sendJob, contactJob, page>>
          PROVE  PagesInv'
      <3>1. pc \in Pcs /\ worker[w].pc # "idle" /\ worker[w].task.kind = "contact"
        BY <2>3 DEF Pcs, ContactPcs, DeliveryInv, HandlersOK
      <3>2. /\ worker'[w].pc = pc
            /\ \A v \in Workers :
                  /\ v # w => worker'[v] = worker[v]
                  /\ worker'[v].task = worker[v].task
        BY <2>3, <3>1, GotoFacts
      <3>3. \A v \in Workers :
               \/ worker'[v] = worker[v] /\ page'[v] = page[v]
               \/ worker'[v].pc \in {"idle"} \cup ContactPcs
               \/ worker'[v].pc = "return" /\ worker'[v].task.kind = "contact"
        BY <2>3, <3>1, <3>2 DEF ContactPcs
      <3> QED
        BY <1>1, <2>1, <2>3, <3>3, NoPageStep
    <2> QED
      BY <1>3, <2>2, <2>3
         DEF LoadContact, SendMail, SetKey, HandlerThrows, ContactPcs
  <1>4. ASSUME NEW w \in Workers, NEW r \in Requests, TakeSend(w, r)
        PROVE  PagesInv'
    <2>1. /\ sendJob'[r] = Taken(sendJob[r], w)
          /\ sendJob'[r].state = "active"
          /\ \A q \in Requests : q # r => sendJob'[q] = sendJob[q]
          /\ UNCHANGED <<matching, contactJob, page>>
      BY <1>2, <1>4, TakenJob, AttemptsPositive
         DEF TakeSend, DeliveryInv, QueueTypeOK, StateTypeOK
    <2>2. /\ worker'[w].pc = "loadBroadcast"
          /\ worker'[w].task.request = r
          /\ worker'[w].entry = Starts(sendJob[r]) + 1
          /\ \A v \in Workers : v # w => worker'[v] = worker[v]
      BY <1>4 DEF TakeSend, DeliveryInv, QueueTypeOK, DeliveryTypeOK
    <2> QED
      BY <1>1, <2>1, <2>2, NoPageStep
  <1>5. ASSUME NEW w \in Workers, NEW k \in ContactJobs, TakeContact(w, k)
        PROVE  PagesInv'
    <2>1. /\ Taken(contactJob[k], w) # Absent /\ contactJob[k] # Absent
          /\ contactJob' = [contactJob EXCEPT ![k] = Taken(contactJob[k], w)]
          /\ UNCHANGED <<matching, sendJob, page>>
      BY <1>5, TakenJob, AttemptsPositive, FreshJobs DEF TakeContact, DeliveryInv, JobsOK
    <2>2. /\ worker'[w].pc = "loadContact"
          /\ \A v \in Workers : v # w => worker'[v] = worker[v]
      BY <1>5 DEF TakeContact, DeliveryInv, QueueTypeOK, DeliveryTypeOK
    <2>3. \A j \in ContactJobs : contactJob'[j] = Absent <=> contactJob[j] = Absent
      BY <2>1 DEF DeliveryInv, QueueTypeOK, DeliveryTypeOK
    <2>4. "loadContact" \in ContactPcs
      BY DEF ContactPcs
    <2> QED
      BY <1>1, <2>1, <2>2, <2>3, <2>4, NoPageStep
  <1>6. ASSUME NEW w \in Workers, Crash(w) \/ LoseLock(w)
        PROVE  PagesInv'
    <2>1. /\ ReleaseLocks(w) /\ UNCHANGED matching
          /\ Leave(w) \/ UNCHANGED <<worker, page>>
      BY <1>6 DEF Crash, LoseLock
    <2>2. \A r \in Requests : sendJob'[r].state = sendJob[r].state
      BY <1>2, <2>1 DEF ReleaseLocks, Unlocked, Job
    <2>3. \A v \in Workers :
             \/ worker'[v] = worker[v] /\ page'[v] = page[v]
             \/ worker'[v].pc = "idle"
      BY <2>1, LeaveTypes, IdleRecord
    <2> QED
      BY <1>1, <2>1, <2>2, <2>3, ReleasedJobs, NoPageStep DEF Undisturbed
  <1>7. ASSUME NEW r \in Requests, RecoverSend(r)
        PROVE  PagesInv'
    <2>1. /\ sendJob' = [sendJob EXCEPT ![r] = Recovered(sendJob[r])]
          /\ UNCHANGED <<matching, contactJob, worker, page>>
      BY <1>7 DEF RecoverSend, workerVars
    <2>2. Recovered(sendJob[r]).state # "completed"
      BY <1>2 DEF Recovered, Job
    <2>3. \A q \in Requests : sendJob'[q].state = "completed" => sendJob'[q] = sendJob[q]
      BY <2>1, <2>2 DEF DeliveryInv, QueueTypeOK, StateTypeOK
    <2> QED
      BY <1>1, <2>1, <2>3, NoPageStep
  <1>8. ASSUME NEW k \in ContactJobs, RecoverContact(k)
        PROVE  PagesInv'
    <2>1. /\ contactJob' = [contactJob EXCEPT ![k] = Recovered(contactJob[k])]
          /\ UNCHANGED <<matching, sendJob, worker, page>>
      BY <1>8 DEF RecoverContact
    <2>2. Undisturbed(Recovered(contactJob[k]), contactJob[k])
      BY <1>8, RecoveredJob, AttemptsPositive DEF RecoverContact, DeliveryInv, JobsOK
    <2>3. \A j \in ContactJobs : contactJob'[j] = Absent <=> contactJob[j] = Absent
      BY <2>1, <2>2 DEF Undisturbed, DeliveryInv, QueueTypeOK, DeliveryTypeOK
    <2> QED
      BY <1>1, <2>1, <2>3, NoPageStep
  <1>9. ASSUME NEW r \in Requests, DropAbTestJob(r)
        PROVE  PagesInv'
    <2>1. UNCHANGED <<matching, sendJob, contactJob, worker, page>>
      BY <1>9 DEF DropAbTestJob, workerVars
    <2> QED
      BY <1>1, <2>1, NoPageStep
  <1>10. ASSUME NEW c \in Movers, NEW f \in Filters, ChangeContact(c, f)
        PROVE  PagesInv'
    <2>1. UNCHANGED <<sendJob, contactJob, worker, page>>
      BY <1>10 DEF ChangeContact, workerVars
    <2>2. AudiencesKept
      BY <1>10, AudiencesStay
    <2> QED
      BY <2>1, <2>2, NoPageStep
  <1> QED
    BY <1>3, <1>4, <1>5, <1>6, <1>7, <1>8, <1>9, <1>10 DEF Take, Recover

-----------------------------------------------------------------------------
(* The steps that read a page, queue it, and complete the job. *)

\* SendBroadcastJob read the broadcast: no page is behind it.
LEMMA LoadBroadcastPages ==
  ASSUME DeliveryInv, PagesInv, NEW w \in Workers, LoadBroadcast(w)
  PROVE  PagesInv'
  <1>1. UNCHANGED matching
    BY DEF LoadBroadcast
  <1>2. CASE FailAttempt(w)
    BY <1>1, <1>2, FailAttemptPages
  <1>3. CASE /\ Goto(w, "selectBatch")
             /\ page' = [page EXCEPT ![w] = [BlankPage EXCEPT !.filter = row.filter]]
             /\ UNCHANGED <<sendJob, contactJob>>
    <2>1. /\ worker[w].pc \in SendPcs /\ worker[w].pc # "idle" /\ "selectBatch" \in Pcs
      BY DEF LoadBroadcast, SendPcs, Pcs
    <2>2. /\ worker'[w].pc = "selectBatch"
          /\ \A v \in Workers :
                /\ v # w => worker'[v] = worker[v]
                /\ worker'[v].task = worker[v].task
                /\ worker'[v].entry = worker[v].entry
      BY <1>3, <2>1, GotoFacts
    <2>3. /\ page'[w].batch = 0
          /\ \A v \in Workers : v # w => page'[v] = page[v]
      BY <1>3 DEF BlankPage, DeliveryInv, QueueTypeOK, DeliveryTypeOK
    <2>4. \A f \in Filters : AllAlong(f)' = AllAlong(f) /\ Ever(f)' = Ever(f)
      BY <1>1, AudiencesStay
    <2>5. \A v \in Workers :
             \/ worker'[v] = worker[v] /\ page'[v] = page[v]
             \/ /\ worker'[v].pc = "selectBatch" /\ page'[v].batch = 0
                /\ worker[v].pc \in SendPcs
                /\ worker'[v].task = worker[v].task
                /\ worker'[v].entry = worker[v].entry
      BY <2>1, <2>2, <2>3
    <2> QED
      BY <1>3, <2>4, <2>5, NoPageStep
  <1> QED
    BY <1>2, <1>3 DEF LoadBroadcast

\* SendBroadcastJob read a page: it has the size of a page of the audience.
LEMMA SelectBatchPages ==
  ASSUME DeliveryInv, PagesInv, NEW w \in Workers, SelectBatch(w)
  PROVE  PagesInv'
  <1>1. /\ worker[w].pc = "selectBatch" /\ worker[w].pc # "idle" /\ "addBulk" \in Pcs
        /\ Goto(w, "addBulk")
        /\ UNCHANGED <<sendJob, matching, contactJob>>
    <2>1. "addBulk" \in Pcs
      BY DEF Pcs, SendPcs
    <2> QED
      BY <2>1 DEF SelectBatch
  <1>2. page[w].filter \in Filters /\ page[w].batch \in Batches
    BY <1>1 DEF DeliveryInv, HandlersOK, QueueTypeOK, DeliveryTypeOK
  <1>3. PICK ids \in SUBSET matching[page[w].filter] :
           /\ Cardinality(ids) = PageSize(Cardinality(matching[page[w].filter]), page[w].batch)
           /\ page' = [page EXCEPT ![w].ids = ids]
    BY DEF SelectBatch
  <1>4. /\ page'[w].filter = page[w].filter /\ page'[w].batch = page[w].batch
        /\ page'[w].ids = ids
        /\ \A v \in Workers : v # w => page'[v] = page[v]
    BY <1>3 DEF DeliveryInv, QueueTypeOK, DeliveryTypeOK
  <1>5. /\ worker'[w].pc = "addBulk"
        /\ \A v \in Workers :
              /\ v # w => worker'[v] = worker[v]
              /\ worker'[v].task = worker[v].task
              /\ worker'[v].entry = worker[v].entry
    BY <1>1, GotoFacts
  <1>6. Fits(Cardinality(ids), page[w].batch, page[w].filter)
    BY <1>2, <1>3, Audiences, PageSizes DEF Fits
  <1>7. \A f \in Filters : AllAlong(f)' = AllAlong(f) /\ Ever(f)' = Ever(f)
    BY <1>1, AudiencesStay
  <1>8. \A v \in Workers :
           \/ worker'[v] = worker[v] /\ page'[v] = page[v]
           \/ /\ worker[v].pc = "selectBatch" /\ worker'[v].pc = "addBulk"
              /\ worker'[v].task = worker[v].task
              /\ worker'[v].entry = worker[v].entry
              /\ page'[v].batch = page[v].batch
              /\ page'[v].filter = page[v].filter
              /\ Fits(Cardinality(page'[v].ids), page[v].batch, page[v].filter)
    BY <1>1, <1>4, <1>5, <1>6
  <1> QED
    BY <1>1, <1>7, <1>8, NoPageStep

\* Where a handler of a SendBroadcastJob is, and that it is alone there.
LEMMA SendEntry ==
  ASSUME DeliveryInv, NEW w \in Workers, worker[w].task.kind = "send"
  PROVE  /\ worker[w].task.request \in Requests
         /\ worker[w].entry \in 1 .. Starts(sendJob[worker[w].task.request])
         /\ worker[w].entry \in SendEntries
         /\ InEntry(w, worker[w].task.request, worker[w].entry)
         /\ \A v \in Workers :
               InEntry(v, worker[w].task.request, worker[w].entry) => v = w
  <1> DEFINE r == worker[w].task.request
  <1>1. r \in Requests /\ worker[w].entry \in 1 .. Starts(sendJob[r])
    BY TaskKinds DEF DeliveryInv, EntriesOK, QueueTypeOK, DeliveryTypeOK
  <1>2. /\ Starts(sendJob[r]) \in Nat
        /\ Starts(sendJob[r]) <= MaxStarts(SendAttempts)
    BY <1>1, StartsBounded, AttemptsPositive DEF DeliveryInv, JobsOK
  <1>3. MaxStarts(SendAttempts) \in Nat
    BY QueueAssumption, AttemptsPositive DEF MaxStarts
  <1>4. worker[w].entry \in SendEntries
    BY <1>1, <1>2, <1>3 DEF SendEntries
  <1>5. ASSUME NEW v \in Workers, InEntry(v, r, worker[w].entry)
        PROVE  v = w
    <2>1. worker[v].task \in SendTasks /\ worker[w].task \in SendTasks
      BY <1>5 DEF InEntry, DeliveryInv, QueueTypeOK, DeliveryTypeOK, Tasks, NoTask,
                  SendTasks, ContactTasks
    <2>2. worker[v].task = worker[w].task
      BY <1>5, <2>1 DEF InEntry, SendTasks
    <2> QED
      BY <1>5, <2>2 DEF InEntry, DeliveryInv, EntriesDiffer
  <1> QED
    BY <1>1, <1>4, <1>5 DEF InEntry

\* Queueing a page makes that page of that entry whole and touches no other.
LEMMA BulkPages ==
  ASSUME DeliveryInv, PagesInv, NEW w \in Workers, AddBulk(w),
         NEW r, r = worker[w].task.request, NEW n, n = worker[w].entry,
         NEW d, d = page[w].batch, NEW g, g = page[w].filter
  PROVE  /\ PageWhole(r, n, d, g)'
         /\ \A q \in Requests, m \in SendEntries, b \in Batches, f \in Filters :
               q # r \/ m # n \/ b # d => (PageWhole(q, m, b, f)' <=> PageWhole(q, m, b, f))
  <1>1. /\ worker[w].pc = "addBulk" /\ worker[w].pc \in SendPcs
        /\ contactJob' = [k \in ContactJobs |->
                             IF k \in PageJobs(w) THEN Added ELSE contactJob[k]]
        /\ UNCHANGED matching
    BY DEF AddBulk, SendPcs
  <1>2. /\ r \in Requests /\ g \in Filters /\ d \in Batches /\ n \in SendEntries
        /\ page[w].ids \in SUBSET Contacts
    BY <1>1, SendEntry
       DEF DeliveryInv, HandlersOK, QueueTypeOK, DeliveryTypeOK
  <1>3. PageJobs(w) = JobsFor(r, n, d, page[w].ids)
    BY DEF PageJobs, JobsFor
  <1>4. PageJobs(w) \subseteq ContactJobs
    BY <1>2, <1>3 DEF ContactJobs, SendEntries, JobsFor
  <1>5. Added # Absent
    BY FreshJobs, AttemptsPositive
  <1>6. \A f \in Filters : AllAlong(f)' = AllAlong(f) /\ Ever(f)' = Ever(f)
    BY <1>1, AudiencesStay
  <1>7. \A f \in Filters : \A size, b : Fits(size, b, f)' <=> Fits(size, b, f)
    BY <1>6 DEF Fits
  <1>8. PageWhole(r, n, d, g)'
    <2>1. \A k \in ContactJobs :
             k.request = r /\ k.run = n /\ k.batch = d => contactJob[k] = Absent
      <3>1. d \in Int
        BY <1>2 DEF Batches
      <3> QED
        BY <1>1, <3>1 DEF DeliveryInv, PagesOK
    <2>2. \A k \in ContactJobs :
             k \in PageJobs(w) => k.request = r /\ k.run = n /\ k.batch = d
      BY <1>3 DEF JobsFor
    <2>3. QueuedPage(r, n, d)' = PageJobs(w)
      BY <1>1, <1>4, <1>5, <2>1, <2>2 DEF QueuedPage
    <2>4. Cardinality(PageJobs(w)) = Cardinality(page[w].ids)
      BY <1>2, <1>3, PageCardinality
    <2>5. Fits(Cardinality(page[w].ids), d, g)
      BY <1>1 DEF PagesInv, ReadPageFits
    <2> QED
      BY <1>2, <1>6, <2>3, <2>4, <2>5 DEF PageWhole, Fits
  <1>9. ASSUME NEW q \in Requests, NEW m \in SendEntries, NEW b \in Batches, NEW f \in Filters,
               q # r \/ m # n \/ b # d
        PROVE  PageWhole(q, m, b, f)' <=> PageWhole(q, m, b, f)
    <2>1. ASSUME NEW k \in ContactJobs, k.request = q, k.run = m, k.batch = b
          PROVE  contactJob'[k] = contactJob[k]
      <3>1. k \notin PageJobs(w)
        BY <1>3, <1>9, <2>1 DEF JobsFor
      <3> QED
        BY <1>1, <3>1
    <2>2. QueuedPage(q, m, b)' = QueuedPage(q, m, b)
      BY <2>1 DEF QueuedPage
    <2> QED
      BY <1>6, <2>2 DEF PageWhole, Fits
  <1> QED
    BY <1>8, <1>9

\* SendBroadcastJob queued a page: it goes on with the next, or returns.
LEMMA AddBulkPages ==
  ASSUME DeliveryInv, PagesInv, NEW w \in Workers, AddBulk(w)
  PROVE  PagesInv'
  <1>1. PICK r, n, d, g : /\ r = worker[w].task.request /\ n = worker[w].entry
                          /\ d = page[w].batch /\ g = page[w].filter
    OBVIOUS
  <1>2. /\ worker[w].pc = "addBulk" /\ worker[w].pc \in SendPcs /\ worker[w].pc # "idle"
        /\ worker[w].task.kind = "send"
        /\ UNCHANGED <<sendJob, matching>>
    BY DEF AddBulk, SendPcs, DeliveryInv, HandlersOK
  <1>3. /\ r \in Requests /\ n \in SendEntries /\ g \in Filters /\ d \in Batches
        /\ InEntry(w, r, n) /\ \A v \in Workers : InEntry(v, r, n) => v = w
    BY <1>1, <1>2, SendEntry DEF DeliveryInv, HandlersOK, QueueTypeOK, DeliveryTypeOK
  <1>4. /\ PageWhole(r, n, d, g)'
        /\ \A q \in Requests, m \in SendEntries, b \in Batches, f \in Filters :
              q # r \/ m # n \/ b # d => (PageWhole(q, m, b, f)' <=> PageWhole(q, m, b, f))
    BY <1>1, BulkPages
  <1>5. \E pc \in {"selectBatch", "return"} :
           /\ Goto(w, pc)
           /\ pc = "selectBatch" => page' = [page EXCEPT ![w].batch = @ + 1, ![w].ids = {}]
           /\ pc = "return" => d = LastBatch /\ page' = [page EXCEPT ![w] = BlankPage]
    BY <1>1 DEF AddBulk
  <1>6. PICK pc \in {"selectBatch", "return"} :
           /\ Goto(w, pc)
           /\ pc = "selectBatch" => page' = [page EXCEPT ![w].batch = @ + 1, ![w].ids = {}]
           /\ pc = "return" => d = LastBatch /\ page' = [page EXCEPT ![w] = BlankPage]
    BY <1>5
  <1>7. /\ worker'[w].pc = pc
        /\ \A v \in Workers :
              /\ v # w => worker'[v] = worker[v]
              /\ worker'[v].task = worker[v].task
              /\ worker'[v].entry = worker[v].entry
    <2>1. pc \in Pcs
      BY DEF Pcs, SendPcs
    <2> QED
      BY <1>2, <1>6, <2>1, GotoFacts
  <1>8. /\ \A v \in Workers : v # w => page'[v] = page[v]
        /\ pc = "selectBatch" => page'[w].batch = d + 1 /\ page'[w].filter = g
    <2>1. page \in [Workers -> [batch: Batches, filter: Filters \cup {NoFilter},
                                ids: SUBSET Contacts]]
      BY DEF DeliveryInv, QueueTypeOK, DeliveryTypeOK
    <2>2. CASE pc = "selectBatch"
      <3> DEFINE next == page[w].batch + 1
      <3>1. page' = [page EXCEPT ![w].batch = next, ![w].ids = {}]
        BY <1>6, <2>2
      <3> HIDE DEF next
      <3>2. /\ page'[w].batch = next /\ page'[w].filter = page[w].filter
            /\ \A v \in Workers : v # w => page'[v] = page[v]
        BY <2>1, <3>1
      <3> QED
        BY <1>1, <3>2 DEF next
    <2>3. CASE pc = "return"
      BY <1>6, <2>1, <2>3
    <2> QED
      BY <2>2, <2>3
  <1>9. \A v \in Workers, q \in Requests, m \in SendEntries : InEntry(v, q, m)' <=> InEntry(v, q, m)
    BY <1>7 DEF InEntry
  <1>10. ReadPageFits'
    <2> SUFFICES ASSUME NEW v \in Workers, worker'[v].pc = "addBulk"
                 PROVE  Fits(Cardinality(page[v].ids), page[v].batch, page[v].filter)'
      BY DEF ReadPageFits
    <2>1. v # w
      BY <1>7
    <2>2. Fits(Cardinality(page[v].ids), page[v].batch, page[v].filter)
      BY <1>7, <2>1 DEF PagesInv, ReadPageFits
    <2> QED
      BY <1>2, <1>8, <2>1, <2>2 DEF Fits, AllAlong, Ever
  <1>11. PagesBehindWhole'
    <2> SUFFICES ASSUME NEW v \in Workers, worker'[v].pc \in {"selectBatch", "addBulk"},
                        NEW q \in Requests, NEW m \in SendEntries, InEntry(v, q, m),
                        NEW b \in Batches, b < page'[v].batch,
                        NEW f \in Filters, page'[v].filter = f
                 PROVE  PageWhole(q, m, b, f)'
      BY <1>9 DEF PagesBehindWhole
    <2>1. CASE v = w
      <3>1. q = r /\ m = n /\ f = g /\ b < d + 1
        BY <1>1, <1>7, <1>8, <2>1 DEF InEntry
      <3>2. CASE b = d
        BY <1>4, <3>1, <3>2
      <3>3. CASE b # d
        <4>1. b < d
          BY <1>3, <3>1, <3>3 DEF Batches
        <4>2. PageWhole(q, m, b, f)
          BY <1>1, <1>2, <2>1, <3>1, <4>1 DEF PagesInv, PagesBehindWhole
        <4> QED
          BY <1>4, <3>3, <4>2
      <3> QED
        BY <3>2, <3>3
    <2>2. CASE v # w
      <3>1. PageWhole(q, m, b, f)
        BY <1>7, <1>8, <2>2 DEF PagesInv, PagesBehindWhole
      <3>2. q # r \/ m # n
        BY <1>3, <2>2
      <3> QED
        BY <1>4, <3>1, <3>2
    <2> QED
      BY <2>1, <2>2
  <1>12. ReturnedWhole'
    <2> SUFFICES ASSUME NEW v \in Workers, worker'[v].pc = "return",
                        NEW q \in Requests, NEW m \in SendEntries, InEntry(v, q, m)
                 PROVE  \E f \in Filters : \A b \in Batches : PageWhole(q, m, b, f)'
      BY <1>9 DEF ReturnedWhole
    <2>1. CASE v = w
      <3>1. q = r /\ m = n /\ d = LastBatch
        BY <1>1, <1>6, <1>7, <2>1 DEF InEntry
      <3>2. ASSUME NEW b \in Batches, b # d
            PROVE  PageWhole(r, n, b, g)'
        <4>1. b < d
          BY <3>1, <3>2 DEF Batches, LastBatch
        <4>2. PageWhole(r, n, b, g)
          BY <1>1, <1>2, <1>3, <4>1 DEF PagesInv, PagesBehindWhole
        <4> QED
          BY <1>3, <1>4, <3>2, <4>2
      <3> QED
        BY <1>3, <1>4, <3>1, <3>2
    <2>2. CASE v # w
      <3>1. \E f \in Filters : \A b \in Batches : PageWhole(q, m, b, f)
        BY <1>7, <2>2 DEF PagesInv, ReturnedWhole
      <3>2. q # r \/ m # n
        BY <1>3, <2>2
      <3> QED
        BY <1>4, <3>1, <3>2
    <2> QED
      BY <2>1, <2>2
  <1>13. CompletedWhole'
    <2> SUFFICES ASSUME NEW q \in Requests, sendJob[q].state = "completed"
                 PROVE  \E m \in 1 .. Starts(sendJob[q]), f \in Filters :
                           /\ EntryOver(q, m)'
                           /\ \A b \in Batches : PageWhole(q, m, b, f)'
      BY <1>2 DEF CompletedWhole
    <2>1. PICK m \in 1 .. Starts(sendJob[q]), f \in Filters :
             EntryOver(q, m) /\ \A b \in Batches : PageWhole(q, m, b, f)
      BY DEF PagesInv, CompletedWhole
    <2>2. m \in SendEntries
      <3>1. Starts(sendJob[q]) \in Nat /\ Starts(sendJob[q]) <= MaxStarts(SendAttempts)
        BY StartsBounded, AttemptsPositive DEF DeliveryInv, JobsOK
      <3>2. MaxStarts(SendAttempts) \in Nat
        BY QueueAssumption, AttemptsPositive DEF MaxStarts
      <3> QED
        BY <2>1, <3>1, <3>2 DEF SendEntries
    <2>3. q # r \/ m # n
      BY <1>2, <1>3, <2>1 DEF EntryOver
    <2>4. EntryOver(q, m)'
      BY <1>2, <1>7, <1>9, <2>1, <2>2 DEF EntryOver
    <2> QED
      BY <1>4, <2>1, <2>2, <2>3, <2>4
  <1> QED
    BY <1>10, <1>11, <1>12, <1>13 DEF PagesInv

\* A worker that returns success: if it holds the lock, the job completes with
\* the pages of its entry whole.
LEMMA SucceedPages ==
  ASSUME DeliveryInv, PagesInv, NEW w \in Workers, Succeed(w)
  PROVE  PagesInv'
  <1> DEFINE task == worker[w].task
  <1>1. /\ worker[w].pc = "return" /\ Leave(w) /\ UNCHANGED matching
        /\ task \in Tasks
    BY DEF Succeed, DeliveryInv, QueueTypeOK, DeliveryTypeOK
  <1>2. \A f \in Filters : AllAlong(f)' = AllAlong(f) /\ Ever(f)' = Ever(f)
    BY <1>1, AudiencesStay
  <1>3. \A v \in Workers :
           \/ worker'[v] = worker[v] /\ page'[v] = page[v]
           \/ worker'[v].pc = "idle" /\ worker'[v].task.kind = "none"
    BY <1>1, LeaveTypes, IdleRecord
  <1>4. ASSUME task.kind = "contact",
               contactJob' = [contactJob EXCEPT ![task.key] = SettledBy(@, w, Completed(@))],
               UNCHANGED sendJob
        PROVE  PagesInv'
    <2>1. task.key \in ContactJobs
      BY <1>1, <1>4, TaskKinds
    <2>2. ASSUME NEW k \in ContactJobs
          PROVE  contactJob'[k] = Absent <=> contactJob[k] = Absent
      <3> DEFINE settled == SettledBy(contactJob[k], w, Completed(contactJob[k]))
      <3>1. Undisturbed(settled, contactJob[k])
        BY SettledByHolder, AttemptsPositive DEF DeliveryInv, JobsOK
      <3>2. contactJob'[k] = settled \/ contactJob'[k] = contactJob[k]
        BY <1>4, <2>1 DEF DeliveryInv, QueueTypeOK, DeliveryTypeOK
      <3> HIDE DEF settled
      <3> QED
        BY <3>1, <3>2 DEF Undisturbed
    <2> QED
      BY <1>2, <1>3, <1>4, <2>2, NoPageStep
  <1>5. ASSUME task.kind = "send",
               NEW r, r = task.request, NEW n, n = worker[w].entry,
               sendJob' = [sendJob EXCEPT ![r] = SettledBy(@, w, Completed(@))],
               UNCHANGED contactJob
        PROVE  PagesInv'
    <2>1. /\ r \in Requests /\ n \in 1 .. Starts(sendJob[r]) /\ n \in SendEntries
          /\ InEntry(w, r, n) /\ \A v \in Workers : InEntry(v, r, n) => v = w
      BY <1>5, SendEntry
    <2>2. CASE sendJob[r].lock # w
      <3>1. \A q \in Requests : sendJob'[q] = sendJob[q]
        BY <1>5, <2>1, <2>2 DEF SettledBy, DeliveryInv, QueueTypeOK, StateTypeOK
      <3> QED
        BY <1>2, <1>3, <1>5, <3>1, NoPageStep
    <2>3. CASE sendJob[r].lock = w
      <3>1. \A f \in Filters : \A q, m, b : PageWhole(q, m, b, f)' = PageWhole(q, m, b, f)
        BY <1>2, <1>5, PagesStay
      <3>2. /\ \A q \in Requests : q # r => sendJob'[q] = sendJob[q]
            /\ Starts(sendJob'[r]) = Starts(sendJob[r])
        <4>1. JobInv(sendJob[r], SendAttempts)
          BY <2>1 DEF DeliveryInv, JobsOK
        <4>2. Undisturbed(SettledBy(sendJob[r], w, Completed(sendJob[r])), sendJob[r])
          BY <4>1, SettledByHolder, AttemptsPositive
        <4> QED
          BY <1>5, <2>1, <4>2 DEF Undisturbed, DeliveryInv, QueueTypeOK, StateTypeOK
      <3>3. \A q \in Requests, m \in SendEntries : EntryOver(q, m) => EntryOver(q, m)'
        BY <1>3 DEF EntryOver, InEntry, SendPcs
      <3>4. EntryOver(r, n)'
        <4>1. EntryOver(r, n)
          BY <1>1, <2>1 DEF EntryOver, SendPcs
        <4> QED
          BY <2>1, <3>3, <4>1
      <3>5. PICK g \in Filters : \A b \in Batches : PageWhole(r, n, b, g)
        BY <1>1, <2>1 DEF PagesInv, ReturnedWhole
      <3>6. CompletedWhole'
        <4> SUFFICES ASSUME NEW q \in Requests, sendJob'[q].state = "completed"
                     PROVE  \E m \in 1 .. Starts(sendJob'[q]), f \in Filters :
                               /\ EntryOver(q, m)'
                               /\ \A b \in Batches : PageWhole(q, m, b, f)'
          BY DEF CompletedWhole
        <4>1. CASE q = r
          BY <2>1, <3>1, <3>2, <3>4, <3>5, <4>1
        <4>2. CASE q # r
          <5>1. sendJob'[q] = sendJob[q]
            BY <3>2, <4>2
          <5>2. PICK m \in 1 .. Starts(sendJob[q]), f \in Filters :
                   EntryOver(q, m) /\ \A b \in Batches : PageWhole(q, m, b, f)
            BY <5>1 DEF PagesInv, CompletedWhole
          <5>3. EntryOver(q, m)'
            BY <1>3, <5>2 DEF EntryOver, InEntry, SendPcs
          <5> QED
            BY <3>1, <5>1, <5>2, <5>3
        <4> QED
          BY <4>1, <4>2
      <3>7. ReadPageFits'
        <4> SUFFICES ASSUME NEW v \in Workers, worker'[v].pc = "addBulk"
                     PROVE  Fits(Cardinality(page[v].ids), page[v].batch, page[v].filter)'
          BY DEF ReadPageFits
        <4>1. /\ worker'[v] = worker[v] /\ page'[v] = page[v]
              /\ Fits(Cardinality(page[v].ids), page[v].batch, page[v].filter)
          BY <1>3 DEF PagesInv, ReadPageFits
        <4> QED
          BY <1>1, <4>1 DEF Fits, AllAlong, Ever
      <3>8. PagesBehindWhole' /\ ReturnedWhole'
        <4>1. \A v \in Workers, q \in Requests, m \in SendEntries :
                 InEntry(v, q, m)' =>
                    /\ InEntry(v, q, m)
                    /\ worker'[v] = worker[v] /\ page'[v] = page[v]
          BY <1>3 DEF InEntry
        <4> QED
          BY <3>1, <4>1 DEF PagesInv, PagesBehindWhole, ReturnedWhole
      <3> QED
        BY <3>6, <3>7, <3>8 DEF PagesInv
    <2> QED
      BY <2>2, <2>3
  <1> QED
    BY <1>4, <1>5 DEF Succeed

\* The HTTP side adds jobs that have not run, and changes the row.
LEMMA OutsidePages ==
  ASSUME DeliveryInv, PagesInv,
         \A r \in Requests : sendJob'[r] = sendJob[r] \/ sendJob'[r] = Added,
         UNCHANGED <<matching, workerVars>>
  PROVE  PagesInv'
  <1>1. UNCHANGED <<matching, contactJob, worker, page>>
    BY DEF workerVars
  <1>2. Added.state # "completed"
    BY FreshJobs, AttemptsPositive
  <1>3. \A r \in Requests : sendJob'[r].state = "completed" => sendJob'[r] = sendJob[r]
    BY <1>2
  <1>4. \A f \in Filters : AllAlong(f)' = AllAlong(f) /\ Ever(f)' = Ever(f)
    BY <1>1, AudiencesStay
  <1> QED
    BY <1>1, <1>3, <1>4, NoPageStep

-----------------------------------------------------------------------------
\* Every step of the workers and of what surrounds them keeps PagesInv.
LEMMA PagesWorkerStep ==
  ASSUME DeliveryInv, PagesInv, DeliveryNext
  PROVE  PagesInv'
  <1>1. ASSUME NEW w \in Workers, HandlerStep(w)
        PROVE  PagesInv'
    BY <1>1, LoadBroadcastPages, SelectBatchPages, AddBulkPages, SucceedPages, QuietPages
       DEF HandlerStep
  <1> QED
    BY <1>1, QuietPages DEF DeliveryNext

\* At first there is no page.
LEMMA PagesInit == DeliveryStart => PagesInv
  BY IdleRecord
     DEF DeliveryStart, StateInit, DeliveryInit, PagesInv, ReadPageFits,
         PagesBehindWhole, ReturnedWhole, CompletedWhole, Idle, Absent

\* The pages of the entry that completed a job add up to the jobs it queued.
LEMMA PagesMakeRun ==
  ASSUME DeliveryInv, PagesInv
  PROVE  CompletedRunIsWhole
  <1> SUFFICES ASSUME NEW r \in Requests, sendJob[r].state = "completed"
               PROVE  \E n \in 1 .. Starts(sendJob[r]), f \in Filters :
                         LET queued == Cardinality(QueuedBy(r, n))
                         IN  /\ queued >= InPages(Cardinality(matching[f] \ Movers))
                             /\ queued <= InPages(Cardinality(matching[f] \cup Movers))
    BY DEF CompletedRunIsWhole
  <1>1. PICK n \in 1 .. Starts(sendJob[r]), f \in Filters :
           \A b \in Batches : PageWhole(r, n, b, f)
    BY DEF PagesInv, CompletedWhole
  <1>2. 0 \in Batches /\ 1 \in Batches /\ \A b \in Batches : b = 0 \/ b = 1
    BY DEF Batches, LastBatch
  <1>3. ASSUME NEW b \in Batches
        PROVE  IsFiniteSet(QueuedPage(r, n, b)) /\ Cardinality(QueuedPage(r, n, b)) \in Nat
    <2>1. QueuedPage(r, n, b) \subseteq JobsFor(r, n, b, Contacts)
      BY DEF QueuedPage, ContactJobs, JobsFor
    <2>2. IsFiniteSet(JobsFor(r, n, b, Contacts))
      BY PageCardinality
    <2> QED
      BY <2>1, <2>2, FS_Subset, FS_CardinalityType
  <1>4. QueuedBy(r, n) = QueuedPage(r, n, 0) \cup QueuedPage(r, n, 1)
    BY <1>2 DEF QueuedBy, QueuedPage, ContactJobs
  <1>5. QueuedPage(r, n, 0) \cap QueuedPage(r, n, 1) = {}
    BY DEF QueuedPage
  <1>6. Cardinality(QueuedBy(r, n)) =
           Cardinality(QueuedPage(r, n, 0)) + Cardinality(QueuedPage(r, n, 1))
    <2>1. Cardinality({}) = 0
      BY FS_EmptySet
    <2>2. /\ IsFiniteSet(QueuedPage(r, n, 0)) /\ IsFiniteSet(QueuedPage(r, n, 1))
          /\ Cardinality(QueuedPage(r, n, 0)) \in Nat
          /\ Cardinality(QueuedPage(r, n, 1)) \in Nat
      BY <1>2, <1>3
    <2>3. Cardinality(QueuedPage(r, n, 0) \cup QueuedPage(r, n, 1)) =
             Cardinality(QueuedPage(r, n, 0)) + Cardinality(QueuedPage(r, n, 1))
                - Cardinality(QueuedPage(r, n, 0) \cap QueuedPage(r, n, 1))
      BY <2>2, FS_Union
    <2>4. Cardinality(QueuedPage(r, n, 0) \cap QueuedPage(r, n, 1)) = 0
      BY <1>5, <2>1
    <2>5. Cardinality(QueuedBy(r, n)) =
             Cardinality(QueuedPage(r, n, 0) \cup QueuedPage(r, n, 1))
      BY <1>4
    <2> QED
      BY <2>2, <2>3, <2>4, <2>5
  <1>7. /\ Cardinality(matching[f] \ Movers) \in Nat
        /\ Cardinality(matching[f] \cup Movers) \in Nat
    BY Audiences DEF AllAlong, Ever
  <1>8. /\ PageWhole(r, n, 0, f) /\ PageWhole(r, n, 1, f)
    BY <1>1, <1>2
  <1>9. \A b \in Batches : \A m \in Nat : PageSize(m, b) \in Nat
    BY PageSizes
  <1>10. /\ Cardinality(QueuedBy(r, n)) >= InPages(Cardinality(matching[f] \ Movers))
         /\ Cardinality(QueuedBy(r, n)) <= InPages(Cardinality(matching[f] \cup Movers))
    BY <1>2, <1>3, <1>6, <1>7, <1>8, <1>9
       DEF PageWhole, Fits, InPages, AllAlong, Ever
  <1> QED
    BY <1>10

\* Crashes, stragglers and re-runs leave no page missing or cut short in the
\* entry of a SendBroadcastJob that completed it.
THEOREM CompletedRunsAreWhole == DeliverySpec => []CompletedRunIsWhole
  <1>1. DeliveryInv /\ PagesInv /\ [DeliveryNext \/ HttpStep]_deliveryVars => PagesInv'
    <2> SUFFICES ASSUME DeliveryInv, PagesInv, [DeliveryNext \/ HttpStep]_deliveryVars
                 PROVE  PagesInv'
      OBVIOUS
    <2>1. CASE HttpStep \/ UNCHANGED deliveryVars
      <3>1. UNCHANGED <<matching, workerVars>>
        BY <2>1 DEF HttpStep, DeleteRow, QueueSend, QueueAbTest, deliveryVars
      <3>2. \A r \in Requests : sendJob'[r] = sendJob[r] \/ sendJob'[r] = Added
        BY <2>1 DEF HttpStep, DeleteRow, QueueSend, QueueAbTest, deliveryVars,
                    DeliveryInv, QueueTypeOK, StateTypeOK
      <3> QED
        BY <3>1, <3>2, OutsidePages
    <2> QED
      BY <2>1, PagesWorkerStep
  <1>2. DeliveryInv /\ PagesInv => CompletedRunIsWhole
    BY PagesMakeRun
  <1> QED
    BY <1>1, <1>2, PagesInit, DeliveryInvariant, PTL DEF DeliverySpec


-----------------------------------------------------------------------------
(***************************************************************************)
(* BroadcastDelivery implements DeliveryPromise.  Only four steps are seen *)
(* by the promise: AddBulk queues, SendMail sends, SetKey records, and a   *)
(* job that is completed or failed is reported; every other is a stutter.  *)
(***************************************************************************)
\* The report of a job in each of its states.
LEMMA Reports ==
  ASSUME NEW job, job.state \in JobStates
  PROVE  /\ ReportOf(job) \in {"none", "pending", "done", "failed"}
         /\ ReportOf(job) = "none" <=> job.state = "absent"
         /\ ReportOf(job) = "pending" <=> job.state \in {"waiting", "active"}
         /\ ReportOf(job) = "done" <=> job.state = "completed"
         /\ ReportOf(job) = "failed" <=> job.state = "failed"
  BY DEF ReportOf, JobStates

\* Steps after which every job reports what it did, mails and keys unchanged.
LEMMA StutterStep ==
  ASSUME \A k \in ContactJobs : ReportOf(contactJob'[k]) = ReportOf(contactJob[k]),
         UNCHANGED <<mailed, keyed>>
  PROVE  UNCHANGED Promise!promiseVars
  BY DEF Promise!promiseVars, Report

\* A failed attempt is a stutter, or gives its job up.
LEMMA FailAttemptPromise ==
  ASSUME DeliveryInv, NEW w \in Workers, FailAttempt(w), UNCHANGED <<mailed, keyed>>
  PROVE  [Promise!Next]_Promise!promiseVars
  <1> DEFINE k == worker[w].task.key
             new == AttemptFailed(contactJob[k], ContactAttempts)
  <1>1. CASE UNCHANGED contactJob
    BY <1>1, StutterStep DEF Report
  <1>2. CASE /\ worker[w].task.kind = "contact"
             /\ contactJob' = [contactJob EXCEPT ![k] = SettledBy(@, w, new)]
    <2>1. k \in ContactJobs /\ contactJob \in [ContactJobs -> Job]
      BY <1>2, TaskKinds DEF DeliveryInv, QueueTypeOK, DeliveryTypeOK
    <2>2. JobInv(contactJob[k], ContactAttempts)
      BY <2>1 DEF DeliveryInv, JobsOK
    <2>3. CASE contactJob[k].lock # w
      <3>1. contactJob' = contactJob
        BY <1>2, <2>1, <2>3 DEF SettledBy
      <3> QED
        BY <1>1, <3>1
    <2>4. CASE contactJob[k].lock = w
      <3>1. contactJob[k].state = "active"
        BY <2>2, <2>4, QueueAssumption DEF JobInv
      <3>2. new.state \in {"waiting", "failed"}
        BY <2>2, <3>1, AttemptFailedJob, AttemptsPositive
      <3>3. contactJob' = [contactJob EXCEPT ![k] = new]
        BY <1>2, <2>4 DEF SettledBy
      <3> HIDE DEF new
      <3>4. ReportOf(contactJob[k]) = "pending"
        BY <3>1, Reports DEF JobStates
      <3>5. ReportOf(new) \in {"pending", "failed"}
        BY <3>2, Reports DEF JobStates
      <3>6. Report' = [Report EXCEPT ![k] = ReportOf(new)]
        BY <2>1, <3>3 DEF Report
      <3>7. Report[k] = "pending" /\ Report = [j \in ContactJobs |-> Report[j]]
        BY <2>1, <3>4 DEF Report
      <3>8. CASE ReportOf(new) = "pending"
        BY <3>6, <3>7, <3>8 DEF Promise!promiseVars
      <3>9. CASE ReportOf(new) = "failed"
        BY <2>1, <3>6, <3>7, <3>9 DEF Promise!Next, Promise!GiveUp
      <3> QED
        BY <3>5, <3>8, <3>9
    <2> QED
      BY <2>3, <2>4
  <1> QED
    BY <1>1, <1>2 DEF FailAttempt

\* A handler that succeeded reports its job done, if it still holds the lock.
LEMMA SucceedPromise ==
  ASSUME DeliveryInv, NEW w \in Workers, Succeed(w)
  PROVE  [Promise!Next]_Promise!promiseVars
  <1> DEFINE k == worker[w].task.key
             new == Completed(contactJob[k])
  <1>0. worker[w].pc = "return" /\ UNCHANGED <<mailed, keyed>>
    BY DEF Succeed
  <1>1. CASE UNCHANGED contactJob
    BY <1>0, <1>1, StutterStep DEF Report
  <1>2. CASE /\ worker[w].task.kind = "contact"
             /\ contactJob' = [contactJob EXCEPT ![k] = SettledBy(@, w, new)]
    <2>1. k \in ContactJobs /\ contactJob \in [ContactJobs -> Job]
      BY <1>2, TaskKinds DEF DeliveryInv, QueueTypeOK, DeliveryTypeOK
    <2>2. JobInv(contactJob[k], ContactAttempts)
      BY <2>1 DEF DeliveryInv, JobsOK
    <2>3. CASE contactJob[k].lock # w
      <3>1. contactJob' = contactJob
        BY <1>2, <2>1, <2>3 DEF SettledBy
      <3> QED
        BY <1>1, <3>1
    <2>4. CASE contactJob[k].lock = w
      <3>1. contactJob[k].state = "active"
        BY <2>2, <2>4, QueueAssumption DEF JobInv
      <3>2. new.state = "completed"
        BY <2>2, <3>1, CompletedJob, AttemptsPositive
      <3>3. contactJob' = [contactJob EXCEPT ![k] = new]
        BY <1>2, <2>4 DEF SettledBy
      <3> HIDE DEF new
      <3>4. ReportOf(contactJob[k]) = "pending" /\ ReportOf(new) = "done"
        BY <3>1, <3>2, Reports DEF JobStates
      <3>5. Report' = [Report EXCEPT ![k] = "done"] /\ Report[k] = "pending"
        BY <2>1, <3>3, <3>4 DEF Report
      <3>6. keyed[k] # {}
        BY <1>0, <1>2, <2>1 DEF DeliveryInv, ProgressOK
      <3> QED
        BY <1>0, <2>1, <3>5, <3>6 DEF Promise!Next, Promise!ReportDone
    <2> QED
      BY <2>3, <2>4
  <1> QED
    BY <1>1, <1>2 DEF Succeed

\* The stalled check is a stutter, or gives the job up.
LEMMA RecoverContactPromise ==
  ASSUME DeliveryInv, NEW k \in ContactJobs, RecoverContact(k)
  PROVE  [Promise!Next]_Promise!promiseVars
  <1> DEFINE new == Recovered(contactJob[k])
  <1>1. /\ contactJob' = [contactJob EXCEPT ![k] = new]
        /\ contactJob[k].state = "active"
        /\ UNCHANGED <<mailed, keyed>>
    BY DEF RecoverContact, Stalled
  <1>2. new.state \in {"waiting", "failed"}
    BY RecoveredJob, AttemptsPositive DEF RecoverContact, DeliveryInv, JobsOK
  <1> HIDE DEF new
  <1>3. ReportOf(contactJob[k]) = "pending" /\ ReportOf(new) \in {"pending", "failed"}
    BY <1>1, <1>2, Reports DEF JobStates
  <1>4. /\ Report' = [Report EXCEPT ![k] = ReportOf(new)]
        /\ Report[k] = "pending" /\ Report = [j \in ContactJobs |-> Report[j]]
    BY <1>1, <1>3 DEF Report, DeliveryInv, QueueTypeOK, DeliveryTypeOK
  <1>5. CASE ReportOf(new) = "pending"
    BY <1>1, <1>4, <1>5 DEF Promise!promiseVars
  <1>6. CASE ReportOf(new) = "failed"
    BY <1>1, <1>4, <1>6 DEF Promise!Next, Promise!GiveUp
  <1> QED
    BY <1>3, <1>5, <1>6

\* A page that is queued queues only jobs that were not.
LEMMA AddBulkPromise ==
  ASSUME DeliveryInv, NEW w \in Workers, AddBulk(w)
  PROVE  Promise!Queue
  <1>1. /\ worker[w].pc = "addBulk"
        /\ UNCHANGED <<mailed, keyed>>
        /\ \A k \in ContactJobs :
              contactJob'[k] = IF k \in PageJobs(w) THEN Added ELSE contactJob[k]
    BY DEF AddBulk
  <1>2. \A k \in ContactJobs : k \in PageJobs(w) => contactJob[k] = Absent
    BY <1>1, PageJobsFresh
  <1>3. ReportOf(Added) = "pending" /\ ReportOf(Absent) = "none"
    BY DEF ReportOf, Added, Absent
  <1>4. \A k \in ContactJobs : contactJob[k].state \in JobStates
    BY DEF DeliveryInv, JobsOK, JobInv, Job
  <1>5. \A k \in ContactJobs : ReportOf(contactJob[k]) \in Promise!Reports
    BY <1>4, Reports DEF Promise!Reports
  <1>6. \A k \in ContactJobs :
           \/ Report'[k] = Report[k]
           \/ Report[k] = "none" /\ Report'[k] = "pending"
    BY <1>1, <1>2, <1>3 DEF Report
  <1>7. Report' \in [ContactJobs -> Promise!Reports]
    BY <1>5, <1>6 DEF Report, Promise!Reports
  <1> QED
    BY <1>1, <1>6, <1>7 DEF Promise!Queue

\* A mail is sent for a queued job, the first of its entry.
LEMMA SendMailPromise ==
  ASSUME DeliveryInv, NEW w \in Workers, SendMail(w)
  PROVE  [Promise!Next]_Promise!promiseVars
  <1>1. CASE FailAttempt(w) /\ UNCHANGED mailed
    BY <1>1, FailAttemptPromise DEF SendMail
  <1>2. CASE /\ mailed' = [mailed EXCEPT ![worker[w].task.key] = @ \cup {worker[w].entry}]
             /\ UNCHANGED <<sendJob, contactJob, page>>
    <2> DEFINE k == worker[w].task.key
               m == worker[w].entry
    <2>1. worker[w].pc = "sendMail" /\ worker[w].pc \in ContactPcs /\ UNCHANGED keyed
      BY DEF SendMail, ContactPcs
    <2>2. /\ k \in ContactJobs /\ m \in ContactEntries /\ m \notin mailed[k]
          /\ contactJob[k] # Absent
      BY <2>1, ContactEntry DEF DeliveryInv, ProgressOK
    <2>3. Report[k] # "none" /\ UNCHANGED Report
      <3>1. contactJob[k].state # "absent" /\ contactJob[k].state \in JobStates
        BY <2>2, AddedOnce DEF DeliveryInv, JobsOK, JobInv, Job
      <3> QED
        BY <1>2, <2>2, <3>1, Reports DEF Report
    <2>4. m \in Promise!Mails
      BY <2>2 DEF Promise!Mails, ContactEntries
    <2>5. Promise!Send(k, m)
      BY <1>2, <2>1, <2>2, <2>3 DEF Promise!Send
    <2> QED
      BY <2>2, <2>4, <2>5 DEF Promise!Next
  <1> QED
    BY <1>1, <1>2 DEF SendMail

\* A key is set for a mail of the same entry.
LEMMA SetKeyPromise ==
  ASSUME DeliveryInv, NEW w \in Workers, SetKey(w)
  PROVE  [Promise!Next]_Promise!promiseVars
  <1> DEFINE k == worker[w].task.key
             m == worker[w].entry
  <1>1. /\ worker[w].pc = "setKey" /\ worker[w].pc \in ContactPcs
        /\ keyed' = [keyed EXCEPT ![k] = @ \cup {m}]
        /\ UNCHANGED <<contactJob, mailed>>
    BY DEF SetKey, ContactPcs
  <1>2. k \in ContactJobs /\ m \in ContactEntries /\ m \in mailed[k]
    BY <1>1, ContactEntry DEF DeliveryInv, ProgressOK
  <1>3. Promise!Record(k, m)
    BY <1>1, <1>2 DEF Promise!Record, Report
  <1>4. m \in Promise!Mails
    BY <1>2 DEF Promise!Mails, ContactEntries
  <1> QED
    BY <1>2, <1>3, <1>4 DEF Promise!Next

\* Every step is a step of the promise or a stutter.
LEMMA PromiseStep ==
  DeliveryInv /\ [DeliveryNext \/ HttpStep]_deliveryVars
    => [Promise!Next]_Promise!promiseVars
  <1> SUFFICES ASSUME DeliveryInv, [DeliveryNext \/ HttpStep]_deliveryVars
               PROVE  [Promise!Next]_Promise!promiseVars
    OBVIOUS
  <1>1. ASSUME UNCHANGED <<contactJob, mailed, keyed>>
        PROVE  [Promise!Next]_Promise!promiseVars
    BY <1>1, StutterStep
  <1>2. ASSUME NEW w \in Workers, HandlerStep(w)
        PROVE  [Promise!Next]_Promise!promiseVars
    <2>1. CASE LoadBroadcast(w) \/ LoadContact(w)
      BY <1>1, <2>1, FailAttemptPromise DEF LoadBroadcast, LoadContact
    <2>2. CASE SelectBatch(w)
      BY <1>1, <2>2 DEF SelectBatch
    <2>3. CASE AddBulk(w)
      BY <2>3, AddBulkPromise DEF Promise!Next
    <2> QED
      BY <1>2, <2>1, <2>2, <2>3, SendMailPromise, SetKeyPromise, SucceedPromise
         DEF HandlerStep
  <1>3. ASSUME NEW w \in Workers, HandlerThrows(w)
        PROVE  [Promise!Next]_Promise!promiseVars
    BY <1>3, FailAttemptPromise DEF HandlerThrows
  <1>4. ASSUME NEW w \in Workers, Take(w)
        PROVE  [Promise!Next]_Promise!promiseVars
    <2>1. ASSUME NEW k \in ContactJobs, TakeContact(w, k)
          PROVE  [Promise!Next]_Promise!promiseVars
      <3>1. JobInv(contactJob[k], ContactAttempts) /\ contactJob[k].state = "waiting"
        BY <2>1 DEF TakeContact, DeliveryInv, JobsOK
      <3>2. /\ Taken(contactJob[k], w).state = "active"
            /\ contactJob' = [contactJob EXCEPT ![k] = Taken(contactJob[k], w)]
            /\ UNCHANGED <<mailed, keyed>>
        BY <2>1, <3>1, TakenJob, AttemptsPositive DEF TakeContact
      <3>3. ReportOf(Taken(contactJob[k], w)) = ReportOf(contactJob[k])
        BY <3>1, <3>2, Reports DEF JobStates
      <3>4. \A j \in ContactJobs : ReportOf(contactJob'[j]) = ReportOf(contactJob[j])
        BY <3>2, <3>3 DEF DeliveryInv, QueueTypeOK, DeliveryTypeOK
      <3> QED
        BY <3>2, <3>4, StutterStep
    <2> QED
      BY <1>1, <1>4, <2>1 DEF Take, TakeSend
  <1>5. ASSUME NEW w \in Workers, Crash(w) \/ LoseLock(w)
        PROVE  [Promise!Next]_Promise!promiseVars
    <2>1. ReleaseLocks(w) /\ UNCHANGED <<mailed, keyed>>
      BY <1>5 DEF Crash, LoseLock
    <2>2. \A k \in ContactJobs : ReportOf(contactJob'[k]) = ReportOf(contactJob[k])
      BY <2>1, ReleasedJobs DEF ReportOf
    <2> QED
      BY <2>1, <2>2, StutterStep
  <1>6. CASE Recover
    BY <1>1, <1>6, RecoverContactPromise DEF Recover, RecoverSend, workerVars
  <1>7. CASE \/ \E r \in Requests : DropAbTestJob(r)
             \/ \E c \in Movers, f \in Filters : ChangeContact(c, f)
             \/ HttpStep
    BY <1>1, <1>7
       DEF DropAbTestJob, ChangeContact, HttpStep, DeleteRow, QueueSend, QueueAbTest,
           workerVars
  <1>8. CASE UNCHANGED deliveryVars
    BY <1>1, <1>8 DEF deliveryVars, workerVars
  <1> QED
    BY <1>2, <1>3, <1>4, <1>5, <1>6, <1>7, <1>8 DEF DeliveryNext

\* Nothing is queued, sent or recorded at first.
LEMMA PromiseInit == DeliveryStart => Promise!Init
  BY DEF DeliveryStart, DeliveryInit, Promise!Init, Report, ReportOf, Absent

\* The workers keep the promise, whatever crashes, stalls and stragglers there are.
THEOREM DeliveryImplementsPromise == DeliverySpec => KeepsPromise
  BY DeliveryInvariant, PromiseInit, PromiseStep, PTL
     DEF DeliverySpec, KeepsPromise, Promise!Spec
-----------------------------------------------------------------------------
(***************************************************************************)
(* The inductive invariant.  The four properties are not inductive alone:  *)
(* what a request has done must be tied to its jobs, the status to a       *)
(* request that set it, and the flag an editor will write back from its    *)
(* snapshot to the variants that are there by then.                        *)
(***************************************************************************)
\* A request past AddSendJob has a job.
RequestsQueued ==
    \A r \in Requests :
        request[r].pc \in {"added", "done", "abortedLate"} => Queued(r)

\* Only an answered request sets the status.
QueuedByRequest ==
    row.exists /\ row.status = "QUEUED_FOR_SENDING" =>
        \E r \in Requests : request[r].pc = "done"

\* A flag read before the transaction is still true of the row it is written to.
SnapshotsHoldVariants ==
    \A e \in Editors :
        editor[e].reading /\ editor[e].snapshot.isAbTest /\ row.exists =>
            row.variants # "none"

\* The inductive invariant: these and the properties themselves.
ControlInv ==
    /\ TypeOK
    /\ RequestsQueued
    /\ QueuedByRequest
    /\ AcknowledgedStaysQueued
    /\ AbTestHasVariants
    /\ SnapshotsHoldVariants

-----------------------------------------------------------------------------
(* What the records of the model are. *)

\* A queued job is not an absent one.
LEMMA AddedIsJob == Added \in Job /\ Added # Absent
  BY DEF Added, Absent, Job, JobStates

\* A deleted row is a row that does not exist.
LEMMA DeletedIsRow == Deleted \in Row /\ ~Deleted.exists
  BY DEF Deleted, Row, Statuses, Completeness

\* A PUT keeps the row a row, its status and its existence; the filter stays one
\* of Filters, and variants are never taken away.
LEMMA UpdatedRow ==
  ASSUME NEW b \in Row, NEW s \in Row, NEW p \in Patch,
         b.filter \in Filters
  PROVE  /\ Updated(b, s, p) \in Row
         /\ Updated(b, s, p).exists = b.exists
         /\ Updated(b, s, p).status = b.status
         /\ Updated(b, s, p).filter \in Filters
         /\ b.variants # "none" => Updated(b, s, p).variants # "none"
         /\ Updated(b, s, p).isAbTest =>
              \/ Updated(b, s, p).variants # "none"
              \/ s.isAbTest
              \/ b.isAbTest
  <1> DEFINE u == Updated(b, s, p)
             flag == IF p.fields \/ p.filter # Keep
                       THEN p.variants # Keep \/ s.isAbTest
                       ELSE b.isAbTest
  <1>1. u = [b EXCEPT
               !.filter   = IF p.filter = Keep THEN b.filter ELSE p.filter,
               !.isAbTest = flag,
               !.content  = IF p.content = Keep THEN b.content ELSE p.content,
               !.variants = IF p.variants = Keep THEN b.variants ELSE p.variants]
    BY DEF Updated
  <1>2. /\ p.filter # Keep => p.filter \in Filters
        /\ p.content # Keep => p.content \in {"partial", "complete"}
        /\ p.variants # Keep => p.variants \in {"partial", "complete"}
        /\ p.fields \in BOOLEAN
    BY DEF Patch
  <1>3. flag \in BOOLEAN /\ (flag => p.variants # Keep \/ s.isAbTest \/ b.isAbTest)
    BY <1>2 DEF Row
  <1> HIDE DEF flag
  <1>4. u \in Row /\ u.filter \in Filters
    BY <1>1, <1>2, <1>3 DEF Row, Completeness
  <1>5. /\ u.exists = b.exists
        /\ u.status = b.status
        /\ u.isAbTest = flag
        /\ u.variants = IF p.variants = Keep THEN b.variants ELSE p.variants
    BY <1>1 DEF Row
  <1> QED
    BY <1>2, <1>3, <1>4, <1>5

-----------------------------------------------------------------------------
\* The drafts a broadcast starts from satisfy the invariant.
LEMMA ControlInvInit == ControlStart => ControlInv
  <1> SUFFICES ASSUME StateInit, ControlInit
               PROVE  ControlInv
    BY DEF ControlStart
  <1>1. row \in Row /\ row.exists /\ row.filter \in Filters /\ row.status = "DRAFT"
        /\ (row.isAbTest => row.variants # "none")
    BY StateAssumption DEF StateInit
  <1>2. TypeOK
    BY <1>1, DeletedIsRow
       DEF TypeOK, StateTypeOK, ControlTypeOK, StateInit, ControlInit, NoEdit,
           RequestStates, Absent, Job, JobStates
  <1>3. RequestsQueued /\ QueuedByRequest /\ AcknowledgedStaysQueued
    BY <1>1 DEF RequestsQueued, QueuedByRequest, AcknowledgedStaysQueued, ControlInit
  <1>4. AbTestHasVariants /\ SnapshotsHoldVariants
    BY <1>1 DEF AbTestHasVariants, SnapshotsHoldVariants, ControlInit, NoEdit
  <1> QED
    BY <1>2, <1>3, <1>4 DEF ControlInv

\* Every step of a request, an editor or a delete keeps it.
LEMMA ControlInvStep == ControlInv /\ [ControlNext]_controlVars => ControlInv'
  <1> SUFFICES ASSUME ControlInv, [ControlNext]_controlVars
               PROVE  ControlInv'
    OBVIOUS
  <1> USE DEF ControlInv, TypeOK, StateTypeOK, ControlTypeOK
  <1>1. ASSUME NEW r \in Requests, ReadDraft(r)
        PROVE  ControlInv'
    <2>1. TypeOK'
      BY <1>1 DEF ReadDraft, jobs, RequestStates, Sendable, Row
    <2>2. (RequestsQueued /\ QueuedByRequest /\ AcknowledgedStaysQueued)'
      BY <1>1 DEF ReadDraft, jobs, RequestsQueued, QueuedByRequest,
                  AcknowledgedStaysQueued, Queued
    <2>3. (AbTestHasVariants /\ SnapshotsHoldVariants)'
      BY <1>1 DEF ReadDraft, AbTestHasVariants, SnapshotsHoldVariants
    <2> QED
      BY <2>1, <2>2, <2>3
  <1>2. ASSUME NEW r \in Requests, AddSendJob(r)
        PROVE  ControlInv'
    <2>1. TypeOK'
      BY <1>2, AddedIsJob DEF AddSendJob, RequestStates
    <2>2. RequestsQueued'
      BY <1>2, AddedIsJob DEF AddSendJob, RequestsQueued, Queued
    <2>3. (QueuedByRequest /\ AcknowledgedStaysQueued)'
      BY <1>2 DEF AddSendJob, QueuedByRequest, AcknowledgedStaysQueued
    <2>4. (AbTestHasVariants /\ SnapshotsHoldVariants)'
      BY <1>2 DEF AddSendJob, AbTestHasVariants, SnapshotsHoldVariants
    <2> QED
      BY <2>1, <2>2, <2>3, <2>4
  <1>3. ASSUME NEW r \in Requests, SetQueued(r)
        PROVE  ControlInv'
    <2>1. TypeOK'
      BY <1>3 DEF SetQueued, jobs, RequestStates, Row, Statuses
    <2>2. RequestsQueued'
      BY <1>3 DEF SetQueued, jobs, RequestsQueued, Queued
    <2>3. (QueuedByRequest /\ AcknowledgedStaysQueued)'
      BY <1>3 DEF SetQueued, QueuedByRequest, AcknowledgedStaysQueued, Row
    <2>4. (AbTestHasVariants /\ SnapshotsHoldVariants)'
      BY <1>3 DEF SetQueued, AbTestHasVariants, SnapshotsHoldVariants, Row
    <2> QED
      BY <2>1, <2>2, <2>3, <2>4
  <1>4. ASSUME NEW r \in Requests, AbortSend(r)
        PROVE  ControlInv'
    <2>1. TypeOK'
      BY <1>4 DEF AbortSend, jobs, RequestStates
    <2>2. (RequestsQueued /\ QueuedByRequest /\ AcknowledgedStaysQueued)'
      BY <1>4 DEF AbortSend, jobs, RequestsQueued, QueuedByRequest,
                  AcknowledgedStaysQueued, Queued
    <2>3. (AbTestHasVariants /\ SnapshotsHoldVariants)'
      BY <1>4 DEF AbortSend, AbTestHasVariants, SnapshotsHoldVariants
    <2> QED
      BY <2>1, <2>2, <2>3
  <1>5. ASSUME NEW e \in Editors, ReadForUpdate(e)
        PROVE  ControlInv'
    <2>1. TypeOK'
      BY <1>5 DEF ReadForUpdate, jobs
    <2>2. (RequestsQueued /\ QueuedByRequest /\ AcknowledgedStaysQueued)'
      BY <1>5 DEF ReadForUpdate, jobs, RequestsQueued, QueuedByRequest,
                  AcknowledgedStaysQueued, Queued
    <2>3. (AbTestHasVariants /\ SnapshotsHoldVariants)'
      BY <1>5 DEF ReadForUpdate, AbTestHasVariants, SnapshotsHoldVariants
    <2> QED
      BY <2>1, <2>2, <2>3
  <1>6. ASSUME NEW e \in Editors, NEW p \in Patches, CommitUpdate(e, p)
        PROVE  ControlInv'
    <2>1. p \in Patch /\ editor[e].snapshot \in Row
      BY ControlAssumption
    <2>2. CASE row.exists
      <3>1. row' = Updated(row, editor[e].snapshot, p)
        BY <1>6, <2>2 DEF CommitUpdate
      <3>2. /\ row' \in Row /\ row'.exists /\ row'.status = row.status
            /\ row'.filter \in Filters
            /\ row.variants # "none" => row'.variants # "none"
            /\ row'.isAbTest => \/ row'.variants # "none"
                                \/ editor[e].snapshot.isAbTest
                                \/ row.isAbTest
        BY <2>1, <2>2, <3>1, UpdatedRow
      <3>3. TypeOK'
        BY <1>6, <3>2, DeletedIsRow DEF CommitUpdate, jobs, NoEdit
      <3>4. (RequestsQueued /\ QueuedByRequest /\ AcknowledgedStaysQueued)'
        BY <1>6, <2>2, <3>2
           DEF CommitUpdate, jobs, RequestsQueued, QueuedByRequest,
               AcknowledgedStaysQueued, Queued
      <3>5. (AbTestHasVariants /\ SnapshotsHoldVariants)'
        BY <1>6, <2>2, <3>2
           DEF CommitUpdate, NoEdit, AbTestHasVariants, SnapshotsHoldVariants
      <3> QED
        BY <3>3, <3>4, <3>5
    <2>3. CASE ~row.exists
      BY <1>6, <2>3, DeletedIsRow
         DEF CommitUpdate, jobs, NoEdit, RequestsQueued, QueuedByRequest,
             AcknowledgedStaysQueued, Queued, AbTestHasVariants,
             SnapshotsHoldVariants
    <2> QED
      BY <2>2, <2>3
  <1>7. ASSUME NEW e \in Editors, AbortUpdate(e)
        PROVE  ControlInv'
    <2>1. TypeOK'
      BY <1>7, DeletedIsRow DEF AbortUpdate, jobs, NoEdit
    <2>2. (RequestsQueued /\ QueuedByRequest /\ AcknowledgedStaysQueued)'
      BY <1>7 DEF AbortUpdate, jobs, RequestsQueued, QueuedByRequest,
                  AcknowledgedStaysQueued, Queued
    <2>3. (AbTestHasVariants /\ SnapshotsHoldVariants)'
      BY <1>7 DEF AbortUpdate, NoEdit, AbTestHasVariants, SnapshotsHoldVariants
    <2> QED
      BY <2>1, <2>2, <2>3
  <1>8. CASE DeleteBroadcast
    BY <1>8, DeletedIsRow
       DEF DeleteBroadcast, jobs, RequestsQueued, QueuedByRequest,
           AcknowledgedStaysQueued, Queued, AbTestHasVariants,
           SnapshotsHoldVariants
  <1>9. CASE UNCHANGED controlVars
    BY <1>9 DEF controlVars, jobs, RequestsQueued, QueuedByRequest,
                AcknowledgedStaysQueued, Queued, AbTestHasVariants,
                SnapshotsHoldVariants
  <1> QED
    BY <1>1, <1>2, <1>3, <1>4, <1>5, <1>6, <1>7, <1>8, <1>9 DEF ControlNext

\* The invariant of the HTTP side.
THEOREM ControlInvariant == ControlSpec => []ControlInv
  BY ControlInvInit, ControlInvStep, PTL DEF ControlSpec

-----------------------------------------------------------------------------
\* Requests, editors, the row and the jobs keep their types, through every
\* interleaving of the handlers.
THEOREM TypeCorrect == ControlSpec => []TypeOK
  <1>1. ControlInv => TypeOK
    BY DEF ControlInv
  <1> QED
    BY <1>1, ControlInvariant, PTL

\* A broadcast that shows as queued has a job (SendBroadcastAction adds the job
\* before it sets the status).
THEOREM QueuedImpliesJob == ControlSpec => []QueuedHasJob
  <1>1. ControlInv => QueuedHasJob
    BY DEF ControlInv, QueuedByRequest, RequestsQueued, QueuedHasJob
  <1> QED
    BY <1>1, ControlInvariant, PTL

\* No PUT takes back the status an answered send request set.
THEOREM AcknowledgementIsFinal == ControlSpec => []AcknowledgedStaysQueued
  <1>1. ControlInv => AcknowledgedStaysQueued
    BY DEF ControlInv
  <1> QED
    BY <1>1, ControlInvariant, PTL

\* The isAbTest flag PUT requests recompute never outlives the variants.
THEOREM FlagHasVariants == ControlSpec => []AbTestHasVariants
  <1>1. ControlInv => AbTestHasVariants
    BY DEF ControlInv
  <1> QED
    BY <1>1, ControlInvariant, PTL

\* After an answered send request BroadcastController.send accepts no other.
THEOREM OneAcknowledgedSend == ControlSpec => NoSendAfterAcknowledged
  <1>1. ASSUME ControlInv, [ControlNext]_controlVars,
               NEW r \in Requests, NEW q \in Requests,
               request[r].pc = "start", request'[r].pc = "accepted"
        PROVE  request[q].pc # "done"
    <2>1. ReadDraft(r)
      BY <1>1 DEF ControlInv, TypeOK, ControlTypeOK, ControlNext, controlVars,
                  ReadDraft, AddSendJob, SetQueued, AbortSend, ReadForUpdate,
                  CommitUpdate, AbortUpdate, DeleteBroadcast
    <2>2. row.exists /\ row.status = "DRAFT"
      BY <1>1, <2>1 DEF ControlInv, TypeOK, ControlTypeOK, ReadDraft, Sendable
    <2> QED
      BY <1>1, <2>2 DEF ControlInv, AcknowledgedStaysQueued
  <1>2. ControlInv /\ [ControlNext]_controlVars =>
          [\A r, q \in Requests :
              /\ request[r].pc = "start"
              /\ request'[r].pc = "accepted"
              => request[q].pc # "done"]_controlVars
    BY <1>1
  <1> QED
    BY <1>2, ControlInvariant, PTL DEF ControlSpec, NoSendAfterAcknowledged

-----------------------------------------------------------------------------
(* The requests beside the workers. *)

\* A SendBroadcastJob was added by its request, for a plain broadcast.
SendJobsRequested ==
    \A r \in Requests :
        sendJob[r] # Absent =>
            /\ request[r].pc \in {"added", "done", "abortedLate"}
            /\ ~request[r].isAbTest

BroadcastsInv == ControlInv /\ DeliveryInv /\ SendJobsRequested

-----------------------------------------------------------------------------
(* What the workers leave to the requests. *)

\* Settling a job, by whoever runs it, keeps it queued.
LEMMA SettledStaysQueued ==
  ASSUME DeliveryInv, NEW w \in Workers, FailAttempt(w) \/ Succeed(w)
  PROVE  \A r \in Requests : sendJob[r] # Absent <=> sendJob'[r] # Absent
  <1> DEFINE q == worker[w].task.request
  <1>1. CASE UNCHANGED sendJob
    BY <1>1
  <1>2. CASE /\ worker[w].task.kind = "send"
             /\ \/ sendJob' = [sendJob EXCEPT ![q] =
                                  SettledBy(@, w, AttemptFailed(@, SendAttempts))]
                \/ sendJob' = [sendJob EXCEPT ![q] = SettledBy(@, w, Completed(@))]
    <2>1. q \in Requests /\ sendJob \in [Requests -> Job]
      BY <1>2, TaskKinds DEF DeliveryInv, QueueTypeOK, StateTypeOK, DeliveryTypeOK
    <2>2. JobInv(sendJob[q], SendAttempts)
      BY <2>1 DEF DeliveryInv, JobsOK
    <2>3. /\ Undisturbed(SettledBy(sendJob[q], w, AttemptFailed(sendJob[q], SendAttempts)),
                         sendJob[q])
          /\ Undisturbed(SettledBy(sendJob[q], w, Completed(sendJob[q])), sendJob[q])
      BY <2>2, SettledByHolder, AttemptsPositive
    <2> QED
      BY <1>2, <2>1, <2>3 DEF Undisturbed
  <1> QED
    BY <1>1, <1>2 DEF FailAttempt, Succeed

\* Workers write no row, and no job of theirs becomes unqueued or is added.
LEMMA DeliveryLeavesControl ==
  ASSUME DeliveryInv, DeliveryNext
  PROVE  /\ UNCHANGED row
         /\ \A r \in Requests :
               /\ sendJob[r] # Absent <=> sendJob'[r] # Absent
               /\ abTestJob[r] # Absent => abTestJob'[r] # Absent
  <1> DEFINE Kept == /\ UNCHANGED row
                     /\ \A r \in Requests :
                           /\ sendJob[r] # Absent <=> sendJob'[r] # Absent
                           /\ abTestJob[r] # Absent => abTestJob'[r] # Absent
  <1> SUFFICES Kept
    OBVIOUS
  <1>1. ASSUME NEW w \in Workers, HandlerStep(w) \/ HandlerThrows(w)
        PROVE  Kept
    <2>1. UNCHANGED <<row, abTestJob>>
      BY <1>1 DEF HandlerStep, HandlerThrows, LoadBroadcast, SelectBatch, AddBulk,
                  LoadContact, SendMail, SetKey, Succeed
    <2>2. UNCHANGED sendJob \/ FailAttempt(w) \/ Succeed(w)
      BY <1>1 DEF HandlerStep, HandlerThrows, LoadBroadcast, SelectBatch, AddBulk,
                  LoadContact, SendMail, SetKey
    <2> QED
      BY <2>1, <2>2, SettledStaysQueued
  <1>2. ASSUME NEW w \in Workers, Take(w)
        PROVE  Kept
    <2>1. ASSUME NEW r \in Requests, TakeSend(w, r)
          PROVE  Kept
      <3>1. Taken(sendJob[r], w) # Absent /\ sendJob[r] # Absent
        BY <2>1, TakenJob, AttemptsPositive, FreshJobs
           DEF TakeSend, DeliveryInv, JobsOK
      <3> QED
        BY <2>1, <3>1 DEF TakeSend, DeliveryInv, QueueTypeOK, StateTypeOK
    <2> QED
      BY <1>2, <2>1 DEF Take, TakeContact
  <1>3. ASSUME NEW w \in Workers, Crash(w) \/ LoseLock(w)
        PROVE  Kept
    BY <1>3, ReleasedJobs DEF Crash, LoseLock, Undisturbed
  <1>4. CASE Recover
    <2>1. ASSUME NEW r \in Requests, RecoverSend(r)
          PROVE  Kept
      <3>1. Undisturbed(Recovered(sendJob[r]), sendJob[r])
        BY <2>1, RecoveredJob, AttemptsPositive DEF RecoverSend, DeliveryInv, JobsOK
      <3> QED
        BY <2>1, <3>1
           DEF RecoverSend, Undisturbed, DeliveryInv, QueueTypeOK, StateTypeOK
    <2> QED
      BY <1>4, <2>1 DEF Recover, RecoverContact
  <1>5. ASSUME NEW r \in Requests, DropAbTestJob(r)
        PROVE  Kept
    <2>1. Completed(abTestJob[r]) # Absent
      BY DEF Completed, Absent, DeliveryInv, QueueTypeOK, StateTypeOK, Job
    <2> QED
      BY <1>5, <2>1 DEF DropAbTestJob, DeliveryInv, QueueTypeOK, StateTypeOK
  <1>6. ASSUME NEW c \in Movers, NEW f \in Filters, ChangeContact(c, f)
        PROVE  Kept
    BY <1>6 DEF ChangeContact
  <1> QED
    BY <1>1, <1>2, <1>3, <1>4, <1>5, <1>6 DEF DeliveryNext

-----------------------------------------------------------------------------
\* The invariant holds of a draft nobody has sent.
LEMMA BroadcastsInvInit == Init => BroadcastsInv
  BY ControlInvInit, DeliveryInvInit
     DEF Init, ControlStart, DeliveryStart, BroadcastsInv, SendJobsRequested, StateInit

\* The workers keep what the requests rely on.
LEMMA DeliveryKeepsInv ==
  ASSUME BroadcastsInv, DeliveryStep
  PROVE  BroadcastsInv'
  <1>1. DeliveryNext /\ UNCHANGED <<request, editor>>
    BY DEF DeliveryStep
  <1>2. DeliveryInv'
    BY <1>1, DeliveryInvStep DEF BroadcastsInv
  <1>3. /\ row' = row
        /\ \A r \in Requests :
              /\ sendJob[r] # Absent <=> sendJob'[r] # Absent
              /\ abTestJob[r] # Absent => abTestJob'[r] # Absent
    BY <1>1, DeliveryLeavesControl DEF BroadcastsInv
  <1>4. TypeOK'
    BY <1>1, <1>2
       DEF BroadcastsInv, ControlInv, TypeOK, ControlTypeOK, DeliveryInv, QueueTypeOK
  <1>5. (RequestsQueued /\ QueuedByRequest /\ AcknowledgedStaysQueued)'
    BY <1>1, <1>3
       DEF BroadcastsInv, ControlInv, RequestsQueued, QueuedByRequest,
           AcknowledgedStaysQueued, Queued
  <1>6. (AbTestHasVariants /\ SnapshotsHoldVariants)'
    BY <1>1, <1>3
       DEF BroadcastsInv, ControlInv, AbTestHasVariants, SnapshotsHoldVariants
  <1>7. SendJobsRequested'
    BY <1>1, <1>3 DEF BroadcastsInv, SendJobsRequested
  <1> QED
    BY <1>2, <1>4, <1>5, <1>6, <1>7 DEF BroadcastsInv, ControlInv

\* The requests keep what the workers rely on: a job is added once.
LEMMA ControlKeepsInv ==
  ASSUME BroadcastsInv, ControlStep
  PROVE  BroadcastsInv'
  <1>1. ControlNext /\ UNCHANGED <<matching, workerVars>>
    BY DEF ControlStep
  <1>2. ControlInv'
    BY <1>1, ControlInvStep DEF BroadcastsInv
  <1>3. QueueTypeOK'
    BY <1>1, <1>2
       DEF BroadcastsInv, ControlInv, TypeOK, DeliveryInv, QueueTypeOK, DeliveryTypeOK,
           workerVars
  <1>4. ASSUME UNCHANGED sendJob
        PROVE  DeliveryInv'
    BY <1>1, <1>3, <1>4, OutsideStep DEF BroadcastsInv
  <1>5. ASSUME NEW r \in Requests, AddSendJob(r)
        PROVE  BroadcastsInv'
    <2>1. CASE request[r].isAbTest
      <3>1. UNCHANGED sendJob
        BY <1>5, <2>1 DEF AddSendJob
      <3>2. SendJobsRequested'
        BY <1>5, <3>1 DEF AddSendJob, BroadcastsInv, SendJobsRequested, ControlInv,
                          TypeOK, ControlTypeOK
      <3> QED
        BY <1>2, <1>4, <3>1, <3>2 DEF BroadcastsInv
    <2>2. CASE ~request[r].isAbTest
      <3>1. sendJob[r] = Absent
        BY <1>5 DEF AddSendJob, BroadcastsInv, SendJobsRequested
      <3>2. /\ sendJob' = [sendJob EXCEPT ![r] = Added]
            /\ UNCHANGED <<row, abTestJob, matching, workerVars>>
        BY <1>1, <1>5, <2>2 DEF AddSendJob
      <3>3. DeliveryInv'
        BY <3>1, <3>2, SendJobAddedStep DEF BroadcastsInv
      <3>4. SendJobsRequested'
        BY <1>5, <2>2
           DEF AddSendJob, BroadcastsInv, SendJobsRequested, ControlInv, TypeOK,
               StateTypeOK, ControlTypeOK
      <3> QED
        BY <1>2, <3>3, <3>4 DEF BroadcastsInv
    <2> QED
      BY <2>1, <2>2
  <1>6. ASSUME UNCHANGED sendJob, SendJobsRequested'
        PROVE  BroadcastsInv'
    BY <1>2, <1>4, <1>6 DEF BroadcastsInv
  <1>7. ASSUME NEW r \in Requests, ReadDraft(r) \/ SetQueued(r) \/ AbortSend(r)
        PROVE  BroadcastsInv'
    <2>1. UNCHANGED sendJob
      BY <1>7 DEF ReadDraft, SetQueued, AbortSend, jobs
    <2>2. SendJobsRequested'
      BY <1>7, <2>1
         DEF ReadDraft, SetQueued, AbortSend, BroadcastsInv, SendJobsRequested,
             ControlInv, TypeOK, ControlTypeOK
    <2> QED
      BY <1>6, <2>1, <2>2
  <1>8. ASSUME UNCHANGED <<sendJob, request>>
        PROVE  BroadcastsInv'
    BY <1>6, <1>8 DEF BroadcastsInv, SendJobsRequested
  <1> QED
    BY <1>1, <1>5, <1>7, <1>8
       DEF ControlNext, ReadForUpdate, CommitUpdate, AbortUpdate, DeleteBroadcast, jobs

\* Every step, of a request or of a worker, keeps the invariant.
LEMMA BroadcastsInvStep == BroadcastsInv /\ [Next]_vars => BroadcastsInv'
  <1> SUFFICES ASSUME BroadcastsInv, [Next]_vars
               PROVE  BroadcastsInv'
    OBVIOUS
  <1>1. CASE UNCHANGED vars
    <2>1. ControlInv'
      BY <1>1, ControlInvStep DEF BroadcastsInv, vars, controlVars, jobs
    <2>2. DeliveryInv'
      BY <1>1, DeliveryInvStep DEF BroadcastsInv, vars, deliveryVars
    <2>3. SendJobsRequested'
      BY <1>1 DEF BroadcastsInv, vars, SendJobsRequested
    <2> QED
      BY <2>1, <2>2, <2>3 DEF BroadcastsInv
  <1> QED
    BY <1>1, ControlKeepsInv, DeliveryKeepsInv DEF Next

\* The invariant of the two sides together.
THEOREM BroadcastsInvariant == Spec => []BroadcastsInv
  BY BroadcastsInvInit, BroadcastsInvStep, PTL DEF Spec

-----------------------------------------------------------------------------
\* What was proved of the HTTP side alone holds beside the workers.
THEOREM ControlBesideWorkers ==
  Spec => [](TypeOK /\ QueuedHasJob /\ AcknowledgedStaysQueued /\ AbTestHasVariants)
  <1>1. BroadcastsInv =>
          TypeOK /\ QueuedHasJob /\ AcknowledgedStaysQueued /\ AbTestHasVariants
    BY DEF BroadcastsInv, ControlInv, QueuedByRequest, RequestsQueued, QueuedHasJob
  <1> QED
    BY <1>1, BroadcastsInvariant, PTL

\* Every mail goes back to a send request that was accepted for a plain
\* broadcast and added its job.
THEOREM MailsRequested == Spec => []MailWasRequested
  <1>1. BroadcastsInv => MailWasRequested
    <2> SUFFICES ASSUME BroadcastsInv, NEW k \in ContactJobs, mailed[k] # {}
                 PROVE  /\ request[k.request].pc \in {"added", "done", "abortedLate"}
                        /\ ~request[k.request].isAbTest
      BY DEF MailWasRequested
    <2>1. k.request \in Requests /\ k.run \in Nat \ {0}
      BY DEF ContactJobs
    <2>2. contactJob[k] # Absent
      <3>1. mailed[k] \subseteq 1 .. Starts(contactJob[k])
        BY DEF BroadcastsInv, DeliveryInv, MailsOK
      <3> QED
        BY <3>1, FreshJobs, AttemptsPositive
    <2>3. ~(k.run > Starts(sendJob[k.request]))
      BY <2>2 DEF BroadcastsInv, DeliveryInv, PagesOK
    <2>4. sendJob[k.request] # Absent
      BY <2>1, <2>3, FreshJobs, AttemptsPositive
    <2> QED
      BY <2>1, <2>4 DEF BroadcastsInv, SendJobsRequested
  <1> QED
    BY <1>1, BroadcastsInvariant, PTL

\* The composed system implements DeliveryPromise: requests do not touch what
\* the promise is about.
THEOREM BroadcastsImplementPromise == Spec => KeepsPromise
  <1>1. Init => Promise!Init
    BY PromiseInit DEF Init, DeliveryStart
  <1>2. BroadcastsInv /\ [Next]_vars => [Promise!Next]_Promise!promiseVars
    <2> SUFFICES ASSUME BroadcastsInv, [Next]_vars
                 PROVE  [Promise!Next]_Promise!promiseVars
      OBVIOUS
    <2>1. CASE DeliveryStep
      BY <2>1, PromiseStep DEF DeliveryStep, BroadcastsInv
    <2>2. CASE ControlStep \/ UNCHANGED vars
      BY <2>2, StutterStep DEF ControlStep, vars, workerVars
    <2> QED
      BY <2>1, <2>2 DEF Next
  <1> QED
    BY <1>1, <1>2, BroadcastsInvariant, PTL DEF Spec, KeepsPromise, Promise!Spec

\* The requests add jobs that have not run and change no contact: beside them a
\* SendBroadcastJob that completed is whole, too.
THEOREM RunsWholeBesideRequests == Spec => []CompletedRunIsWhole
  <1>1. Init => PagesInv
    BY PagesInit DEF Init, DeliveryStart
  <1>2. BroadcastsInv /\ PagesInv /\ [Next]_vars => PagesInv'
    <2> SUFFICES ASSUME BroadcastsInv, PagesInv, [Next]_vars
                 PROVE  PagesInv'
      OBVIOUS
    <2>1. CASE DeliveryStep
      BY <2>1, PagesWorkerStep DEF DeliveryStep, BroadcastsInv
    <2>2. CASE ControlStep \/ UNCHANGED vars
      <3>1. UNCHANGED <<matching, workerVars>>
        BY <2>2 DEF ControlStep, vars
      <3>2. \A r \in Requests : sendJob'[r] = sendJob[r] \/ sendJob'[r] = Added
        <4>1. UNCHANGED sendJob \/ \E r \in Requests : AddSendJob(r)
          BY <2>2 DEF ControlStep, vars, ControlNext, ReadDraft, SetQueued, AbortSend,
                      ReadForUpdate, CommitUpdate, AbortUpdate, DeleteBroadcast, jobs
        <4> QED
          BY <4>1 DEF AddSendJob, BroadcastsInv, DeliveryInv, QueueTypeOK, StateTypeOK
      <3> QED
        BY <3>1, <3>2, OutsidePages DEF BroadcastsInv
    <2> QED
      BY <2>1, <2>2 DEF Next
  <1>3. BroadcastsInv /\ PagesInv => CompletedRunIsWhole
    BY PagesMakeRun DEF BroadcastsInv
  <1> QED
    BY <1>1, <1>2, <1>3, BroadcastsInvariant, PTL DEF Spec
=============================================================================
