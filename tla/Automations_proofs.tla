------------------------- MODULE Automations_proofs -------------------------
(***************************************************************************)
(* Automations implements StepLedger, and its safety properties, for any   *)
(* steps, contacts, workers, jobs, attempts and tolerated stalls.          *)
(***************************************************************************)
EXTENDS Automations, JobWorkers_proofs, FiniteSetTheorems, WellFoundedInduction

-----------------------------------------------------------------------------
(***************************************************************************)
(* The inductive invariant.  Handlers go on with jobs whose lock they      *)
(* lost, so it speaks of entries: which jobs an entry has queued, how far  *)
(* the entry of a step's job has come, what a page left to queue.          *)
(***************************************************************************)
AttemptsFn == [k \in Keys |-> AttemptsOf(k)]

\* Every job is added once: a run has ids of its own for the jobs it queues.
QueueOK == QueueInv(Keys, AttemptsFn, Pcs, Keys)

\* Steps a request saw exist, and none follows the parent it asked for.
TreeOK ==
    \A s \in Steps : \A t \in author[s].seen :
        /\ Created(t)
        /\ author[s].parent # NoStep => author[t].parent # author[s].parent

\* The job whose runs queue k.
OriginJob(k) ==
    [kind |-> IF k.origin \in Entries THEN "entry" ELSE "bulk", origin |-> k.origin]

\* Step jobs come from runs of their origin, with steps that exist.
OriginsOK ==
    \A k \in StepJobs : job[k] # Absent =>
        /\ k.run <= Starts(job[OriginJob(k)])
        /\ k.step # NoStep => Created(k.step)

\* Attempts that acted are entries that were counted, and only they are recorded.
AttemptsOK ==
    /\ \A a \in acted : a[2] <= Starts(job[a[1]])
    /\ recorded \subseteq acted
    /\ \A a \in recorded : a[1].step \in Steps

\* What all workers share.
SharedInv ==
    /\ AutomationTypeOK
    /\ QueueOK
    /\ TreeOK
    /\ OriginsOK
    /\ EnteredHasJob
    /\ AttemptsOK
    /\ CompletedLeavesRow
    /\ TagsOfRecordedStep
    /\ EveryPendingQueued

-----------------------------------------------------------------------------
\* Where a handler stands fits its job; a step that is run or queued exists.
HandlerOK(w) ==
    LET key == worker[w].key
        at  == worker[w].pc
    IN  /\ at \in EntryPcs => key \in EntryJobs
        /\ at \in BulkPcs => key \in BulkJobs
        /\ at \in StepPcs => key \in StepJobs
        /\ at \in {"addStepJob", "commit"} =>
              locals[w].step \in Steps /\ Created(locals[w].step)
        /\ at \in StepPcs \ {"loadStep"} => key.step \in Steps
        /\ at \in {"readTags", "insertTags"} => Kind[key.step] = "ACTION_ADD_TAG"
        /\ at = "detachTags" => Kind[key.step] = "ACTION_REMOVE_TAG"
        /\ at \in {"findEmail", "sendMail", "setKey"} => Kind[key.step] = "ACTION_SEND_EMAIL"
        /\ at \in {"idle", "findTrigger", "findStep", "loadStep"} => locals[w] = Blank

\* The step jobs that the run w is in queues.
OfRun(w) == {k \in StepJobs : OriginJob(k) = worker[w].key /\ k.run = Entry(w)}

\* What the run has not queued yet.
UnqueuedOK(w) ==
    \A k \in OfRun(w) :
        /\ worker[w].pc \in {"findTrigger", "findNext", "addStepJob", "findStep"} =>
              job[k] = Absent
        /\ worker[w].pc = "selectPage" /\ k.contact > locals[w].cursor => job[k] = Absent
        /\ worker[w].pc = "addBulk" =>
              /\ k.contact \in locals[w].ids => job[k] = Absent
              /\ locals[w].cursor # 0 /\ k.contact > locals[w].cursor => job[k] = Absent

\* What it has queued: the contacts up to its cursor, and in the end all.
PageOK(w) ==
    LET s == EntryOf(w)
    IN  worker[w].pc # "idle" /\ worker[w].key \in BulkJobs =>
          /\ worker[w].pc = "selectPage" => \A c \in PendingAt(s) :
                c <= locals[w].cursor => job[PagedStep(w, c)] # Absent
          /\ worker[w].pc = "addBulk" =>
                /\ locals[w].ids \subseteq PendingAt(s)
                /\ \A c \in locals[w].ids : locals[w].cursor = 0 \/ c <= locals[w].cursor
                /\ \A c \in PendingAt(s) :
                      locals[w].cursor = 0 \/ c <= locals[w].cursor =>
                          c \in locals[w].ids \/ job[PagedStep(w, c)] # Absent
          /\ worker[w].pc = "return" => \A c \in PendingAt(s) : job[PagedStep(w, c)] # Absent

\* A row about to be committed has its job.
CommitOK(w) == worker[w].pc = "commit" => job[QueuedStep(w)] # Absent

\* How far the entry of a step job has come.
ProgressOK(w) ==
    /\ worker[w].pc \in {"loadStep"} \cup ActPcs => Attempt(w) \notin acted
    /\ worker[w].pc \in {"setKey", "record"} => Attempt(w) \in acted
    /\ worker[w].pc = "return" /\ worker[w].key \in StepJobs /\ worker[w].key.step # NoStep =>
          PairOf(worker[w].key) \in Ledger

\* The tags of a step on their way to the contact.
OnContact(c) == tagged[c] \cup lost[c]

TagsOK(w) ==
    LET k == worker[w].key
    IN  /\ worker[w].pc = "insertTags" =>
              TagsOf[k.step] \cap tags \subseteq OnContact(k.contact) \cup locals[w].tags
        /\ worker[w].pc = "record" /\ Kind[k.step] = "ACTION_ADD_TAG" =>
              TagsOf[k.step] \cap tags \subseteq OnContact(k.contact)

WorkerInv(w) ==
    /\ HandlerOK(w)
    /\ UnqueuedOK(w)
    /\ PageOK(w)
    /\ CommitOK(w)
    /\ ProgressOK(w)
    /\ TagsOK(w)

\* The inductive invariant; the properties are parts of it, or follow.
AutomationInv == SharedInv /\ \A w \in Workers : WorkerInv(w)

-----------------------------------------------------------------------------
(* What the records of the model are. *)

\* Jobs are told apart by their kind.
LEMMA JobKinds ==
  /\ \A k \in EntryJobs : k.kind = "entry" /\ k.origin \in Entries
  /\ \A k \in BulkJobs : k.kind = "bulk" /\ k.origin \in BulkSteps
  /\ \A k \in StepJobs : k.kind = "step" /\ k.origin \in Entries \cup BulkSteps /\ k.run \in Runs
                         /\ k.step \in Steps \cup {NoStep} /\ k.contact \in Contacts
  /\ EntryJobs \subseteq Keys /\ BulkJobs \subseteq Keys /\ StepJobs \subseteq Keys
  /\ EntryJobs \cap BulkJobs = {} /\ EntryJobs \cap StepJobs = {} /\ BulkJobs \cap StepJobs = {}
  BY DEF EntryJobs, BulkJobs, StepJobs, Keys

\* A step job has an origin, which is no step job itself.
LEMMA Origins ==
  ASSUME NEW k \in StepJobs
  PROVE  /\ OriginJob(k) \in Keys /\ OriginJob(k) \notin StepJobs
         /\ OriginJob(k) \in EntryJobs \/ OriginJob(k) \in BulkJobs
         /\ OriginJob(k).origin = k.origin
  BY JobKinds DEF OriginJob, EntryJobs, BulkJobs, Keys, StepJobs

\* Every job has an attempt to make.
LEMMA AttemptsPositive ==
  /\ AttemptsFn \in [Keys -> Nat \ {0}]
  /\ \A k \in Keys : AttemptsFn[k] = AttemptsOf(k) /\ AttemptsOf(k) \in {OneAttempt, PagedAttempts}
  /\ \A k \in EntryJobs \cup BulkJobs : AttemptsOf(k) = OneAttempt
  BY AutomationAssumption, JobKinds DEF AttemptsFn, AttemptsOf, OneAttempt

\* A worker that has nothing to do.
LEMMA IdleRecord ==
  /\ Idle.pc = "idle"
  /\ Blank \in [step: Steps \cup {NoStep}, cursor: Nat, ids: SUBSET Contacts, tags: SUBSET Tags]
  /\ Blank.cursor = 0
  BY DEF Idle, Blank

\* Handlers stand at places of their own.
LEMMA PcSets ==
  /\ "idle" \in Pcs /\ "return" \in Pcs
  /\ EntryPcs \subseteq Pcs \ {"idle", "return"} /\ BulkPcs \subseteq Pcs \ {"idle", "return"}
  /\ StepPcs \subseteq Pcs \ {"idle", "return"}
  BY DEF Pcs, EntryPcs, BulkPcs, StepPcs, ActPcs

\* An idle worker is subject to nothing.
LEMMA IdleWorkerInv ==
  ASSUME NEW w \in Workers, worker[w] = Idle, locals[w] = Blank
  PROVE  WorkerInv(w)
  <1> USE IdleRecord DEF EntryPcs, BulkPcs, StepPcs, ActPcs
  <1>1. HandlerOK(w)
    BY DEF HandlerOK
  <1>2. UnqueuedOK(w) /\ PageOK(w) /\ CommitOK(w)
    BY DEF UnqueuedOK, PageOK, CommitOK
  <1>3. ProgressOK(w) /\ TagsOK(w)
    BY DEF ProgressOK, TagsOK
  <1> QED
    BY <1>1, <1>2, <1>3 DEF WorkerInv

\* The same of a worker that leaves its job in this step.
LEMMA IdleWorkerInvNext ==
  ASSUME NEW w \in Workers, worker'[w] = Idle, locals'[w] = Blank
  PROVE  WorkerInv(w)'
  <1> USE IdleRecord DEF EntryPcs, BulkPcs, StepPcs, ActPcs
  <1>1. HandlerOK(w)'
    BY DEF HandlerOK
  <1>2. (UnqueuedOK(w) /\ PageOK(w) /\ CommitOK(w))'
    BY DEF UnqueuedOK, PageOK, CommitOK
  <1>3. (ProgressOK(w) /\ TagsOK(w))'
    BY DEF ProgressOK, TagsOK
  <1> QED
    BY <1>1, <1>2, <1>3 DEF WorkerInv

\* The entry a worker is in was counted, and its job can start no more often than
\* its attempts and the stalls allow.
LEMMA EntryCounted ==
  ASSUME QueueOK, NEW w \in Workers, worker[w].pc # "idle"
  PROVE  /\ worker[w].key \in Keys
         /\ Entry(w) \in Nat \ {0}
         /\ Entry(w) <= Starts(job[worker[w].key])
         /\ Entry(w) <= MaxStarts(AttemptsOf(worker[w].key))
         /\ worker[w].key \in EntryJobs \cup BulkJobs => Entry(w) \in Runs
  <1> DEFINE k == worker[w].key
  <1>1. k \in Keys /\ Entry(w) \in 1 .. Starts(job[k]) /\ JobInv(job[k], AttemptsFn[k])
    BY DEF QueueOK, QueueInv, WorkersOK, Entry
  <1>2. AttemptsFn[k] = AttemptsOf(k) /\ AttemptsOf(k) \in Nat \ {0}
    BY <1>1, AttemptsPositive
  <1>3. Starts(job[k]) \in Nat /\ Starts(job[k]) <= MaxStarts(AttemptsOf(k))
    BY <1>1, <1>2, StartsBounded
  <1>4. MaxStarts(AttemptsOf(k)) \in Nat
    BY <1>2, QueueAssumption DEF MaxStarts
  <1>5. k \in EntryJobs \cup BulkJobs => Entry(w) \in Runs
    BY <1>1, <1>3, <1>4, AttemptsPositive DEF Runs
  <1> QED
    BY <1>1, <1>3, <1>4, <1>5

\* The jobs a run queues are step jobs, and its own.
LEMMA QueuedStepIsJob ==
  ASSUME QueueOK, NEW w \in Workers, worker[w].pc # "idle", worker[w].key \in EntryJobs,
         locals[w].step \in Steps
  PROVE  QueuedStep(w) \in OfRun(w) /\ QueuedStep(w).step = locals[w].step
  <1>1. EntryOf(w) \in Entries /\ Entry(w) \in Runs
    BY EntryCounted, JobKinds DEF EntryOf
  <1>2. QueuedStep(w) \in StepJobs /\ QueuedStep(w).origin = EntryOf(w) /\ QueuedStep(w).run = Entry(w)
    BY <1>1, AutomationAssumption DEF QueuedStep, StepJobs
  <1>3. OriginJob(QueuedStep(w)) = worker[w].key
    BY <1>1, <1>2 DEF OriginJob, EntryOf, EntryJobs
  <1> QED
    BY <1>2, <1>3 DEF OfRun, QueuedStep

\* The same of a job for a contact of the page.
LEMMA PagedStepIsJob ==
  ASSUME QueueOK, NEW w \in Workers, worker[w].pc # "idle", worker[w].key \in BulkJobs,
         NEW c \in PendingAt(EntryOf(w))
  PROVE  PagedStep(w, c) \in OfRun(w) /\ PagedStep(w, c).step = NoStep /\ PagedStep(w, c).contact = c
  <1>1. EntryOf(w) \in BulkSteps /\ EntryOf(w) \notin Entries /\ Entry(w) \in Runs
    BY EntryCounted, JobKinds, AutomationAssumption DEF EntryOf
  <1>2. c \in Contacts /\ <<c, EntryOf(w)>> \in Pending
    BY DEF PendingAt
  <1>3. /\ PagedStep(w, c) \in StepJobs
        /\ PagedStep(w, c).origin = EntryOf(w) /\ PagedStep(w, c).run = Entry(w)
    BY <1>1, <1>2 DEF PagedStep, StepJobs
  <1>4. OriginJob(PagedStep(w, c)) = worker[w].key
    BY <1>1, <1>3 DEF OriginJob, EntryOf, BulkJobs
  <1> QED
    BY <1>3, <1>4 DEF OfRun, PagedStep

\* The entry of a step's job is an attempt.
LEMMA AttemptIsOne ==
  ASSUME QueueOK, NEW w \in Workers, HandlerOK(w), worker[w].pc \in StepPcs
  PROVE  Attempt(w) \in Attempts
  <1>1. worker[w].pc # "idle" /\ worker[w].key \in StepJobs
    BY PcSets DEF HandlerOK
  <1>2. AttemptsOf(worker[w].key) \in {OneAttempt, PagedAttempts}
    BY <1>1, EntryCounted, AttemptsPositive
  <1>3. MaxStarts(OneAttempt) \in Nat /\ MaxStarts(PagedAttempts) \in Nat
    BY QueueAssumption, AutomationAssumption DEF MaxStarts, OneAttempt
  <1> QED
    BY <1>1, <1>2, <1>3, EntryCounted DEF Attempt, Attempts

-----------------------------------------------------------------------------
(* Steps of others. *)

\* Steps, rows, attempts and starts are only added, tags on contacts go to lost.
Later ==
    /\ \A s \in Steps : Created(s) => Created(s)'
    /\ \A k \in Keys : Starts(job'[k]) >= Starts(job[k]) /\ (job[k] # Absent => job'[k] # Absent)
    /\ Ledger \subseteq Ledger'
    /\ tags' \subseteq tags
    /\ \A c \in Contacts : OnContact(c) \subseteq OnContact(c)'

\* A worker that does not move, and whose run gets no job and no entry acts for,
\* stands as it stood.
LEMMA OthersStep ==
  ASSUME AutomationInv, Later, NEW v \in Workers,
         worker'[v] = worker[v], locals'[v] = locals[v],
         \A k \in OfRun(v) : job[k] = Absent => job'[k] = Absent,
         worker[v].pc \in StepPcs => (Attempt(v) \in acted <=> Attempt(v) \in acted')
  PROVE  WorkerInv(v)'
  <1>1. WorkerInv(v) /\ AutomationTypeOK /\ QueueOK
    BY DEF AutomationInv, SharedInv
  <1>2. /\ worker[v].pc # "idle" => worker[v].key \in Keys
        /\ Entry(v)' = Entry(v) /\ EntryOf(v)' = EntryOf(v) /\ Attempt(v)' = Attempt(v)
    BY <1>1 DEF QueueOK, QueueInv, WorkersOK, Entry, EntryOf, Attempt
  <1>3. HandlerOK(v)'
    BY <1>1 DEF WorkerInv, HandlerOK, Later
  <1>4. UnqueuedOK(v)'
    BY <1>1, <1>2 DEF WorkerInv, UnqueuedOK, OfRun
  <1>5. PageOK(v)'
    <2>1. ASSUME worker[v].key \in BulkJobs, worker[v].pc # "idle", NEW c \in PendingAt(EntryOf(v)),
                 job[PagedStep(v, c)] # Absent
          PROVE  job'[PagedStep(v, c)'] # Absent
      <3>1. PagedStep(v, c)' = PagedStep(v, c)
        BY <1>2 DEF PagedStep
      <3>2. PagedStep(v, c) \in Keys
        BY <1>1, <2>1, PagedStepIsJob, JobKinds DEF OfRun
      <3> QED
        BY <2>1, <3>1, <3>2 DEF Later
    <2> QED
      BY <1>1, <1>2, <2>1 DEF WorkerInv, PageOK
  <1>6. CommitOK(v)'
    <2>1. worker[v].pc = "commit" => QueuedStep(v) \in Keys
      BY <1>1, QueuedStepIsJob, JobKinds DEF WorkerInv, HandlerOK, EntryPcs, OfRun
    <2>2. QueuedStep(v)' = QueuedStep(v)
      BY <1>2 DEF QueuedStep
    <2> QED
      BY <1>1, <2>1, <2>2 DEF WorkerInv, CommitOK, Later
  <1>7. ProgressOK(v)'
    BY <1>1, <1>2 DEF WorkerInv, ProgressOK, Later, StepPcs
  <1>8. TagsOK(v)'
    <2>1. worker[v].pc \in StepPcs => worker[v].key.contact \in Contacts
      BY <1>1, JobKinds DEF WorkerInv, HandlerOK
    <2> QED
      BY <1>1, <2>1 DEF WorkerInv, TagsOK, Later, StepPcs, ActPcs
  <1> QED
    BY <1>3, <1>4, <1>5, <1>6, <1>7, <1>8 DEF WorkerInv

\* What the workers share, after a step: what is new fits.
LEMMA SharedStep ==
  ASSUME AutomationInv, Later, AutomationTypeOK', QueueOK', TreeOK',
         \A k \in StepJobs : job[k] = Absent /\ job'[k] # Absent =>
            /\ k.run <= Starts(job[OriginJob(k)])
            /\ k.step # NoStep => Created(k.step),
         \A r \in entered' : r \notin entered =>
            job[[kind |-> "step", origin |-> r.origin, run |-> r.run, step |-> r.step,
                 contact |-> EntryContact[r.origin]]] # Absent,
         \A a \in acted' : a \notin acted => a[2] <= Starts(job[a[1]]),
         acted \subseteq acted',
         \A a \in recorded' : a \notin recorded =>
            /\ a \in acted /\ a[1].step \in Steps
            /\ Kind[a[1].step] = "ACTION_ADD_TAG" =>
                  TagsOf[a[1].step] \cap tags \subseteq OnContact(a[1].contact),
         \A k \in StepJobs : job'[k].state = "completed" /\ job[k].state # "completed"
            /\ k.step # NoStep => PairOf(k) \in Ledger,
         \A s \in BulkSteps :
            job'[[kind |-> "bulk", origin |-> s]].state = "completed" =>
               \/ job[[kind |-> "bulk", origin |-> s]].state = "completed"
               \/ \E n \in Runs : \A c \in PendingAt(s) :
                     job[[kind |-> "step", origin |-> s, run |-> n, step |-> NoStep,
                          contact |-> c]] # Absent
  PROVE  SharedInv'
  <1> USE DEF AutomationInv, SharedInv
  <1>1. OriginsOK'
    <2> SUFFICES ASSUME NEW k \in StepJobs, job'[k] # Absent
                 PROVE  /\ k.run <= Starts(job'[OriginJob(k)])
                        /\ k.step # NoStep => Created(k.step)'
      BY DEF OriginsOK
    <2>1. k.run <= Starts(job[OriginJob(k)]) /\ (k.step # NoStep => Created(k.step))
      BY DEF OriginsOK
    <2>2. k.run \in Nat /\ k.step \in Steps \cup {NoStep}
      BY JobKinds DEF Runs
    <2>3. Starts(job[OriginJob(k)]) \in Nat /\ Starts(job'[OriginJob(k)]) \in Nat
      BY Origins, AttemptsPositive, StartsBounded DEF QueueOK, QueueInv
    <2>4. Starts(job'[OriginJob(k)]) >= Starts(job[OriginJob(k)])
      BY Origins DEF Later
    <2> QED
      BY <2>1, <2>2, <2>3, <2>4 DEF Later
  <1>2. EnteredHasJob'
    <2> SUFFICES ASSUME NEW r \in entered'
                 PROVE  job'[[kind |-> "step", origin |-> r.origin, run |-> r.run, step |-> r.step,
                              contact |-> EntryContact[r.origin]]] # Absent
      BY DEF EnteredHasJob
    <2> DEFINE k == [kind |-> "step", origin |-> r.origin, run |-> r.run, step |-> r.step,
                     contact |-> EntryContact[r.origin]]
    <2>1. job[k] # Absent
      BY DEF EnteredHasJob
    <2>2. k \in Keys
      BY AutomationAssumption DEF AutomationTypeOK, Keys, StepJobs
    <2> QED
      BY <2>1, <2>2 DEF Later
  <1>3. AttemptsOK'
    <2>1. ASSUME NEW a \in acted'
          PROVE  a[2] <= Starts(job'[a[1]])
      <3>1. a[1] \in Keys /\ a[2] \in Nat
        BY QueueAssumption, AutomationAssumption
           DEF AutomationTypeOK, Attempts, Keys, MaxStarts, OneAttempt
      <3>2. a[2] <= Starts(job[a[1]])
        BY DEF AttemptsOK
      <3>3. Starts(job[a[1]]) \in Nat /\ Starts(job'[a[1]]) \in Nat
        BY <3>1, AttemptsPositive, StartsBounded DEF QueueOK, QueueInv
      <3> QED
        BY <3>1, <3>2, <3>3 DEF Later
    <2> QED
      BY <2>1 DEF AttemptsOK
  <1>4. CompletedLeavesRow'
    BY DEF CompletedLeavesRow, Later
  <1>5. TagsOfRecordedStep'
    <2> SUFFICES ASSUME NEW a \in recorded', Kind[a[1].step] = "ACTION_ADD_TAG"
                 PROVE  TagsOf[a[1].step] \cap tags' \subseteq OnContact(a[1].contact)'
      BY DEF TagsOfRecordedStep, OnContact
    <2>1. a[1].contact \in Contacts
      BY JobKinds DEF AutomationTypeOK, Attempts
    <2>2. TagsOf[a[1].step] \cap tags \subseteq OnContact(a[1].contact)
      BY DEF TagsOfRecordedStep, OnContact
    <2> QED
      BY <2>1, <2>2 DEF Later
  <1>6. EveryPendingQueued'
    <2> SUFFICES ASSUME NEW s \in BulkSteps, job'[[kind |-> "bulk", origin |-> s]].state = "completed"
                 PROVE  \E n \in Runs : \A c \in PendingAt(s) :
                           job'[[kind |-> "step", origin |-> s, run |-> n, step |-> NoStep,
                                 contact |-> c]] # Absent
      BY DEF EveryPendingQueued
    <2>1. PICK n \in Runs : \A c \in PendingAt(s) :
             job[[kind |-> "step", origin |-> s, run |-> n, step |-> NoStep, contact |-> c]] # Absent
      BY DEF EveryPendingQueued
    <2>2. \A c \in PendingAt(s) :
             [kind |-> "step", origin |-> s, run |-> n, step |-> NoStep, contact |-> c] \in Keys
      BY DEF PendingAt, StepJobs, Keys
    <2> QED
      BY <2>1, <2>2 DEF Later
  <1> QED
    BY <1>1, <1>2, <1>3, <1>4, <1>5, <1>6

\* Nothing happens to the queue.
LEMMA QueueKept ==
  ASSUME QueueOK, UNCHANGED queueVars
  PROVE  QueueOK'
  BY DEF QueueOK, QueueInv, queueVars, QueueTypes, WorkersOK, EntriesDiffer, LocksOK

\* Steps that leave the queue and the ledger alone.
LEMMA AsideStep ==
  ASSUME AutomationInv, UNCHANGED <<queueVars, locals, ledgerVars>>, AutomationTypeOK', TreeOK',
         \A s \in Steps : Created(s) => Created(s)',
         tags' \subseteq tags,
         \A c \in Contacts : OnContact(c) \subseteq OnContact(c)'
  PROVE  AutomationInv'
  <1> USE DEF AutomationInv
  <1>1. UNCHANGED <<job, worker, locals, entered, acted, recorded>> /\ Ledger' = Ledger
    BY DEF queueVars, ledgerVars, Ledger
  <1>2. \A k \in Keys : Starts(job[k]) \in Nat
    BY AttemptsPositive, StartsBounded DEF SharedInv, QueueOK, QueueInv
  <1>3. Later
    BY <1>1, <1>2 DEF Later
  <1>4. QueueOK'
    BY QueueKept DEF SharedInv
  <1>5. SharedInv'
    BY <1>1, <1>3, <1>4, SharedStep
  <1>6. \A v \in Workers : WorkerInv(v)'
    BY <1>1, <1>3, OthersStep
  <1> QED
    BY <1>5, <1>6

\* Requests that create steps.
LEMMA TreeStep ==
  ASSUME AutomationInv, NEW s \in Steps,
         InsertStep(s) \/ AbortStep(s) \/ \E p \in Steps \cup {NoStep} : CheckStep(s, p)
  PROVE  AutomationInv'
  <1> USE DEF AutomationInv, SharedInv
  <1>1. /\ UNCHANGED <<tags, tagged, lost>> /\ UNCHANGED <<queueVars, locals, ledgerVars>>
        /\ author[s].pc # "created"
    BY DEF InsertStep, AbortStep, CheckStep, audienceVars, Created
  <1>2. /\ author' \in [Steps -> [pc: AuthorStates, parent: Steps \cup {NoStep}, seen: SUBSET Steps]]
        /\ \A t \in Steps : t # s => author'[t] = author[t]
    BY DEF InsertStep, AbortStep, CheckStep, AutomationTypeOK, AuthorStates, NoAuthor
  <1>3. \A t \in Steps : Created(t) => Created(t)'
    BY <1>1, <1>2 DEF Created
  <1>4. TreeOK'
    <2>1. \A t \in Steps : \A u \in author[t].seen : u \in Steps /\ u # s
      BY <1>1 DEF TreeOK, AutomationTypeOK, Created
    <2>2. author'[s].parent # author[s].parent \/ author'[s].seen # author[s].seen =>
             \A u \in author'[s].seen :
                /\ Created(u)
                /\ author'[s].parent # NoStep => author[u].parent # author'[s].parent
      <3>1. CASE InsertStep(s)
        BY <3>1 DEF InsertStep, AutomationTypeOK
      <3>2. CASE AbortStep(s)
        BY <3>2 DEF AbortStep, AutomationTypeOK, NoAuthor
      <3>3. ASSUME NEW p \in Steps \cup {NoStep}, CheckStep(s, p)
            PROVE  <2>2
        <4>1. /\ author'[s].parent = p /\ author'[s].seen = {t \in Steps : Created(t)}
              /\ ParentFree(p)
          BY <3>3 DEF CheckStep, AutomationTypeOK
        <4> QED
          BY <4>1 DEF ParentFree, ChildrenOf
      <3> QED
        BY <3>1, <3>2, <3>3
    <2>3. \A u \in author'[s].seen : u # s /\ u \in Steps
      BY <1>1, <1>2, <2>1, <2>2 DEF Created, AutomationTypeOK
    <2> SUFFICES ASSUME NEW t \in Steps, NEW u \in author'[t].seen
                 PROVE  /\ Created(u)'
                        /\ author'[t].parent # NoStep => author'[u].parent # author'[t].parent
      BY DEF TreeOK
    <2>4. CASE t = s
      BY <1>2, <1>3, <2>2, <2>3, <2>4 DEF TreeOK
    <2>5. CASE t # s
      BY <1>2, <1>3, <2>1, <2>5 DEF TreeOK
    <2> QED
      BY <2>4, <2>5
  <1>5. AutomationTypeOK'
    BY <1>1, <1>2 DEF AutomationTypeOK, queueVars, ledgerVars
  <1>6. \A c \in Contacts : OnContact(c) \subseteq OnContact(c)'
    BY <1>1 DEF OnContact
  <1> QED
    BY <1>1, <1>3, <1>4, <1>5, <1>6, AsideStep

\* Requests about tags.
LEMMA TagStep ==
  ASSUME AutomationInv, NEW t \in Tags,
         DeleteTag(t) \/ \E c \in Contacts : TagContact(c, t) \/ UntagContact(c, t)
  PROVE  AutomationInv'
  <1> USE DEF AutomationInv, SharedInv
  <1>1. UNCHANGED author /\ UNCHANGED <<queueVars, locals, ledgerVars>>
    BY DEF DeleteTag, TagContact, UntagContact, treeVars
  <1>2. AutomationTypeOK'
    <2>1. /\ tags' \subseteq Tags
          /\ tagged' \in [Contacts -> SUBSET Tags] /\ lost' \in [Contacts -> SUBSET Tags]
      <3>1. CASE DeleteTag(t)
        BY <3>1 DEF DeleteTag, AutomationTypeOK
      <3>2. ASSUME NEW c \in Contacts, TagContact(c, t) PROVE <2>1
        BY <3>2 DEF TagContact, AutomationTypeOK
      <3>3. ASSUME NEW c \in Contacts, UntagContact(c, t) PROVE <2>1
        BY <3>3 DEF UntagContact, AutomationTypeOK
      <3> QED
        BY <3>1, <3>2, <3>3
    <2> QED
      BY <1>1, <2>1 DEF AutomationTypeOK, queueVars, ledgerVars
  <1>3. TreeOK' /\ \A s \in Steps : Created(s) => Created(s)'
    BY <1>1 DEF TreeOK, Created
  <1>4. tags' \subseteq tags /\ \A c \in Contacts : OnContact(c) \subseteq OnContact(c)'
    BY DEF DeleteTag, TagContact, UntagContact, OnContact, AutomationTypeOK
  <1> QED
    BY <1>1, <1>2, <1>3, <1>4, AsideStep

-----------------------------------------------------------------------------
(* Steps of a handler. *)

\* Two workers are in different entries.
LEMMA OwnEntry ==
  ASSUME QueueOK, NEW v \in Workers, NEW w \in Workers, v # w,
         worker[v].pc # "idle", worker[w].pc # "idle"
  PROVE  worker[v].key # worker[w].key \/ Entry(v) # Entry(w)
  BY DEF QueueOK, QueueInv, EntriesDiffer, WorkersOK, Entry

\* A handler goes on, may queue jobs of its run, change the tags of a contact, act,
\* or make an entry in the ledger.
LEMMA HandlerStepKeeps ==
  ASSUME AutomationInv, NEW w \in Workers, NEW pc \in Pcs \ {"idle"},
         worker[w].pc # "idle", Goto(w, pc),
         UNCHANGED <<author, tags>>,
         locals' \in [Workers -> [step: Steps \cup {NoStep}, cursor: Nat,
                                  ids: SUBSET Contacts, tags: SUBSET Tags]],
         \A v \in Workers : v # w => locals'[v] = locals[v],
         tagged' \in [Contacts -> SUBSET Tags], lost' \in [Contacts -> SUBSET Tags],
         \A c \in Contacts : OnContact(c) \subseteq OnContact(c)',
         NEW added \in SUBSET OfRun(w), UNCHANGED job \/ Add(added),
         \A k \in added : job[k] = Absent /\ (k.step # NoStep => Created(k.step)),
         acted' \in {acted, acted \cup {Attempt(w)}}, entered' \in {entered, entered \cup {EnteredRow(w)}},
         recorded' \in {recorded, recorded \cup {Attempt(w)}},
         acted' # acted \/ recorded' # recorded => worker[w].pc \in StepPcs,
         entered' # entered => worker[w].pc = "commit",
         recorded' # recorded => worker[w].pc = "record",
         WorkerInv(w)'
  PROVE  AutomationInv'
  <1> USE DEF AutomationInv, SharedInv
  <1>1. WorkerInv(w)
    OBVIOUS
  <1>2. /\ worker' \in [Workers -> [pc: Pcs, key: Keys \cup {NoKey}, entry: Nat]]
        /\ \A v \in Workers : v # w => worker'[v] = worker[v]
    BY GoneOn DEF QueueOK, QueueInv
  <1>3. added \subseteq StepJobs /\ added \subseteq Keys
    BY JobKinds DEF OfRun
  <1>4. QueueOK'
    <2>1. QueueInv(Keys, AttemptsFn, Pcs, Keys)'
      BY <1>3, MoveStep, AttemptsPositive DEF QueueOK
    <2> QED
      BY <2>1 DEF QueueOK
  <1>5. /\ job' \in [Keys -> Job]
        /\ \A k \in Keys : job'[k] = job[k] \/ (k \in added /\ job[k] = Absent /\ job'[k] = Added)
    BY <1>3, <1>4 DEF Add, QueueOK, QueueInv, QueueTypes
  <1>6. \A k \in Keys : Starts(job[k]) \in Nat /\ Starts(job'[k]) >= Starts(job[k])
    BY <1>5, AttemptsPositive, StartsBounded, FreshJobs DEF QueueOK, QueueInv
  <1>7. EnteredRow(w) \in [origin: Entries, run: Runs, step: Steps] \/ worker[w].pc # "commit"
    BY <1>1, EntryCounted, JobKinds DEF EnteredRow, WorkerInv, HandlerOK, EntryPcs, EntryOf
  <1>8. Attempt(w) \in Attempts \/ worker[w].pc \notin StepPcs
    BY <1>1, AttemptIsOne DEF WorkerInv
  <1>9. AutomationTypeOK'
    BY <1>2, <1>5, <1>7, <1>8 DEF AutomationTypeOK
  <1>10. Ledger \subseteq Ledger'
    BY DEF Ledger
  <1>11. Later
    BY <1>5, <1>6, <1>10, FreshJobs DEF Later, Created
  <1>12. \A v \in Workers : v # w => WorkerInv(v)'
    <2> SUFFICES ASSUME NEW v \in Workers, v # w PROVE WorkerInv(v)'
      OBVIOUS
    <2>1. CASE worker[v].pc = "idle"
      <3>1. worker[v] = Idle /\ locals[v] = Blank
        BY <2>1 DEF QueueOK, QueueInv, WorkersOK, WorkerInv, HandlerOK
      <3> QED
        BY <1>2, <3>1, IdleWorkerInvNext
    <2>2. CASE worker[v].pc # "idle"
      <3>1. worker[v].key # worker[w].key \/ Entry(v) # Entry(w)
        BY <2>2, OwnEntry
      <3>2. \A k \in OfRun(v) : job[k] = Absent => job'[k] = Absent
        <4> SUFFICES ASSUME NEW k \in OfRun(v), job[k] = Absent PROVE job'[k] = Absent
          OBVIOUS
        <4>1. k \in Keys /\ OriginJob(k) = worker[v].key /\ k.run = Entry(v)
          BY JobKinds DEF OfRun
        <4>2. k \notin added
          BY <3>1, <4>1 DEF OfRun
        <4> QED
          BY <1>5, <4>1, <4>2
      <3>3. Attempt(v) # Attempt(w)
        BY <3>1 DEF Attempt
      <3> QED
        BY <1>2, <1>11, <3>2, <3>3, OthersStep
    <2> QED
      BY <2>1, <2>2
  <1>13. SharedInv'
    <2>1. TreeOK'
      BY DEF TreeOK, Created
    <2>2. \A k \in StepJobs : job[k] = Absent /\ job'[k] # Absent =>
             k.run <= Starts(job[OriginJob(k)]) /\ (k.step # NoStep => Created(k.step))
      BY <1>5, JobKinds, EntryCounted DEF OfRun
    <2>3. \A r \in entered' : r \notin entered =>
             job[[kind |-> "step", origin |-> r.origin, run |-> r.run, step |-> r.step,
                  contact |-> EntryContact[r.origin]]] # Absent
      BY <1>1 DEF WorkerInv, CommitOK, QueuedStep, EnteredRow
    <2>4. \A a \in acted' : a \notin acted => a[2] <= Starts(job[a[1]])
      BY EntryCounted DEF Attempt
    <2>5. \A a \in recorded' : a \notin recorded =>
             /\ a \in acted /\ a[1].step \in Steps
             /\ Kind[a[1].step] = "ACTION_ADD_TAG" =>
                   TagsOf[a[1].step] \cap tags \subseteq OnContact(a[1].contact)
      BY <1>1 DEF WorkerInv, HandlerOK, ProgressOK, TagsOK, Attempt, StepPcs
    <2>6. \A k \in Keys : job'[k].state = "completed" => job[k].state = "completed"
      <3>1. Added.state # "completed"
        BY DEF Added
      <3> QED
        BY <1>5, <3>1
    <2>7. \A s \in BulkSteps : [kind |-> "bulk", origin |-> s] \in Keys
      BY DEF Keys, BulkJobs
    <2> QED
      BY <1>4, <1>9, <1>11, <2>1, <2>2, <2>3, <2>4, <2>5, <2>6, <2>7, JobKinds, SharedStep
  <1> QED
    BY <1>12, <1>13

-----------------------------------------------------------------------------
(* Steps that take jobs and leave them. *)

\* Workers leave their job or stay as they are, no job is started or added, and
\* only a job whose handler returned completes.
LEMMA LeaveStepKeeps ==
  ASSUME AutomationInv, UNCHANGED <<treeVars, audienceVars, ledgerVars>>, QueueOK',
         locals' \in [Workers -> [step: Steps \cup {NoStep}, cursor: Nat,
                                  ids: SUBSET Contacts, tags: SUBSET Tags]],
         \A v \in Workers :
            \/ worker'[v] = worker[v] /\ locals'[v] = locals[v]
            \/ worker'[v] = Idle /\ locals'[v] = Blank,
         \A k \in Keys : Undisturbed(job'[k], job[k]),
         \A k \in Keys : job'[k].state = "completed" /\ job[k].state # "completed" =>
            \E w \in Workers : worker[w].pc = "return" /\ worker[w].key = k
  PROVE  AutomationInv'
  <1> USE DEF AutomationInv, SharedInv
  <1>1. /\ UNCHANGED <<author, tags, tagged, lost, entered, acted, recorded>>
        /\ Ledger' = Ledger /\ \A c \in Contacts : OnContact(c)' = OnContact(c)
    BY DEF treeVars, audienceVars, ledgerVars, Ledger, OnContact
  <1>2. \A k \in Keys : Starts(job'[k]) = Starts(job[k]) /\ Starts(job[k]) \in Nat
                        /\ (job'[k] = Absent <=> job[k] = Absent)
    BY AttemptsPositive, StartsBounded DEF Undisturbed, QueueOK, QueueInv
  <1>3. Later
    BY <1>1, <1>2 DEF Later, Created
  <1>4. \A v \in Workers : WorkerInv(v)'
    <2> SUFFICES ASSUME NEW v \in Workers PROVE WorkerInv(v)'
      OBVIOUS
    <2>1. CASE worker'[v] = worker[v] /\ locals'[v] = locals[v]
      <3>1. \A k \in OfRun(v) : job[k] = Absent => job'[k] = Absent
        BY <1>2, JobKinds DEF OfRun
      <3> QED
        BY <1>1, <1>3, <2>1, <3>1, OthersStep
    <2>2. CASE worker'[v] = Idle /\ locals'[v] = Blank
      BY <2>2, IdleWorkerInvNext
    <2> QED
      BY <2>1, <2>2
  <1>5. AutomationTypeOK'
    BY <1>1 DEF AutomationTypeOK, QueueOK, QueueInv, QueueTypes
  <1>6. TreeOK'
    BY <1>1 DEF TreeOK, Created
  <1>7. \A k \in StepJobs : job'[k].state = "completed" /\ job[k].state # "completed"
           /\ k.step # NoStep => PairOf(k) \in Ledger
    BY JobKinds DEF WorkerInv, ProgressOK
  <1>8. ASSUME NEW s \in BulkSteps, job'[[kind |-> "bulk", origin |-> s]].state = "completed",
               job[[kind |-> "bulk", origin |-> s]].state # "completed"
        PROVE  \E n \in Runs : \A c \in PendingAt(s) :
                  job[[kind |-> "step", origin |-> s, run |-> n, step |-> NoStep,
                       contact |-> c]] # Absent
    <2>1. [kind |-> "bulk", origin |-> s] \in BulkJobs
      BY DEF BulkJobs
    <2>2. PICK w \in Workers : worker[w].pc = "return"
                               /\ worker[w].key = [kind |-> "bulk", origin |-> s]
      BY <1>8, <2>1, JobKinds
    <2>3. EntryOf(w) = s /\ Entry(w) \in Runs
      BY <2>1, <2>2, EntryCounted DEF EntryOf
    <2>4. \A c \in PendingAt(s) : job[PagedStep(w, c)] # Absent
      BY <2>1, <2>2, <2>3 DEF WorkerInv, PageOK
    <2> QED
      BY <2>3, <2>4 DEF PagedStep
  <1>9. SharedInv'
    BY <1>1, <1>2, <1>3, <1>5, <1>6, <1>7, <1>8, JobKinds, SharedStep
  <1> QED
    BY <1>4, <1>9

\* What Forget leaves in the locals.
LEMMA Forgotten ==
  ASSUME AutomationTypeOK, NEW w \in Workers, Forget(w)
  PROVE  /\ locals' \in [Workers -> [step: Steps \cup {NoStep}, cursor: Nat,
                                     ids: SUBSET Contacts, tags: SUBSET Tags]]
         /\ locals'[w] = Blank
         /\ \A v \in Workers : v # w => locals'[v] = locals[v]
  BY IdleRecord DEF Forget, AutomationTypeOK

\* A taken job starts an entry of its own, whose run has queued nothing yet.
LEMMA TakeKeeps ==
  ASSUME AutomationInv, NEW w \in Workers, NEW k \in Keys, Take(w, k)
  PROVE  AutomationInv'
  <1> USE DEF AutomationInv, SharedInv
  <1>1. /\ UNCHANGED <<author, tags, tagged, lost, locals, entered, acted, recorded>>
        /\ Ledger' = Ledger /\ \A c \in Contacts : OnContact(c)' = OnContact(c)
    BY DEF Take, treeVars, audienceVars, ledgerVars, Ledger, OnContact
  <1>2. /\ k \in EntryJobs => FirstPc(k) = "findTrigger"
        /\ k \in BulkJobs => FirstPc(k) = "findStep"
        /\ k \in StepJobs => FirstPc(k) = "loadStep"
        /\ FirstPc(k) \in Pcs \ {"idle"}
        /\ k \in EntryJobs \/ k \in BulkJobs \/ k \in StepJobs
    BY JobKinds, PcSets DEF FirstPc, Keys, EntryPcs, BulkPcs, StepPcs
  <1>3. /\ QueueOK'
        /\ worker[w].pc = "idle"
        /\ worker'[w] = [pc |-> FirstPc(k), key |-> k, entry |-> Starts(job[k]) + 1]
        /\ \A v \in Workers : v # w => worker'[v] = worker[v]
        /\ Starts(job[k]) \in Nat /\ Starts(job'[k]) = Starts(job[k]) + 1
        /\ job[k].state = "waiting" /\ job'[k].state = "active" /\ job'[k] # Absent
        /\ \A j \in Keys : j # k => job'[j] = job[j]
    BY <1>2, TakeStep, AttemptsPositive DEF Take, QueueOK
  <1>4. job[k] # Absent
    BY <1>3 DEF Absent
  <1>5. \A j \in Keys : Starts(job[j]) \in Nat
    BY AttemptsPositive, StartsBounded DEF QueueOK, QueueInv
  <1>6. Later
    BY <1>1, <1>3, <1>4, <1>5 DEF Later, Created
  <1>7. AutomationTypeOK' /\ TreeOK'
    BY <1>1, <1>3 DEF AutomationTypeOK, QueueOK, QueueInv, QueueTypes, TreeOK, Created
  <1>8. SharedInv'
    <2>1. \A j \in StepJobs : (job[j] = Absent => job'[j] = Absent)
             /\ (job'[j].state = "completed" => job[j].state = "completed")
      BY <1>3, <1>4, JobKinds
    <2>2. \A s \in BulkSteps : LET j == [kind |-> "bulk", origin |-> s]
                               IN  job'[j].state = "completed" => job[j].state = "completed"
      <3>1. \A s \in BulkSteps : [kind |-> "bulk", origin |-> s] \in Keys
        BY DEF BulkJobs, Keys
      <3> QED
        BY <1>3, <3>1
    <2> QED
      BY <1>1, <1>3, <1>6, <1>7, <2>1, <2>2, SharedStep
  <1>9. WorkerInv(w)'
    <2>1. locals'[w] = Blank /\ Entry(w)' = Starts(job[k]) + 1 /\ Attempt(w)' = <<k, Starts(job[k]) + 1>>
      BY <1>1, <1>3 DEF WorkerInv, HandlerOK, Entry, Attempt
    <2>2. \A j \in OfRun(w)' : job'[j] = Absent
      <3> SUFFICES ASSUME NEW j \in StepJobs, OriginJob(j) = k, j.run = Starts(job[k]) + 1
                   PROVE  job'[j] = Absent
        BY <1>3, <2>1 DEF OfRun
      <3>1. j # k /\ j \in Keys
        BY Origins, JobKinds
      <3>2. job[j] = Absent
        BY <1>3 DEF OriginsOK
      <3> QED
        BY <1>3, <3>1, <3>2
    <2>3. Attempt(w)' \notin acted'
      BY <1>1, <1>3, <2>1 DEF AttemptsOK
    <2>4. worker'[w].pc \in {"findTrigger", "findStep", "loadStep"} /\ worker'[w].key = k
      BY <1>2, <1>3
    <2>5. HandlerOK(w)'
      BY <1>2, <1>3, <2>1, JobKinds DEF HandlerOK, EntryPcs, BulkPcs, StepPcs, ActPcs
    <2>6. UnqueuedOK(w)'
      BY <2>2, <2>4 DEF UnqueuedOK
    <2>7. (PageOK(w) /\ CommitOK(w) /\ TagsOK(w))'
      BY <2>4 DEF PageOK, CommitOK, TagsOK
    <2>8. ProgressOK(w)'
      BY <2>3, <2>4 DEF ProgressOK, ActPcs
    <2> QED
      BY <2>5, <2>6, <2>7, <2>8 DEF WorkerInv
  <1>10. \A v \in Workers : v # w => WorkerInv(v)'
    <2> SUFFICES ASSUME NEW v \in Workers, v # w PROVE WorkerInv(v)'
      OBVIOUS
    <2>1. \A j \in OfRun(v) : job[j] = Absent => job'[j] = Absent
      BY <1>3, <1>4, JobKinds DEF OfRun
    <2> QED
      BY <1>1, <1>3, <1>6, <2>1, OthersStep
  <1> QED
    BY <1>8, <1>9, <1>10

\* A handler that returned leaves a row, or has queued every contact.
LEMMA SucceedKeeps ==
  ASSUME AutomationInv, NEW w \in Workers, Succeed(w)
  PROVE  AutomationInv'
  <1>1. /\ QueueOK' /\ worker'[w] = Idle
        /\ \A v \in Workers : v # w => worker'[v] = worker[v]
        /\ \A k \in Keys : Undisturbed(job'[k], job[k])
        /\ \A k \in Keys : k # worker[w].key => job'[k] = job[k]
    BY SettleStep, AttemptsPositive, PcSets DEF Succeed, QueueOK, AutomationInv, SharedInv
  <1> QED
    BY <1>1, Forgotten, LeaveStepKeeps DEF Succeed, AutomationInv, SharedInv

\* A failed attempt leaves the job to be retried, or failed.
LEMMA FailsKeeps ==
  ASSUME AutomationInv, NEW w \in Workers, worker[w].pc # "idle", Fails(w)
  PROVE  AutomationInv'
  <1>1. AttemptsFn[worker[w].key] = AttemptsOf(worker[w].key)
    BY EntryCounted, AttemptsPositive DEF AutomationInv, SharedInv
  <1>2. FailJob(w, AttemptsFn[worker[w].key])
    BY <1>1 DEF Fails
  <1>3. /\ QueueOK' /\ worker'[w] = Idle
        /\ \A v \in Workers : v # w => worker'[v] = worker[v]
        /\ \A k \in Keys : Undisturbed(job'[k], job[k])
        /\ \A k \in Keys : k # worker[w].key => job'[k] = job[k]
    BY <1>2, SettleStep, AttemptsPositive, PcSets DEF QueueOK, AutomationInv, SharedInv
  <1>4. job'[worker[w].key] = job[worker[w].key] \/ job'[worker[w].key].state # "completed"
    <2> DEFINE k == worker[w].key
    <2>1. k \in Keys /\ JobInv(job[k], AttemptsFn[k]) /\ AttemptsFn[k] \in Nat \ {0}
          /\ job \in [Keys -> Job]
      BY EntryCounted, AttemptsPositive DEF AutomationInv, SharedInv, QueueOK, QueueInv, QueueTypes
    <2>2. job'[k] = IF job[k].lock = w THEN AttemptFailed(job[k], AttemptsFn[k]) ELSE job[k]
      BY <1>2, <2>1 DEF FailJob, Settle
    <2>3. job[k].lock = w => job[k].state = "active"
      BY <2>1, QueueAssumption DEF JobInv
    <2> QED
      BY <2>1, <2>2, <2>3, AttemptFailedJob
  <1> QED
    BY <1>3, <1>4, Forgotten, LeaveStepKeeps DEF Fails, AutomationInv, SharedInv

\* A worker that dies leaves its job without a lock.
LEMMA CrashKeeps ==
  ASSUME AutomationInv, NEW w \in Workers, Crash(w)
  PROVE  AutomationInv'
  <1>1. /\ QueueOK' /\ worker'[w] = Idle
        /\ \A v \in Workers : v # w => worker'[v] = worker[v]
        /\ \A k \in Keys : Undisturbed(job'[k], job[k]) /\ job'[k].state = job[k].state
    BY ReleaseStep, AttemptsPositive, PcSets DEF Crash, QueueOK, AutomationInv, SharedInv
  <1> QED
    BY <1>1, Forgotten, LeaveStepKeeps DEF Crash, AutomationInv, SharedInv

\* A handler that lost its lock goes on.
LEMMA LoseLockKeeps ==
  ASSUME AutomationInv, NEW w \in Workers, LoseLock(w)
  PROVE  AutomationInv'
  <1>1. /\ QueueOK' /\ worker' = worker
        /\ \A k \in Keys : Undisturbed(job'[k], job[k]) /\ job'[k].state = job[k].state
    BY ReleaseStep, AttemptsPositive, PcSets DEF LoseLock, QueueOK, AutomationInv, SharedInv
  <1> QED
    BY <1>1, LeaveStepKeeps DEF LoseLock, AutomationInv, SharedInv, AutomationTypeOK

\* A stalled job is queued again, or failed.
LEMMA RecoverKeeps ==
  ASSUME AutomationInv, NEW k \in Keys, Recover(k)
  PROVE  AutomationInv'
  <1>1. /\ QueueOK' /\ worker' = worker
        /\ job'[k].state \in {"waiting", "failed"}
        /\ \A j \in Keys : Undisturbed(job'[j], job[j])
        /\ \A j \in Keys : j # k => job'[j] = job[j]
    BY RecoverStep, AttemptsPositive, PcSets DEF Recover, QueueOK, AutomationInv, SharedInv
  <1> QED
    BY <1>1, LeaveStepKeeps DEF Recover, AutomationInv, SharedInv, AutomationTypeOK

-----------------------------------------------------------------------------
(* The pages of Paginator.next. *)

\* A set of numbers has a smallest one.
LEMMA LeastNumber ==
  ASSUME NEW S \in SUBSET Nat, S # {}
  PROVE  \E n \in S : \A m \in S : n <= m
  <1> DEFINE less == OpToRel(<, Nat)
  <1>1. \A n, m \in Nat : n < m => <<n, m>> \in less
    BY DEF OpToRel
  <1>2. IsWellFoundedOn(less, Nat)
    BY NatLessThanWellFounded, Zenon
  <1> HIDE DEF less
  <1>3. PICK n \in S : \A m \in S : <<m, n>> \notin less
    BY <1>2, WFMin
  <1>4. \A m \in S : n <= m
    <2> SUFFICES ASSUME NEW m \in S PROVE n <= m
      OBVIOUS
    <2>1. n \in Nat /\ m \in Nat /\ <<m, n>> \notin less
      BY <1>3
    <2> QED
      BY <1>1, <2>1
  <1> QED
    BY <1>4

\* A finite set of numbers has a largest one, the one fewest are larger than.
LEMMA LargestNumber ==
  ASSUME NEW S \in SUBSET Nat, IsFiniteSet(S), S # {}
  PROVE  Largest(S) \in S /\ \A d \in S : d <= Largest(S)
  <1> DEFINE Above(c) == {d \in S : d > c}
             counts == {Cardinality(Above(c)) : c \in S}
  <1>1. \A c \in S : IsFiniteSet(Above(c)) /\ Cardinality(Above(c)) \in Nat
    BY FS_Subset, FS_CardinalityType
  <1>2. counts \in SUBSET Nat /\ counts # {}
    BY <1>1
  <1>3. PICK n \in counts : \A m \in counts : n <= m
    BY <1>2, LeastNumber
  <1>4. PICK c \in S : n = Cardinality(Above(c))
    OBVIOUS
  <1>5. ASSUME NEW d \in S, d > c
        PROVE  FALSE
    <2>1. Above(d) \subseteq Above(c) /\ d \in Above(c) /\ d \notin Above(d)
      <3>1. c \in Nat /\ d \in Nat /\ d > c /\ ~(d > d)
        BY <1>5
      <3>2. ASSUME NEW e \in S, e > d
            PROVE  e > c
        <4>1. e \in Nat
          OBVIOUS
        <4> QED
          BY <3>1, <3>2, <4>1
      <3> QED
        BY <3>1, <3>2
    <2>2. Cardinality(Above(d)) <= Cardinality(Above(c)) /\ Cardinality(Above(d)) # Cardinality(Above(c))
      <3> HIDE DEF Above
      <3> QED
        BY <1>1, <2>1, FS_Subset
    <2>3. Cardinality(Above(c)) <= Cardinality(Above(d))
      BY <1>3, <1>4
    <2>4. Cardinality(Above(c)) \in Nat /\ Cardinality(Above(d)) \in Nat
      BY <1>1
    <2> HIDE DEF Above
    <2> QED
      BY <2>2, <2>3, <2>4
  <1>6. \A d \in S : d <= c
    BY <1>5
  <1> QED
    BY <1>6 DEF Largest

\* A page is the lower part of what is left, and all of it when it is not full.
LEMMA PageOfSmallest ==
  ASSUME NEW S \in SUBSET Nat, IsFiniteSet(S), NEW n \in Nat \ {0}
  PROVE  /\ Smallest(S, n) \subseteq S /\ IsFiniteSet(Smallest(S, n))
         /\ \A c \in Smallest(S, n), d \in S : d < c => d \in Smallest(S, n)
         /\ Cardinality(Smallest(S, n)) \in Nat
         /\ Cardinality(Smallest(S, n)) < n => Smallest(S, n) = S
  <1> DEFINE Below(c) == {d \in S : d < c}
             page == Smallest(S, n)
  <1>1. \A c \in S : IsFiniteSet(Below(c)) /\ Cardinality(Below(c)) \in Nat
    BY FS_Subset, FS_CardinalityType
  <1>2. page = {c \in S : Cardinality(Below(c)) < n}
    BY DEF Smallest
  <1>3. page \subseteq S /\ IsFiniteSet(page) /\ Cardinality(page) \in Nat
    BY <1>2, FS_Subset, FS_CardinalityType
  <1>4. ASSUME NEW c \in page, NEW d \in S, d < c
        PROVE  d \in page
    <2>1. Below(d) \subseteq Below(c)
      <3>1. c \in Nat /\ d \in Nat /\ d < c
        BY <1>2, <1>4
      <3>2. ASSUME NEW e \in S, e < d
            PROVE  e < c
        <4>1. e \in Nat
          OBVIOUS
        <4> QED
          BY <3>1, <3>2, <4>1
      <3> QED
        BY <3>2
    <2>2. Cardinality(Below(d)) <= Cardinality(Below(c))
      <3> HIDE DEF Below
      <3> QED
        BY <1>1, <1>3, <2>1, FS_Subset
    <2>3. c \in S /\ Cardinality(Below(c)) < n
      BY <1>2
    <2>4. Cardinality(Below(c)) \in Nat /\ Cardinality(Below(d)) \in Nat
      BY <1>1, <2>3
    <2> HIDE DEF Below, page
    <2> QED
      BY <1>2, <2>2, <2>3, <2>4
  <1>5. ASSUME Cardinality(page) < n, S # page
        PROVE  FALSE
    <2>1. S \ page \in SUBSET Nat /\ S \ page # {}
      BY <1>3, <1>5
    <2>2. PICK c \in S \ page : \A d \in S \ page : c <= d
      BY <2>1, LeastNumber
    <2>3. Below(c) \subseteq page
      <3> SUFFICES ASSUME NEW d \in Below(c), d \notin page PROVE FALSE
        OBVIOUS
      <3>1. d \in S \ page /\ d < c /\ c <= d /\ c \in Nat /\ d \in Nat
        BY <2>2
      <3> QED
        BY <3>1
    <2>4. Cardinality(Below(c)) <= Cardinality(page)
      <3> HIDE DEF Below, page
      <3> QED
        BY <1>3, <2>3, FS_Subset
    <2>5. Cardinality(Below(c)) \in Nat
      BY <1>1
    <2>6. Cardinality(Below(c)) < n
      <3> HIDE DEF Below, page
      <3> QED
        BY <1>3, <1>5, <2>4, <2>5
    <2> HIDE DEF Below
    <2> QED
      BY <1>2, <2>2, <2>6
  <1> HIDE DEF page
  <1> QED
    BY <1>3, <1>4, <1>5 DEF page

-----------------------------------------------------------------------------
(* RunAutomationForContactJob. *)

\* What stays when a handler goes on.
LEMMA GoesOn ==
  ASSUME AutomationInv, NEW w \in Workers, NEW pc \in Pcs, Goto(w, pc)
  PROVE  /\ worker'[w].pc = pc /\ worker'[w].key = worker[w].key
         /\ Entry(w)' = Entry(w) /\ EntryOf(w)' = EntryOf(w)
         /\ Attempt(w)' = Attempt(w) /\ OfRun(w)' = OfRun(w)
         /\ \A c : PagedStep(w, c)' = PagedStep(w, c)
  <1>1. /\ worker'[w].pc = pc /\ worker'[w].key = worker[w].key
        /\ Entry(w)' = Entry(w) /\ EntryOf(w)' = EntryOf(w)
    BY GoneOn DEF AutomationInv, SharedInv, QueueOK, QueueInv, Entry, EntryOf
  <1>2. Attempt(w)' = Attempt(w) /\ OfRun(w)' = OfRun(w)
    BY <1>1 DEF Attempt, OfRun
  <1>3. \A c : PagedStep(w, c)' = PagedStep(w, c)
    BY <1>1 DEF PagedStep
  <1> QED
    BY <1>1, <1>2, <1>3

\* A handler goes on, and nothing happens but to its locals.
LEMMA OnlyGoesOn ==
  ASSUME AutomationInv, NEW w \in Workers, NEW pc \in Pcs \ {"idle"},
         worker[w].pc # "idle", Goto(w, pc),
         UNCHANGED <<treeVars, audienceVars, job, ledgerVars>>,
         locals' \in [Workers -> [step: Steps \cup {NoStep}, cursor: Nat,
                                  ids: SUBSET Contacts, tags: SUBSET Tags]],
         \A v \in Workers : v # w => locals'[v] = locals[v],
         WorkerInv(w)'
  PROVE  AutomationInv'
  <1>1. /\ UNCHANGED <<author, tags, tagged, lost, job, entered, acted, recorded>>
        /\ \A c \in Contacts : OnContact(c)' = OnContact(c)
        /\ tagged \in [Contacts -> SUBSET Tags] /\ lost \in [Contacts -> SUBSET Tags]
    BY DEF treeVars, audienceVars, ledgerVars, OnContact, AutomationInv, SharedInv, AutomationTypeOK
  <1>2. {} \in SUBSET OfRun(w)
    OBVIOUS
  <1>3. \A k \in {} : job[k] = Absent /\ (k.step # NoStep => Created(k.step))
    OBVIOUS
  <1> QED
    BY <1>1, <1>2, <1>3, HandlerStepKeeps

\* The handler of a contact's entry, where it stands next.
LEMMA EntryWorkerInv ==
  ASSUME NEW w \in Workers, worker'[w].key \in EntryJobs,
         worker'[w].pc \in {"findNext", "addStepJob", "commit", "return"},
         worker'[w].pc \in {"addStepJob", "commit"} =>
            locals'[w].step \in Steps /\ Created(locals[w].step)',
         worker'[w].pc \in {"findNext", "addStepJob"} =>
            \A k \in OfRun(w)' : job'[k] = Absent,
         worker'[w].pc = "commit" => job'[QueuedStep(w)'] # Absent
  PROVE  WorkerInv(w)'
  <1> USE JobKinds
  <1>1. HandlerOK(w)'
    BY DEF HandlerOK, EntryPcs, BulkPcs, StepPcs, ActPcs
  <1>2. UnqueuedOK(w)'
    BY DEF UnqueuedOK
  <1>3. (PageOK(w) /\ CommitOK(w) /\ ProgressOK(w) /\ TagsOK(w))'
    BY DEF PageOK, CommitOK, ProgressOK, TagsOK, ActPcs
  <1> QED
    BY <1>1, <1>2, <1>3 DEF WorkerInv

\* The trigger selects the contact, or there is nothing to do.
LEMMA FindTriggerKeeps ==
  ASSUME AutomationInv, NEW w \in Workers, FindTrigger(w)
  PROVE  AutomationInv'
  <1>1. /\ WorkerInv(w) /\ AutomationTypeOK
        /\ worker[w].pc = "findTrigger" /\ worker[w].key \in EntryJobs
    BY DEF FindTrigger, AutomationInv, SharedInv, WorkerInv, HandlerOK, EntryPcs
  <1>2. "findNext" \in Pcs \ {"idle"} /\ "return" \in Pcs \ {"idle"}
    BY DEF Pcs, EntryPcs
  <1>3. CASE Fails(w)
    BY <1>1, <1>3, FailsKeeps
  <1>4. ASSUME NEW t \in Triggers, Goto(w, "findNext"), locals' = [locals EXCEPT ![w].step = t],
               UNCHANGED <<treeVars, audienceVars, job, ledgerVars>>
        PROVE  AutomationInv'
    <2>1. /\ locals' \in [Workers -> [step: Steps \cup {NoStep}, cursor: Nat,
                                      ids: SUBSET Contacts, tags: SUBSET Tags]]
          /\ \A v \in Workers : v # w => locals'[v] = locals[v]
      BY <1>1, <1>4 DEF AutomationTypeOK, Triggers
    <2>2. \A k \in OfRun(w)' : job'[k] = Absent
      BY <1>1, <1>2, <1>4, GoesOn DEF WorkerInv, UnqueuedOK
    <2>3. WorkerInv(w)'
      BY <1>1, <1>2, <1>4, <2>2, GoesOn, EntryWorkerInv
    <2> QED
      BY <1>1, <1>2, <1>4, <2>1, <2>3, OnlyGoesOn
  <1>5. ASSUME Goto(w, "return"), UNCHANGED <<treeVars, audienceVars, job, locals, ledgerVars>>
        PROVE  AutomationInv'
    <2>1. WorkerInv(w)'
      BY <1>1, <1>2, <1>5, GoesOn, EntryWorkerInv
    <2> QED
      BY <1>1, <1>2, <1>5, <2>1, OnlyGoesOn DEF AutomationTypeOK
  <1> QED
    BY <1>3, <1>4, <1>5 DEF FindTrigger

\* The step after the trigger is one that exists.
LEMMA FindNextKeeps ==
  ASSUME AutomationInv, NEW w \in Workers, FindNext(w)
  PROVE  AutomationInv'
  <1>1. /\ WorkerInv(w) /\ AutomationTypeOK
        /\ worker[w].pc = "findNext" /\ worker[w].key \in EntryJobs
    BY DEF FindNext, AutomationInv, SharedInv, WorkerInv, HandlerOK, EntryPcs
  <1>2. "addStepJob" \in Pcs \ {"idle"}
    BY DEF Pcs, EntryPcs
  <1>3. CASE Fails(w)
    BY <1>1, <1>3, FailsKeeps
  <1>4. ASSUME NEW s \in ChildrenOf(locals[w].step), Goto(w, "addStepJob"),
               locals' = [locals EXCEPT ![w].step = s],
               UNCHANGED <<treeVars, audienceVars, job, ledgerVars>>
        PROVE  AutomationInv'
    <2>1. s \in Steps /\ Created(s)
      BY DEF ChildrenOf
    <2>2. /\ locals' \in [Workers -> [step: Steps \cup {NoStep}, cursor: Nat,
                                      ids: SUBSET Contacts, tags: SUBSET Tags]]
          /\ \A v \in Workers : v # w => locals'[v] = locals[v]
          /\ locals'[w].step = s
      BY <1>1, <1>4, <2>1 DEF AutomationTypeOK
    <2>3. \A k \in OfRun(w)' : job'[k] = Absent
      BY <1>1, <1>2, <1>4, GoesOn DEF WorkerInv, UnqueuedOK
    <2>4. Created(locals[w].step)'
      BY <1>4, <2>1, <2>2 DEF Created, treeVars
    <2>5. WorkerInv(w)'
      BY <1>1, <1>2, <1>4, <2>1, <2>2, <2>3, <2>4, GoesOn, EntryWorkerInv
    <2> QED
      BY <1>1, <1>2, <1>4, <2>2, <2>5, OnlyGoesOn
  <1> QED
    BY <1>3, <1>4 DEF FindNext

\* The job a run adds is one it has not added yet.
LEMMA AddStepJobKeeps ==
  ASSUME AutomationInv, NEW w \in Workers, AddStepJob(w)
  PROVE  AutomationInv'
  <1>1. /\ WorkerInv(w) /\ AutomationTypeOK /\ QueueOK
        /\ worker[w].pc = "addStepJob" /\ worker[w].key \in EntryJobs
        /\ locals[w].step \in Steps /\ Created(locals[w].step)
    BY DEF AddStepJob, AutomationInv, SharedInv, WorkerInv, HandlerOK, EntryPcs
  <1>2. "commit" \in Pcs \ {"idle"}
    BY DEF Pcs, EntryPcs
  <1>3. /\ Goto(w, "commit") /\ Add({QueuedStep(w)})
        /\ UNCHANGED <<author, tags, tagged, lost, locals, entered, acted, recorded>>
        /\ \A c \in Contacts : OnContact(c)' = OnContact(c)
    BY DEF AddStepJob, treeVars, audienceVars, ledgerVars, OnContact
  <1>4. QueuedStep(w) \in OfRun(w) /\ QueuedStep(w).step = locals[w].step
    BY <1>1, QueuedStepIsJob
  <1>5. job[QueuedStep(w)] = Absent
    BY <1>1, <1>4 DEF WorkerInv, UnqueuedOK
  <1>6. WorkerInv(w)'
    <2>1. QueuedStep(w)' = QueuedStep(w)
      BY <1>2, <1>3, GoesOn DEF QueuedStep
    <2>2. job'[QueuedStep(w)] = Added /\ Added # Absent
      BY <1>1, <1>3, <1>4, JobKinds DEF Add, OfRun, QueueOK, QueueInv, QueueTypes, Added, Absent
    <2>3. Created(locals[w].step)' /\ locals'[w].step \in Steps
      BY <1>1, <1>3 DEF Created
    <2> QED
      BY <1>1, <1>2, <1>3, <2>1, <2>2, <2>3, GoesOn, EntryWorkerInv
  <1> DEFINE added == {QueuedStep(w)}
  <1>7. /\ added \in SUBSET OfRun(w) /\ Add(added)
        /\ \A k \in added : job[k] = Absent /\ (k.step # NoStep => Created(k.step))
    BY <1>1, <1>3, <1>4, <1>5
  <1> HIDE DEF added
  <1> QED
    BY <1>1, <1>2, <1>3, <1>6, <1>7, HandlerStepKeeps DEF AutomationTypeOK

\* The row is committed after its job was added.
LEMMA CommitKeeps ==
  ASSUME AutomationInv, NEW w \in Workers, Commit(w)
  PROVE  AutomationInv'
  <1>1. /\ AutomationTypeOK
        /\ worker[w].pc = "commit" /\ worker[w].key \in EntryJobs
    BY DEF Commit, AutomationInv, SharedInv, WorkerInv, HandlerOK, EntryPcs
  <1>2. "return" \in Pcs \ {"idle"}
    BY DEF Pcs
  <1>3. /\ Goto(w, "return") /\ entered' = entered \cup {EnteredRow(w)}
        /\ UNCHANGED <<author, tags, tagged, lost, job, locals, acted, recorded>>
        /\ \A c \in Contacts : OnContact(c)' = OnContact(c)
    BY DEF Commit, treeVars, audienceVars, OnContact
  <1>4. WorkerInv(w)'
    BY <1>1, <1>2, <1>3, GoesOn, EntryWorkerInv
  <1>5. {} \in SUBSET OfRun(w)
        /\ \A k \in {} : job[k] = Absent /\ (k.step # NoStep => Created(k.step))
    OBVIOUS
  <1> QED
    BY <1>1, <1>2, <1>3, <1>4, <1>5, HandlerStepKeeps DEF AutomationTypeOK

-----------------------------------------------------------------------------
(* RunAutomationStepJob. *)

\* The rows a page is selected from, and what is selected.
LEMMA PageSelected ==
  ASSUME NEW s, NEW from \in Nat
  PROVE  LET found == {c \in PendingAt(s) : c > from}
             page  == Smallest(found, BatchSize)
             next  == NextCursor(found, page)
         IN  /\ page \subseteq found /\ next \in Nat
             /\ next = 0 => page = found
             /\ next # 0 => /\ next \in found
                            /\ \A c \in page : c <= next
                            /\ \A c \in found : c <= next => c \in page
  <1> DEFINE found == {c \in PendingAt(s) : c > from}
             page  == Smallest(found, BatchSize)
             next  == NextCursor(found, page)
  <1>1. found \in SUBSET Nat /\ found \subseteq Nat \ {0} /\ IsFiniteSet(found)
    <2>1. found \subseteq Contacts
      BY DEF PendingAt
    <2> QED
      BY <2>1, AutomationAssumption, FS_Subset
  <1> HIDE DEF found
  <1>2. BatchSize \in Nat \ {0}
    BY AutomationAssumption
  <1>3. /\ page \subseteq found /\ IsFiniteSet(page)
        /\ \A c \in page, d \in found : d < c => d \in page
        /\ Cardinality(page) \in Nat
        /\ Cardinality(page) < BatchSize => page = found
    BY <1>1, <1>2, PageOfSmallest
  <1> HIDE DEF page
  <1>4. next = IF Cardinality(page) < BatchSize THEN 0 ELSE Largest(page)
    BY DEF NextCursor
  <1> HIDE DEF next
  <1>5. CASE Cardinality(page) < BatchSize
    BY <1>3, <1>4, <1>5 DEF found, page, next
  <1>6. CASE ~(Cardinality(page) < BatchSize)
    <2>1. page # {}
      BY <1>2, <1>3, <1>6, FS_EmptySet
    <2>2. page \in SUBSET Nat
      BY <1>1, <1>3
    <2>3. next \in page /\ \A d \in page : d <= next
      BY <1>3, <1>4, <1>6, <2>1, <2>2, LargestNumber
    <2>4. next # 0 /\ next \in found
      BY <1>1, <1>3, <2>3
    <2>5. ASSUME NEW c \in found, c <= next
          PROVE  c \in page
      <3>1. c \in Nat /\ next \in Nat
        BY <1>1, <2>4
      <3> QED
        BY <1>3, <2>3, <2>5, <3>1
    <2> QED
      BY <1>1, <1>3, <2>3, <2>4, <2>5 DEF found, page, next
  <1> QED
    BY <1>5, <1>6

\* The handler that pages, where it stands next.
LEMMA BulkWorkerInv ==
  ASSUME NEW w \in Workers, worker'[w].key \in BulkJobs,
         worker'[w].pc \in {"selectPage", "addBulk", "return"},
         UnqueuedOK(w)', PageOK(w)'
  PROVE  WorkerInv(w)'
  <1> USE JobKinds
  <1>1. HandlerOK(w)'
    BY DEF HandlerOK, EntryPcs, BulkPcs, StepPcs, ActPcs
  <1>2. (CommitOK(w) /\ ProgressOK(w) /\ TagsOK(w))'
    BY DEF CommitOK, ProgressOK, TagsOK, ActPcs
  <1> QED
    BY <1>1, <1>2 DEF WorkerInv

\* Paging starts below every contact.
LEMMA FindStepKeeps ==
  ASSUME AutomationInv, NEW w \in Workers, FindStep(w)
  PROVE  AutomationInv'
  <1>1. /\ WorkerInv(w) /\ AutomationTypeOK
        /\ worker[w].pc = "findStep" /\ worker[w].key \in BulkJobs /\ locals[w] = Blank
    BY DEF FindStep, AutomationInv, SharedInv, WorkerInv, HandlerOK, BulkPcs
  <1>2. "selectPage" \in Pcs \ {"idle"}
    BY DEF Pcs, BulkPcs
  <1>3. CASE Fails(w)
    BY <1>1, <1>3, FailsKeeps
  <1>4. CASE Goto(w, "selectPage") /\ UNCHANGED <<treeVars, audienceVars, job, locals, ledgerVars>>
    <2>1. UnqueuedOK(w)'
      <3>1. \A k \in OfRun(w) : job[k] = Absent
        BY <1>1 DEF WorkerInv, UnqueuedOK
      <3> QED
        BY <1>2, <1>4, <3>1, GoesOn DEF UnqueuedOK
    <2>2. PageOK(w)'
      <3>1. \A c \in PendingAt(EntryOf(w)) : ~(c <= 0)
        BY AutomationAssumption DEF PendingAt
      <3>2. locals'[w].cursor = 0
        BY <1>1, <1>4, IdleRecord
      <3> QED
        BY <1>2, <1>4, <3>1, <3>2, GoesOn DEF PageOK
    <2>3. WorkerInv(w)'
      BY <1>1, <1>2, <1>4, <2>1, <2>2, GoesOn, BulkWorkerInv
    <2> QED
      BY <1>1, <1>2, <1>4, <2>3, OnlyGoesOn DEF AutomationTypeOK
  <1> QED
    BY <1>3, <1>4 DEF FindStep

\* What is not on the page, and not queued yet, is beyond the new cursor.
LEMMA SelectPageKeeps ==
  ASSUME AutomationInv, NEW w \in Workers, SelectPage(w)
  PROVE  AutomationInv'
  <1> DEFINE s     == EntryOf(w)
             from  == locals[w].cursor
             found == {c \in PendingAt(s) : c > from}
             page  == Smallest(found, BatchSize)
             next  == NextCursor(found, page)
  <1>1. /\ WorkerInv(w) /\ AutomationTypeOK
        /\ worker[w].pc = "selectPage" /\ worker[w].key \in BulkJobs
    BY DEF SelectPage, AutomationInv, SharedInv, WorkerInv, HandlerOK, BulkPcs
  <1>2. "addBulk" \in Pcs \ {"idle"}
    BY DEF Pcs, BulkPcs
  <1>3. /\ Goto(w, "addBulk") /\ UNCHANGED <<treeVars, audienceVars, job, ledgerVars>>
        /\ locals' = [locals EXCEPT ![w].ids = page, ![w].cursor = next]
    BY DEF SelectPage
  <1>4. /\ from \in Nat /\ page \subseteq found /\ next \in Nat
        /\ next = 0 => page = found
        /\ next # 0 => /\ next \in found
                       /\ \A c \in page : c <= next
                       /\ \A c \in found : c <= next => c \in page
    <2>1. from \in Nat
      BY <1>1 DEF AutomationTypeOK
    <2> HIDE DEF from
    <2> QED
      BY <2>1, PageSelected
  <1>5. found \subseteq PendingAt(s) /\ PendingAt(s) \subseteq Contacts /\ Contacts \subseteq Nat
    BY AutomationAssumption DEF PendingAt
  <1>6. \A c \in PendingAt(s) : c \in found <=> c > from
    OBVIOUS
  <1> HIDE DEF s, from, found, page, next
  <1>7. /\ locals' \in [Workers -> [step: Steps \cup {NoStep}, cursor: Nat,
                                    ids: SUBSET Contacts, tags: SUBSET Tags]]
        /\ locals'[w].ids = page /\ locals'[w].cursor = next
        /\ \A v \in Workers : v # w => locals'[v] = locals[v]
    BY <1>1, <1>3, <1>4, <1>5 DEF AutomationTypeOK
  <1>8. UnqueuedOK(w)'
    <2> SUFFICES ASSUME NEW k \in OfRun(w)
                 PROVE  /\ k.contact \in page => job[k] = Absent
                        /\ next # 0 /\ k.contact > next => job[k] = Absent
      BY <1>2, <1>3, <1>7, GoesOn DEF UnqueuedOK
    <2>1. k.contact > from => job[k] = Absent
      BY <1>1 DEF WorkerInv, UnqueuedOK, from
    <2>2. k.contact \in Nat
      BY <1>5, JobKinds DEF OfRun
    <2>3. k.contact \in page => k.contact > from
      BY <1>4, <1>5, <1>6
    <2>4. next # 0 => next > from
      BY <1>4, <1>5, <1>6
    <2> QED
      BY <1>4, <2>1, <2>2, <2>3, <2>4
  <1>9. PageOK(w)'
    <2> SUFFICES ASSUME NEW c \in PendingAt(s), next = 0 \/ c <= next
                 PROVE  c \in page \/ job[PagedStep(w, c)] # Absent
      BY <1>2, <1>3, <1>4, <1>5, <1>7, GoesOn DEF PageOK, s
    <2>1. c <= from => job[PagedStep(w, c)] # Absent
      BY <1>1 DEF WorkerInv, PageOK, s, from
    <2>2. c \in found => c \in page
      BY <1>4
    <2>3. c \in Nat
      BY <1>5
    <2> QED
      BY <1>4, <1>6, <2>1, <2>2, <2>3
  <1>10. WorkerInv(w)'
    BY <1>1, <1>2, <1>3, <1>8, <1>9, GoesOn, BulkWorkerInv
  <1> QED
    BY <1>1, <1>2, <1>3, <1>7, <1>10, OnlyGoesOn

\* With the page everything up to the cursor is queued.
LEMMA AddBulkKeeps ==
  ASSUME AutomationInv, NEW w \in Workers, AddBulk(w)
  PROVE  AutomationInv'
  <1> DEFINE s     == EntryOf(w)
             ids   == locals[w].ids
             next  == locals[w].cursor
             pc    == IF next = 0 THEN "return" ELSE "selectPage"
             added == {PagedStep(w, c) : c \in ids}
  <1>1. /\ WorkerInv(w) /\ AutomationTypeOK /\ QueueOK
        /\ worker[w].pc = "addBulk" /\ worker[w].key \in BulkJobs
    BY DEF AddBulk, AutomationInv, SharedInv, WorkerInv, HandlerOK, BulkPcs
  <1>2. pc \in Pcs \ {"idle"} /\ pc \in {"selectPage", "return"}
    BY DEF Pcs, BulkPcs
  <1>3. /\ Goto(w, pc) /\ Add(added)
        /\ UNCHANGED <<author, tags, tagged, lost, locals, entered, acted, recorded>>
        /\ \A c \in Contacts : OnContact(c)' = OnContact(c)
    BY DEF AddBulk, treeVars, audienceVars, ledgerVars, OnContact
  <1>4. /\ ids \subseteq PendingAt(s)
        /\ \A c \in ids : next = 0 \/ c <= next
        /\ \A c \in PendingAt(s) : next = 0 \/ c <= next => c \in ids \/ job[PagedStep(w, c)] # Absent
    BY <1>1 DEF WorkerInv, PageOK
  <1>5. \A c \in PendingAt(s) : /\ PagedStep(w, c) \in OfRun(w)
                                /\ PagedStep(w, c).step = NoStep
                                /\ PagedStep(w, c).contact = c
    BY <1>1, PagedStepIsJob
  <1>6. /\ added \in SUBSET OfRun(w)
        /\ \A k \in added : k.contact \in ids /\ k.step = NoStep
    BY <1>4, <1>5
  <1>7. \A k \in added : job[k] = Absent /\ (k.step # NoStep => Created(k.step))
    BY <1>1, <1>6 DEF WorkerInv, UnqueuedOK
  <1>8. /\ \A k \in OfRun(w) : job'[k] = IF k \in added THEN Added ELSE job[k]
        /\ Added # Absent
    BY <1>1, <1>3, JobKinds DEF Add, OfRun, QueueOK, QueueInv, QueueTypes, Added, Absent
  <1>9. \A c \in ids : PagedStep(w, c) \in added
    OBVIOUS
  <1> HIDE DEF added, pc
  <1>10. UnqueuedOK(w)'
    <2> SUFFICES ASSUME NEW k \in OfRun(w), next # 0, k.contact > next
                 PROVE  job'[k] = Absent
      BY <1>2, <1>3, GoesOn DEF UnqueuedOK, pc
    <2>1. job[k] = Absent
      BY <1>1 DEF WorkerInv, UnqueuedOK
    <2>2. k.contact \in Nat /\ next \in Nat
      BY <1>1, AutomationAssumption, JobKinds DEF OfRun, AutomationTypeOK
    <2>3. k \notin added
      BY <1>4, <1>6, <2>2
    <2> QED
      BY <1>8, <2>1, <2>3
  <1>11. PageOK(w)'
    <2> SUFFICES ASSUME NEW c \in PendingAt(s), next = 0 \/ c <= next
                 PROVE  job'[PagedStep(w, c)] # Absent
      BY <1>2, <1>3, GoesOn DEF PageOK, pc
    <2> QED
      BY <1>4, <1>5, <1>8, <1>9
  <1>12. WorkerInv(w)'
    BY <1>1, <1>2, <1>3, <1>10, <1>11, GoesOn, BulkWorkerInv
  <1> QED
    BY <1>1, <1>2, <1>3, <1>6, <1>7, <1>12, HandlerStepKeeps DEF AutomationTypeOK

-----------------------------------------------------------------------------
(* RunAutomationStepForContactJob. *)

\* The handler of a step goes on, and changes tags, acts or makes its entry.
LEMMA StepGoesOn ==
  ASSUME AutomationInv, NEW w \in Workers, NEW pc \in Pcs \ {"idle"},
         worker[w].pc \in StepPcs, Goto(w, pc),
         UNCHANGED <<author, tags, job, entered>>,
         locals' \in [Workers -> [step: Steps \cup {NoStep}, cursor: Nat,
                                  ids: SUBSET Contacts, tags: SUBSET Tags]],
         \A v \in Workers : v # w => locals'[v] = locals[v],
         tagged' \in [Contacts -> SUBSET Tags], lost' \in [Contacts -> SUBSET Tags],
         \A c \in Contacts : OnContact(c) \subseteq OnContact(c)',
         acted' \in {acted, acted \cup {Attempt(w)}},
         recorded' \in {recorded, recorded \cup {Attempt(w)}},
         recorded' # recorded => worker[w].pc = "record",
         WorkerInv(w)'
  PROVE  AutomationInv'
  <1>1. worker[w].pc # "idle"
    BY PcSets
  <1>2. {} \in SUBSET OfRun(w)
        /\ \A k \in {} : job[k] = Absent /\ (k.step # NoStep => Created(k.step))
    OBVIOUS
  <1> QED
    BY <1>1, <1>2, HandlerStepKeeps

\* The same of steps that leave tags and locals alone.
LEMMA StepGoesOnPlainly ==
  ASSUME AutomationInv, NEW w \in Workers, NEW pc \in Pcs \ {"idle"},
         worker[w].pc \in StepPcs, Goto(w, pc),
         UNCHANGED <<treeVars, audienceVars, job, locals, entered>>,
         acted' \in {acted, acted \cup {Attempt(w)}},
         recorded' \in {recorded, recorded \cup {Attempt(w)}},
         recorded' # recorded => worker[w].pc = "record",
         WorkerInv(w)'
  PROVE  AutomationInv'
  <1>1. /\ UNCHANGED <<author, tags, tagged, lost, job, locals, entered>>
        /\ \A c \in Contacts : OnContact(c)' = OnContact(c)
        /\ AutomationTypeOK
    BY DEF treeVars, audienceVars, OnContact, AutomationInv, SharedInv
  <1> QED
    BY <1>1, StepGoesOn DEF AutomationTypeOK

\* The handler of a step, where it stands next.
LEMMA StepWorkerInv ==
  ASSUME NEW w \in Workers, worker'[w].key \in StepJobs,
         worker'[w].pc \in {"return", "record", "setKey"} \cup ActPcs,
         worker'[w].pc # "return" => worker'[w].key.step \in Steps,
         worker'[w].pc \in {"readTags", "insertTags"} =>
            Kind[worker'[w].key.step] = "ACTION_ADD_TAG",
         worker'[w].pc = "detachTags" => Kind[worker'[w].key.step] = "ACTION_REMOVE_TAG",
         worker'[w].pc \in {"findEmail", "sendMail", "setKey"} =>
            Kind[worker'[w].key.step] = "ACTION_SEND_EMAIL",
         ProgressOK(w)', TagsOK(w)'
  PROVE  WorkerInv(w)'
  <1> USE JobKinds
  <1>1. HandlerOK(w)'
    BY DEF HandlerOK, EntryPcs, BulkPcs, StepPcs, ActPcs
  <1>2. (UnqueuedOK(w) /\ PageOK(w) /\ CommitOK(w))'
    BY DEF UnqueuedOK, PageOK, CommitOK, ActPcs
  <1> QED
    BY <1>1, <1>2 DEF WorkerInv

\* Where the handler of a step stands.
LEMMA StepStands ==
  ASSUME AutomationInv, NEW w \in Workers, worker[w].pc \in StepPcs
  PROVE  /\ HandlerOK(w) /\ ProgressOK(w) /\ TagsOK(w) /\ AutomationTypeOK /\ QueueOK
         /\ worker[w].pc # "idle" /\ worker[w].key \in StepJobs
         /\ worker[w].key.contact \in Contacts
         /\ worker[w].pc # "loadStep" => worker[w].key.step \in Steps
  BY PcSets, JobKinds DEF AutomationInv, SharedInv, WorkerInv, HandlerOK

\* A step is run when the ledger says nothing of it.
LEMMA LoadStepKeeps ==
  ASSUME AutomationInv, NEW w \in Workers, LoadStep(w)
  PROVE  AutomationInv'
  <1> DEFINE k == worker[w].key
  <1>1. worker[w].pc = "loadStep" /\ worker[w].pc \in StepPcs
    BY DEF LoadStep, StepPcs
  <1>2. /\ ProgressOK(w) /\ AutomationTypeOK /\ QueueOK
        /\ worker[w].pc # "idle" /\ k \in StepJobs
    BY <1>1, StepStands
  <1>3. "return" \in Pcs \ {"idle"}
    BY DEF Pcs
  <1>4. Attempt(w) \notin acted
    BY <1>1, <1>2 DEF ProgressOK
  <1>5. CASE Fails(w)
    BY <1>2, <1>5, FailsKeeps
  <1>6. ASSUME PairOf(k) \in Ledger \/ k.step = NoStep \/ (k.step # NoStep /\ ~Created(k.step)),
               Goto(w, "return"), UNCHANGED <<treeVars, audienceVars, job, locals, ledgerVars>>
        PROVE  AutomationInv'
    <2>1. job[k] # Absent
      <3>1. k \in Keys /\ Entry(w) \in Nat \ {0} /\ Entry(w) <= Starts(job[k])
        BY <1>2, EntryCounted
      <3>2. Starts(Absent) = 0
        BY AttemptsPositive, FreshJobs, <3>1
      <3> QED
        BY <3>1, <3>2
    <2>2. PairOf(k) \in Ledger \/ k.step = NoStep
      BY <1>2, <1>6, <2>1 DEF AutomationInv, SharedInv, OriginsOK
    <2>3. Ledger' = Ledger /\ PairOf(k)' = PairOf(k)
      BY <1>3, <1>6, GoesOn DEF Ledger, ledgerVars, PairOf
    <2>4. ProgressOK(w)' /\ TagsOK(w)'
      BY <1>3, <1>6, <2>2, <2>3, GoesOn DEF ProgressOK, TagsOK, ActPcs
    <2>5. WorkerInv(w)'
      BY <1>2, <1>3, <1>6, <2>4, GoesOn, StepWorkerInv
    <2> QED
      BY <1>2, <1>3, <1>6, <2>5, OnlyGoesOn DEF AutomationTypeOK
  <1>7. ASSUME k.step # NoStep, Kind[k.step] \in RunnableKinds, Goto(w, StartOf(Kind[k.step])),
               UNCHANGED <<treeVars, audienceVars, job, locals, ledgerVars>>
        PROVE  AutomationInv'
    <2> DEFINE pc == StartOf(Kind[k.step])
    <2>1. /\ pc \in {"readTags", "detachTags", "findEmail"}
          /\ pc = "readTags" => Kind[k.step] = "ACTION_ADD_TAG"
          /\ pc = "detachTags" => Kind[k.step] = "ACTION_REMOVE_TAG"
          /\ pc = "findEmail" => Kind[k.step] = "ACTION_SEND_EMAIL"
      BY <1>7 DEF RunnableKinds, StartOf
    <2> HIDE DEF pc
    <2>2. pc \in Pcs \ {"idle"} /\ pc \in ActPcs
      BY <2>1 DEF Pcs, StepPcs, ActPcs
    <2>3. k.step \in Steps
      BY <1>2, <1>7, JobKinds
    <2>4. Goto(w, pc) /\ acted' = acted
      BY <1>7 DEF pc, ledgerVars
    <2>5. ProgressOK(w)' /\ TagsOK(w)'
      BY <1>4, <2>1, <2>2, <2>4, GoesOn DEF ProgressOK, TagsOK
    <2>6. WorkerInv(w)'
      BY <1>2, <2>1, <2>2, <2>3, <2>4, <2>5, GoesOn, StepWorkerInv
    <2> QED
      BY <1>2, <1>7, <2>2, <2>4, <2>6, OnlyGoesOn DEF AutomationTypeOK
  <1> QED
    BY <1>5, <1>6, <1>7 DEF LoadStep

\* The tags left to insert are those of the step the contact lacks.
LEMMA ReadTagsKeeps ==
  ASSUME AutomationInv, NEW w \in Workers, ReadTags(w)
  PROVE  AutomationInv'
  <1> DEFINE k    == worker[w].key
             read == (TagsOf[k.step] \cap tags) \ tagged[k.contact]
  <1>1. worker[w].pc = "readTags" /\ worker[w].pc \in StepPcs /\ worker[w].pc \in ActPcs
    BY DEF ReadTags, StepPcs, ActPcs
  <1>2. /\ HandlerOK(w) /\ ProgressOK(w) /\ AutomationTypeOK
        /\ worker[w].pc # "idle" /\ k \in StepJobs /\ k.step \in Steps
    BY <1>1, StepStands
  <1>3. "insertTags" \in Pcs \ {"idle"} /\ "insertTags" \in ActPcs
    BY DEF Pcs, StepPcs, ActPcs
  <1>4. /\ Goto(w, "insertTags") /\ locals' = [locals EXCEPT ![w].tags = read]
        /\ UNCHANGED <<treeVars, audienceVars, job, ledgerVars>>
    BY DEF ReadTags
  <1>5. read \subseteq Tags
    BY <1>2 DEF AutomationTypeOK
  <1>6. TagsOf[k.step] \cap tags \subseteq OnContact(k.contact) \cup read
    BY DEF OnContact
  <1> HIDE DEF read
  <1>7. /\ locals' \in [Workers -> [step: Steps \cup {NoStep}, cursor: Nat,
                                    ids: SUBSET Contacts, tags: SUBSET Tags]]
        /\ locals'[w].tags = read
        /\ \A v \in Workers : v # w => locals'[v] = locals[v]
    BY <1>2, <1>4, <1>5 DEF AutomationTypeOK
  <1>8. TagsOK(w)'
    <2>1. tags' = tags /\ OnContact(k.contact)' = OnContact(k.contact)
      BY <1>3, <1>4, GoesOn DEF audienceVars, OnContact
    <2> QED
      BY <1>3, <1>4, <1>6, <1>7, <2>1, GoesOn DEF TagsOK
  <1>9. ProgressOK(w)'
    BY <1>1, <1>2, <1>3, <1>4, GoesOn DEF ProgressOK, ledgerVars
  <1>10. WorkerInv(w)'
    BY <1>1, <1>2, <1>3, <1>4, <1>8, <1>9, GoesOn, StepWorkerInv DEF HandlerOK
  <1> QED
    BY <1>2, <1>3, <1>4, <1>7, <1>10, OnlyGoesOn

\* All tags are inserted, or none and the attempt fails.
LEMMA InsertTagsKeeps ==
  ASSUME AutomationInv, NEW w \in Workers, InsertTags(w)
  PROVE  AutomationInv'
  <1> DEFINE k == worker[w].key
             c == k.contact
  <1>1. worker[w].pc = "insertTags" /\ worker[w].pc \in StepPcs
    BY DEF InsertTags, StepPcs, ActPcs
  <1>2. /\ HandlerOK(w) /\ TagsOK(w) /\ AutomationTypeOK
        /\ worker[w].pc # "idle" /\ k \in StepJobs /\ k.step \in Steps /\ c \in Contacts
    BY <1>1, StepStands
  <1>3. "record" \in Pcs \ {"idle"}
    BY DEF Pcs, StepPcs
  <1>4. CASE Fails(w)
    BY <1>2, <1>4, FailsKeeps
  <1>5. ASSUME tagged' = [tagged EXCEPT ![c] = @ \cup locals[w].tags],
               acted' = acted \cup {Attempt(w)}, Goto(w, "record"),
               UNCHANGED <<tags, lost, treeVars, job, locals, entered, recorded>>
        PROVE  AutomationInv'
    <2>1. /\ tagged' \in [Contacts -> SUBSET Tags] /\ tagged'[c] = tagged[c] \cup locals[w].tags
          /\ \A d \in Contacts : d # c => tagged'[d] = tagged[d]
      BY <1>2, <1>5 DEF AutomationTypeOK
    <2>2. \A d \in Contacts : OnContact(d) \subseteq OnContact(d)'
      BY <1>5, <2>1 DEF OnContact
    <2>3. TagsOK(w)'
      <3>1. TagsOf[k.step] \cap tags \subseteq OnContact(c) \cup locals[w].tags
        BY <1>1, <1>2 DEF TagsOK
      <3>2. TagsOf[k.step] \cap tags' \subseteq tagged'[c] \cup lost'[c]
        BY <1>5, <2>1, <3>1 DEF OnContact
      <3>3. worker'[w].pc = "record" /\ worker'[w].key = k
        BY <1>3, <1>5, GoesOn
      <3> QED
        BY <3>2, <3>3 DEF TagsOK, OnContact
    <2>4. ProgressOK(w)'
      BY <1>3, <1>5, GoesOn DEF ProgressOK, ActPcs
    <2>5. WorkerInv(w)'
      BY <1>2, <1>3, <1>5, <2>3, <2>4, GoesOn, StepWorkerInv
    <2> QED
      BY <1>1, <1>2, <1>3, <1>5, <2>1, <2>2, <2>5, StepGoesOn DEF AutomationTypeOK, treeVars
  <1> QED
    BY <1>4, <1>5 DEF InsertTags

\* Tags that are taken off go to lost.
LEMMA DetachTagsKeeps ==
  ASSUME AutomationInv, NEW w \in Workers, DetachTags(w)
  PROVE  AutomationInv'
  <1> DEFINE k == worker[w].key
             c == k.contact
  <1>1. worker[w].pc = "detachTags" /\ worker[w].pc \in StepPcs
    BY DEF DetachTags, StepPcs, ActPcs
  <1>2. /\ HandlerOK(w) /\ AutomationTypeOK
        /\ worker[w].pc # "idle" /\ k \in StepJobs /\ k.step \in Steps /\ c \in Contacts
    BY <1>1, StepStands
  <1>3. "record" \in Pcs \ {"idle"}
    BY DEF Pcs, StepPcs
  <1>4. /\ tagged' = [tagged EXCEPT ![c] = @ \ TagsOf[k.step]]
        /\ lost' = [lost EXCEPT ![c] = @ \cup (tagged[c] \cap TagsOf[k.step])]
        /\ acted' = acted \cup {Attempt(w)} /\ Goto(w, "record")
        /\ UNCHANGED <<author, tags, job, locals, entered, recorded>>
    BY DEF DetachTags, treeVars
  <1>5. /\ tagged' \in [Contacts -> SUBSET Tags] /\ lost' \in [Contacts -> SUBSET Tags]
        /\ tagged'[c] = tagged[c] \ TagsOf[k.step]
        /\ lost'[c] = lost[c] \cup (tagged[c] \cap TagsOf[k.step])
        /\ \A d \in Contacts : d # c => tagged'[d] = tagged[d] /\ lost'[d] = lost[d]
    BY <1>2, <1>4 DEF AutomationTypeOK
  <1>6. \A d \in Contacts : OnContact(d) \subseteq OnContact(d)'
    BY <1>5 DEF OnContact
  <1>7. Kind[k.step] = "ACTION_REMOVE_TAG"
    BY <1>1, <1>2 DEF HandlerOK
  <1>8. TagsOK(w)' /\ ProgressOK(w)'
    BY <1>3, <1>4, <1>7, GoesOn DEF TagsOK, ProgressOK, ActPcs
  <1>9. WorkerInv(w)'
    BY <1>2, <1>3, <1>4, <1>8, GoesOn, StepWorkerInv
  <1> QED
    BY <1>1, <1>2, <1>3, <1>4, <1>5, <1>6, <1>9, StepGoesOn DEF AutomationTypeOK

\* There is an e-mail to send, or the step has acted already.
LEMMA FindEmailKeeps ==
  ASSUME AutomationInv, NEW w \in Workers, FindEmail(w)
  PROVE  AutomationInv'
  <1>1. worker[w].pc = "findEmail" /\ worker[w].pc \in StepPcs /\ worker[w].pc \in ActPcs
    BY DEF FindEmail, StepPcs, ActPcs
  <1>2. /\ HandlerOK(w) /\ ProgressOK(w)
        /\ worker[w].key \in StepJobs /\ worker[w].key.step \in Steps
        /\ Kind[worker[w].key.step] = "ACTION_SEND_EMAIL"
    BY <1>1, StepStands DEF HandlerOK
  <1>3. UNCHANGED <<treeVars, audienceVars, job, locals, entered, recorded>>
    BY DEF FindEmail
  <1>4. CASE acted' = acted \cup {Attempt(w)} /\ Goto(w, "record")
    <2>1. "record" \in Pcs \ {"idle"}
      BY DEF Pcs, StepPcs
    <2>2. TagsOK(w)' /\ ProgressOK(w)'
      BY <1>2, <1>4, <2>1, GoesOn DEF TagsOK, ProgressOK, ActPcs
    <2>3. WorkerInv(w)'
      BY <1>2, <1>4, <2>1, <2>2, GoesOn, StepWorkerInv
    <2> QED
      BY <1>1, <1>3, <1>4, <2>1, <2>3, StepGoesOnPlainly
  <1>5. CASE Goto(w, "sendMail") /\ acted' = acted
    <2>1. "sendMail" \in Pcs \ {"idle"} /\ "sendMail" \in ActPcs
      BY DEF Pcs, StepPcs, ActPcs
    <2>2. TagsOK(w)' /\ ProgressOK(w)'
      BY <1>1, <1>2, <1>5, <2>1, GoesOn DEF TagsOK, ProgressOK
    <2>3. WorkerInv(w)'
      BY <1>2, <1>5, <2>1, <2>2, GoesOn, StepWorkerInv
    <2> QED
      BY <1>1, <1>3, <1>5, <2>1, <2>3, StepGoesOnPlainly
  <1> QED
    BY <1>4, <1>5 DEF FindEmail

\* The attempt acts by sending.
LEMMA SendMailKeeps ==
  ASSUME AutomationInv, NEW w \in Workers, SendMail(w)
  PROVE  AutomationInv'
  <1>1. worker[w].pc = "sendMail" /\ worker[w].pc \in StepPcs
    BY DEF SendMail, StepPcs, ActPcs
  <1>2. /\ worker[w].key \in StepJobs /\ worker[w].key.step \in Steps
        /\ Kind[worker[w].key.step] = "ACTION_SEND_EMAIL"
    BY <1>1, StepStands DEF HandlerOK
  <1>3. /\ UNCHANGED <<treeVars, audienceVars, job, locals, entered, recorded>>
        /\ acted' = acted \cup {Attempt(w)} /\ Goto(w, "setKey")
    BY DEF SendMail
  <1>4. "setKey" \in Pcs \ {"idle"}
    BY DEF Pcs, StepPcs
  <1>5. TagsOK(w)' /\ ProgressOK(w)'
    BY <1>3, <1>4, GoesOn DEF TagsOK, ProgressOK, ActPcs
  <1>6. WorkerInv(w)'
    BY <1>2, <1>3, <1>4, <1>5, GoesOn, StepWorkerInv
  <1> QED
    BY <1>1, <1>3, <1>4, <1>6, StepGoesOnPlainly

\* The key of a sent e-mail changes nothing here.
LEMMA SetKeyKeeps ==
  ASSUME AutomationInv, NEW w \in Workers, SetKey(w)
  PROVE  AutomationInv'
  <1>1. worker[w].pc = "setKey" /\ worker[w].pc \in StepPcs
    BY DEF SetKey, StepPcs
  <1>2. /\ worker[w].key \in StepJobs /\ worker[w].key.step \in Steps
        /\ Kind[worker[w].key.step] = "ACTION_SEND_EMAIL" /\ Attempt(w) \in acted
    BY <1>1, StepStands DEF HandlerOK, ProgressOK
  <1>3. /\ UNCHANGED <<treeVars, audienceVars, job, locals, entered, acted, recorded>>
        /\ Goto(w, "record")
    BY DEF SetKey, ledgerVars
  <1>4. "record" \in Pcs \ {"idle"}
    BY DEF Pcs, StepPcs
  <1>5. TagsOK(w)' /\ ProgressOK(w)'
    BY <1>2, <1>3, <1>4, GoesOn DEF TagsOK, ProgressOK, ActPcs
  <1>6. WorkerInv(w)'
    BY <1>2, <1>3, <1>4, <1>5, GoesOn, StepWorkerInv
  <1> QED
    BY <1>1, <1>3, <1>4, <1>6, StepGoesOnPlainly

\* The row of an attempt that acted.
LEMMA RecordKeeps ==
  ASSUME AutomationInv, NEW w \in Workers, Record(w)
  PROVE  AutomationInv'
  <1>1. worker[w].pc = "record" /\ worker[w].pc \in StepPcs
    BY DEF Record, StepPcs
  <1>2. worker[w].key \in StepJobs
    BY <1>1, StepStands
  <1>3. /\ UNCHANGED <<treeVars, audienceVars, job, locals, entered, acted>>
        /\ recorded' = recorded \cup {Attempt(w)} /\ Goto(w, "return")
    BY DEF Record
  <1>4. "return" \in Pcs \ {"idle"}
    BY DEF Pcs
  <1>5. PairOf(worker[w].key) \in Ledger'
    <2>1. Attempt(w) \in recorded' /\ Attempt(w)[1] = worker[w].key
      BY <1>3 DEF Attempt
    <2> QED
      BY <2>1 DEF Ledger, PairOf
  <1>6. worker'[w].pc = "return" /\ worker'[w].key = worker[w].key
    BY <1>3, <1>4, GoesOn
  <1>7. TagsOK(w)' /\ ProgressOK(w)'
    BY <1>5, <1>6 DEF TagsOK, ProgressOK, ActPcs, PairOf
  <1>8. WorkerInv(w)'
    BY <1>2, <1>6, <1>7, StepWorkerInv
  <1> QED
    BY <1>1, <1>3, <1>4, <1>8, StepGoesOnPlainly

-----------------------------------------------------------------------------
(* The invariant. *)

\* Seeded steps, jobs that wait, and workers without one.
LEMMA AutomationInvInit == Init => AutomationInv
  <1> SUFFICES ASSUME Init PROVE AutomationInv
    OBVIOUS
  <1>1. \A k \in Keys : /\ job[k] = (IF k \in StepJobs THEN Absent ELSE Added)
                        /\ JobInv(job[k], AttemptsFn[k]) /\ Starts(job[k]) = 0
                        /\ job[k].lock = NoWorker /\ job[k].state # "completed"
    <2>1. Absent.lock = NoWorker /\ Added.lock = NoWorker
      BY DEF Absent, Added
    <2>2. Absent.state = "absent" /\ Added.state = "waiting"
      BY DEF Absent, Added
    <2> QED
      BY <2>1, <2>2, AttemptsPositive, FreshJobs DEF Init
  <1>2. \A w \in Workers : worker[w] = Idle /\ locals[w] = Blank
    BY DEF Init
  <1>3. QueueTypes(Keys, Pcs)
    <2>1. job \in [Keys -> Job]
      <3>1. Absent \in Job /\ Added \in Job
        BY DEF Absent, Added, Job, JobStates
      <3> QED
        BY <3>1 DEF Init
    <2>2. worker \in [Workers -> [pc: Pcs, key: Keys \cup {NoKey}, entry: Nat]]
      BY IdleWorker, PcSets DEF Init
    <2> QED
      BY <2>1, <2>2 DEF QueueTypes
  <1>4. QueueOK
    BY <1>1, <1>2, <1>3, IdleRecord, QueueAssumption
       DEF QueueOK, QueueInv, WorkersOK, EntriesDiffer, LocksOK
  <1>5. AutomationTypeOK
    <2>1. author \in [Steps -> [pc: AuthorStates, parent: Steps \cup {NoStep}, seen: SUBSET Steps]]
      BY AutomationAssumption DEF Init, NoAuthor, AuthorStates
    <2>2. /\ tags \subseteq Tags /\ tagged \in [Contacts -> SUBSET Tags]
          /\ lost \in [Contacts -> SUBSET Tags]
          /\ entered = {} /\ acted = {} /\ recorded = {}
      BY DEF Init
    <2>3. locals \in [Workers -> [step: Steps \cup {NoStep}, cursor: Nat,
                                  ids: SUBSET Contacts, tags: SUBSET Tags]]
      BY IdleRecord DEF Init
    <2> QED
      BY <1>3, <2>1, <2>2, <2>3 DEF AutomationTypeOK, QueueTypes
  <1>6. TreeOK
    BY DEF Init, TreeOK, NoAuthor
  <1>7. OriginsOK /\ EnteredHasJob /\ AttemptsOK /\ TagsOfRecordedStep
    BY <1>1, JobKinds DEF Init, OriginsOK, EnteredHasJob, AttemptsOK, TagsOfRecordedStep
  <1>8. CompletedLeavesRow /\ EveryPendingQueued
    <2>1. \A s \in BulkSteps : [kind |-> "bulk", origin |-> s] \in Keys
      BY DEF BulkJobs, Keys
    <2> QED
      BY <1>1, <2>1, JobKinds DEF CompletedLeavesRow, EveryPendingQueued
  <1>9. \A w \in Workers : WorkerInv(w)
    BY <1>2, IdleWorkerInv
  <1> QED
    BY <1>4, <1>5, <1>6, <1>7, <1>8, <1>9 DEF AutomationInv, SharedInv

\* Every step keeps the invariant.
LEMMA AutomationInvStep == AutomationInv /\ [Next]_vars => AutomationInv'
  <1> SUFFICES ASSUME AutomationInv, [Next]_vars PROVE AutomationInv'
    OBVIOUS
  <1>1. CASE UNCHANGED vars
    <2>1. /\ UNCHANGED <<queueVars, locals, ledgerVars>> /\ UNCHANGED <<author, tags, tagged, lost>>
      BY <1>1 DEF vars, queueVars, ledgerVars
    <2>2. AutomationTypeOK' /\ TreeOK'
      BY <2>1 DEF AutomationInv, SharedInv, AutomationTypeOK, TreeOK, Created, queueVars, ledgerVars
    <2> QED
      BY <2>1, <2>2, AsideStep DEF Created, OnContact
  <1>2. ASSUME NEW s \in Steps,
               InsertStep(s) \/ AbortStep(s) \/ \E p \in Steps \cup {NoStep} : CheckStep(s, p)
        PROVE  AutomationInv'
    BY <1>2, TreeStep
  <1>3. ASSUME NEW t \in Tags,
               DeleteTag(t) \/ \E c \in Contacts : TagContact(c, t) \/ UntagContact(c, t)
        PROVE  AutomationInv'
    BY <1>3, TagStep
  <1>4. ASSUME NEW w \in Workers, HandlerStep(w)
        PROVE  AutomationInv'
    <2>1. CASE FindTrigger(w) \/ FindNext(w) \/ AddStepJob(w) \/ Commit(w)
      BY <2>1, FindTriggerKeeps, FindNextKeeps, AddStepJobKeeps, CommitKeeps
    <2>2. CASE FindStep(w) \/ SelectPage(w) \/ AddBulk(w)
      BY <2>2, FindStepKeeps, SelectPageKeeps, AddBulkKeeps
    <2>3. CASE LoadStep(w) \/ ReadTags(w) \/ InsertTags(w) \/ DetachTags(w)
      BY <2>3, LoadStepKeeps, ReadTagsKeeps, InsertTagsKeeps, DetachTagsKeeps
    <2>4. CASE FindEmail(w) \/ SendMail(w) \/ SetKey(w) \/ Record(w)
      BY <2>4, FindEmailKeeps, SendMailKeeps, SetKeyKeeps, RecordKeeps
    <2>5. CASE Succeed(w)
      BY <2>5, SucceedKeeps
    <2> QED
      BY <1>4, <2>1, <2>2, <2>3, <2>4, <2>5 DEF HandlerStep
  <1>5. ASSUME NEW w \in Workers, TakeAny(w)
        PROVE  AutomationInv'
    BY <1>5, TakeKeeps DEF TakeAny
  <1>6. ASSUME NEW w \in Workers, HandlerThrows(w) \/ Crash(w) \/ LoseLock(w)
        PROVE  AutomationInv'
    BY <1>6, FailsKeeps, CrashKeeps, LoseLockKeeps DEF HandlerThrows
  <1>7. CASE RecoverAny
    BY <1>7, RecoverKeeps DEF RecoverAny
  <1> QED
    BY <1>1, <1>2, <1>3, <1>4, <1>5, <1>6, <1>7 DEF Next

-----------------------------------------------------------------------------
(* Jobs keep the promise of StepLedger. *)

AdmittedPcs == StepPcs \ {"loadStep"}

\* The attempts of different workers differ.
LEMMA OwnAttempt ==
  ASSUME AutomationInv, NEW v \in Workers, NEW w \in Workers, v # w,
         worker[v].pc \in StepPcs, worker[w].pc \in StepPcs
  PROVE  Attempt(v) # Attempt(w)
  <1>1. worker[v].key # worker[w].key \/ Entry(v) # Entry(w)
    BY OwnEntry, PcSets DEF AutomationInv, SharedInv
  <1> QED
    BY <1>1 DEF Attempt

\* Who is admitted after a step of w.
LEMMA AdmittedNext ==
  ASSUME AutomationInv, NEW w \in Workers,
         \A v \in Workers : v # w => worker'[v] = worker[v]
  PROVE  /\ worker[w].pc \notin AdmittedPcs /\ worker'[w].pc \notin AdmittedPcs =>
              Admitted' = Admitted
         /\ worker[w].pc \in AdmittedPcs /\ worker'[w].pc \in AdmittedPcs /\ Attempt(w)' = Attempt(w) =>
              Admitted' = Admitted
         /\ worker[w].pc \notin AdmittedPcs /\ worker'[w].pc \in AdmittedPcs /\ Attempt(w)' = Attempt(w) =>
              Admitted' = Admitted \cup {Attempt(w)}
         /\ worker[w].pc \in AdmittedPcs /\ worker'[w].pc \notin AdmittedPcs =>
              Admitted' = Admitted \ {Attempt(w)}
         /\ worker[w].pc \in AdmittedPcs => Attempt(w) \in Admitted
  <1>1. Admitted = {Attempt(v) : v \in {x \in Workers : worker[x].pc \in AdmittedPcs}}
    BY DEF Admitted, AdmittedPcs
  <1>2. Admitted' = {Attempt(v)' : v \in {x \in Workers : worker'[x].pc \in AdmittedPcs}}
    BY DEF Admitted, AdmittedPcs
  <1>3. \A v \in Workers : v # w => Attempt(v)' = Attempt(v)
    BY DEF Attempt, Entry
  <1>4. \A v \in Workers : v # w /\ worker[v].pc \in AdmittedPcs /\ worker[w].pc \in AdmittedPcs =>
           Attempt(v) # Attempt(w)
    BY OwnAttempt DEF AdmittedPcs
  <1> QED
    BY <1>1, <1>2, <1>3, <1>4

\* Entries are about subjects.
LEMMA LedgerSubjects == AutomationTypeOK => Ledger \subseteq Contacts \X (Steps \cup {NoStep})
  <1> SUFFICES ASSUME AutomationTypeOK PROVE Ledger \subseteq Contacts \X (Steps \cup {NoStep})
    OBVIOUS
  <1>1. \A r \in entered : <<EntryContact[r.origin], r.step>> \in Contacts \X (Steps \cup {NoStep})
    BY AutomationAssumption DEF AutomationTypeOK
  <1>2. \A a \in recorded : PairOf(a[1]) \in Contacts \X (Steps \cup {NoStep})
    BY JobKinds DEF AutomationTypeOK, Attempts, PairOf
  <1> QED
    BY <1>1, <1>2, AutomationAssumption DEF Ledger

\* Steps after which the ledger says what it said.
LEMMA LedgerStutters ==
  ASSUME UNCHANGED ledgerVars, Admitted' = Admitted
  PROVE  UNCHANGED Promise!ledgerVars
  BY DEF ledgerVars, Ledger, Promise!ledgerVars

\* An attempt that ends without an entry is withdrawn.
LEMMA LeavingPromise ==
  ASSUME AutomationInv, NEW w \in Workers, UNCHANGED ledgerVars,
         \A v \in Workers : v # w => worker'[v] = worker[v],
         worker'[w].pc \notin AdmittedPcs
  PROVE  [Promise!Next]_(Promise!ledgerVars)
  <1>1. CASE worker[w].pc \in AdmittedPcs
    <2>1. Attempt(w) \in Admitted /\ Admitted' = Admitted \ {Attempt(w)}
      BY <1>1, AdmittedNext
    <2>2. Promise!Withdraw(Attempt(w))
      BY <2>1 DEF Promise!Withdraw, ledgerVars, Ledger
    <2> QED
      BY <2>1, <2>2 DEF Promise!Next
  <1>2. CASE worker[w].pc \notin AdmittedPcs
    BY <1>2, AdmittedNext, LedgerStutters
  <1> QED
    BY <1>1, <1>2

\* A failed attempt is withdrawn.
LEMMA FailsPromise ==
  ASSUME AutomationInv, NEW w \in Workers, Fails(w)
  PROVE  [Promise!Next]_(Promise!ledgerVars)
  <1>1. /\ \A v \in Workers : v # w => worker'[v] = worker[v]
        /\ worker'[w].pc = "idle"
    BY IdleRecord DEF Fails, FailJob, Settle, Leave, AutomationInv, SharedInv, AutomationTypeOK
  <1> QED
    BY <1>1, PcSets, LeavingPromise DEF Fails, AdmittedPcs

\* An attempt is admitted when there is no entry for its subject.
LEMMA LoadStepPromise ==
  ASSUME AutomationInv, NEW w \in Workers, LoadStep(w)
  PROVE  [Promise!Next]_(Promise!ledgerVars)
  <1> DEFINE k == worker[w].key
  <1>1. worker[w].pc = "loadStep" /\ worker[w].pc \in StepPcs /\ worker[w].pc \notin AdmittedPcs
    BY DEF LoadStep, StepPcs, AdmittedPcs
  <1>2. HandlerOK(w) /\ ProgressOK(w) /\ QueueOK /\ AutomationTypeOK
    BY <1>1, StepStands
  <1>3. CASE Fails(w)
    BY <1>3, FailsPromise
  <1>4. CASE Goto(w, "return") /\ UNCHANGED ledgerVars
    <2>1. "return" \in Pcs
      BY DEF Pcs
    <2>2. worker'[w].pc = "return" /\ \A v \in Workers : v # w => worker'[v] = worker[v]
      BY <1>4, <2>1, GoesOn DEF Goto, AutomationInv, SharedInv, AutomationTypeOK
    <2> QED
      BY <1>4, <2>2, PcSets, LeavingPromise DEF AdmittedPcs
  <1>5. ASSUME PairOf(k) \notin Ledger, Kind[k.step] \in RunnableKinds,
               Goto(w, StartOf(Kind[k.step])), UNCHANGED ledgerVars
        PROVE  [Promise!Next]_(Promise!ledgerVars)
    <2> DEFINE pc == StartOf(Kind[k.step])
    <2>1. pc \in {"readTags", "detachTags", "findEmail"}
      BY <1>5 DEF RunnableKinds, StartOf
    <2> HIDE DEF pc
    <2>2. pc \in Pcs /\ pc \in AdmittedPcs
      BY <2>1 DEF Pcs, StepPcs, ActPcs, AdmittedPcs
    <2>3. Goto(w, pc)
      BY <1>5 DEF pc
    <2>4. worker'[w].pc = pc /\ Attempt(w)' = Attempt(w)
          /\ \A v \in Workers : v # w => worker'[v] = worker[v]
      BY <1>2, <2>2, <2>3, GoesOn DEF Goto, AutomationTypeOK
    <2>5. Admitted' = Admitted \cup {Attempt(w)}
      BY <1>1, <2>2, <2>4, AdmittedNext
    <2>6. Attempt(w) \in Attempts /\ Attempt(w) \notin acted /\ SubjectOf(Attempt(w)) \notin Ledger
      BY <1>1, <1>2, <1>5, AttemptIsOne DEF ProgressOK, SubjectOf, Attempt
    <2>7. Ledger' = Ledger /\ acted' = acted /\ recorded' = recorded
      BY <1>5 DEF ledgerVars, Ledger
    <2>8. Promise!Admit
      BY <2>5, <2>6, <2>7 DEF Promise!Admit
    <2> QED
      BY <2>8 DEF Promise!Next
  <1> QED
    BY <1>3, <1>4, <1>5 DEF LoadStep

\* A step of the handler in which the attempt acts.
LEMMA ActPromise ==
  ASSUME AutomationInv, NEW w \in Workers, NEW pc \in {"record", "setKey"},
         worker[w].pc \in ActPcs, Goto(w, pc), acted' = acted \cup {Attempt(w)},
         UNCHANGED <<entered, recorded>>
  PROVE  [Promise!Next]_(Promise!ledgerVars)
  <1>1. pc \in Pcs /\ pc \in AdmittedPcs /\ worker[w].pc \in StepPcs /\ worker[w].pc \in AdmittedPcs
    BY DEF Pcs, StepPcs, ActPcs, AdmittedPcs
  <1>2. ProgressOK(w) /\ AutomationTypeOK
    BY <1>1, StepStands
  <1>3. worker'[w].pc = pc /\ Attempt(w)' = Attempt(w)
        /\ \A v \in Workers : v # w => worker'[v] = worker[v]
    BY <1>1, <1>2, GoesOn DEF Goto, AutomationTypeOK
  <1>4. Admitted' = Admitted /\ Attempt(w) \in Admitted
    BY <1>1, <1>3, AdmittedNext
  <1>5. Attempt(w) \notin acted /\ Ledger' = Ledger
    BY <1>2 DEF ProgressOK, Ledger
  <1>6. Promise!Act(Attempt(w))
    BY <1>4, <1>5 DEF Promise!Act
  <1> QED
    BY <1>4, <1>6 DEF Promise!Next

\* An entry is made by an attempt that acted.
LEMMA RecordPromise ==
  ASSUME AutomationInv, NEW w \in Workers, Record(w)
  PROVE  [Promise!Next]_(Promise!ledgerVars)
  <1>1. /\ worker[w].pc = "record" /\ worker[w].pc \in StepPcs /\ worker[w].pc \in AdmittedPcs
        /\ "return" \in Pcs /\ "return" \notin AdmittedPcs
    BY PcSets DEF Record, StepPcs, AdmittedPcs
  <1>2. ProgressOK(w) /\ AutomationTypeOK
    BY <1>1, StepStands
  <1>3. /\ Goto(w, "return") /\ recorded' = recorded \cup {Attempt(w)}
        /\ UNCHANGED <<entered, acted>>
    BY DEF Record
  <1>4. worker'[w].pc = "return" /\ \A v \in Workers : v # w => worker'[v] = worker[v]
    BY <1>1, <1>2, <1>3, GoesOn DEF Goto, AutomationTypeOK
  <1>5. Admitted' = Admitted \ {Attempt(w)} /\ Attempt(w) \in Admitted
    BY <1>1, <1>4, AdmittedNext
  <1>6. Attempt(w) \in acted
    BY <1>1, <1>2 DEF ProgressOK
  <1>7. Ledger' = Ledger \cup {SubjectOf(Attempt(w))}
    BY <1>3 DEF Ledger, SubjectOf
  <1>8. Promise!Record(Attempt(w))
    BY <1>3, <1>5, <1>6, <1>7 DEF Promise!Record
  <1> QED
    BY <1>5, <1>8 DEF Promise!Next

\* Steps of the handlers that queue: a contact is entered, or nothing happens here.
LEMMA QueuingPromise ==
  ASSUME AutomationInv, AutomationInv', NEW w \in Workers,
         \/ FindTrigger(w) \/ FindNext(w) \/ AddStepJob(w) \/ Commit(w)
         \/ FindStep(w) \/ SelectPage(w) \/ AddBulk(w)
  PROVE  [Promise!Next]_(Promise!ledgerVars)
  <1>1. CASE Fails(w)
    BY <1>1, FailsPromise
  <1>2. CASE ~Fails(w)
    <2>1. PICK pc \in Pcs \ AdmittedPcs : Goto(w, pc)
      <3>1. {"findNext", "return", "addStepJob", "commit", "selectPage", "addBulk"}
               \subseteq Pcs \ AdmittedPcs
        BY DEF Pcs, EntryPcs, BulkPcs, StepPcs, ActPcs, AdmittedPcs
      <3> QED
        BY <1>2, <3>1 DEF FindTrigger, FindNext, AddStepJob, Commit, FindStep, SelectPage, AddBulk
    <2>2. worker[w].pc \notin AdmittedPcs
      BY DEF FindTrigger, FindNext, AddStepJob, Commit, FindStep, SelectPage, AddBulk,
             StepPcs, ActPcs, AdmittedPcs
    <2>3. worker'[w].pc = pc /\ \A v \in Workers : v # w => worker'[v] = worker[v]
      BY <2>1, GoesOn DEF Goto, AutomationInv, SharedInv, AutomationTypeOK
    <2>4. Admitted' = Admitted
      BY <2>1, <2>2, <2>3, AdmittedNext
    <2>5. UNCHANGED <<acted, recorded>> /\ entered \subseteq entered'
      BY <1>2 DEF FindTrigger, FindNext, AddStepJob, Commit, FindStep, SelectPage, AddBulk, ledgerVars
    <2>6. Ledger \subseteq Ledger'
      BY <2>5 DEF Ledger
    <2>7. Ledger' \subseteq Contacts \X (Steps \cup {NoStep})
      <3>1. AutomationTypeOK'
        BY DEF AutomationInv, SharedInv
      <3>2. (AutomationTypeOK => Ledger \subseteq Contacts \X (Steps \cup {NoStep}))'
        BY LedgerSubjects, PTL
      <3> QED
        BY <3>1, <3>2
    <2>8. Promise!Mark
      BY <2>4, <2>5, <2>6, <2>7 DEF Promise!Mark
    <2> QED
      BY <2>8 DEF Promise!Next
  <1> QED
    BY <1>1, <1>2

\* Steps of the handler of a step that neither act nor record.
LEMMA SteppingPromise ==
  ASSUME AutomationInv, NEW w \in Workers, NEW pc \in Pcs,
         worker[w].pc \in AdmittedPcs, pc \in AdmittedPcs, Goto(w, pc), UNCHANGED ledgerVars
  PROVE  [Promise!Next]_(Promise!ledgerVars)
  <1>1. worker'[w].pc = pc /\ Attempt(w)' = Attempt(w)
        /\ \A v \in Workers : v # w => worker'[v] = worker[v]
    BY GoesOn DEF Goto, AutomationInv, SharedInv, AutomationTypeOK
  <1> QED
    BY <1>1, AdmittedNext, LedgerStutters

\* Steps of the handler of a step.
LEMMA StepPromise ==
  ASSUME AutomationInv, NEW w \in Workers,
         \/ LoadStep(w) \/ ReadTags(w) \/ InsertTags(w) \/ DetachTags(w)
         \/ FindEmail(w) \/ SendMail(w) \/ SetKey(w) \/ Record(w)
  PROVE  [Promise!Next]_(Promise!ledgerVars)
  <1>1. {"readTags", "insertTags", "detachTags", "findEmail", "sendMail", "setKey", "record"}
           \subseteq Pcs \cap AdmittedPcs
        /\ {"insertTags", "detachTags", "findEmail", "sendMail"} \subseteq ActPcs
    BY DEF Pcs, StepPcs, ActPcs, AdmittedPcs
  <1>2. CASE LoadStep(w)
    BY <1>2, LoadStepPromise
  <1>3. CASE ReadTags(w)
    BY <1>1, <1>3, SteppingPromise DEF ReadTags
  <1>4. CASE InsertTags(w)
    BY <1>1, <1>4, FailsPromise, ActPromise DEF InsertTags
  <1>5. CASE DetachTags(w)
    BY <1>1, <1>5, ActPromise DEF DetachTags
  <1>6. CASE FindEmail(w)
    BY <1>1, <1>6, ActPromise, SteppingPromise DEF FindEmail, ledgerVars
  <1>7. CASE SendMail(w)
    BY <1>1, <1>7, ActPromise DEF SendMail
  <1>8. CASE SetKey(w)
    BY <1>1, <1>8, SteppingPromise DEF SetKey
  <1>9. CASE Record(w)
    BY <1>9, RecordPromise
  <1> QED
    BY <1>2, <1>3, <1>4, <1>5, <1>6, <1>7, <1>8, <1>9

\* At first nobody is admitted.
LEMMA PromiseInit == Init => Promise!Init
  <1> SUFFICES ASSUME Init PROVE Promise!Init
    OBVIOUS
  <1>1. Ledger \subseteq Contacts \X (Steps \cup {NoStep})
    BY AutomationInvInit, LedgerSubjects DEF AutomationInv, SharedInv
  <1>2. Admitted = {}
    BY IdleRecord, PcSets DEF Init, Admitted
  <1> QED
    BY <1>1, <1>2 DEF Promise!Init, Init

\* Every step is one of StepLedger, or changes nothing there.
LEMMA PromiseStep ==
  AutomationInv /\ AutomationInv' /\ [Next]_vars => [Promise!Next]_(Promise!ledgerVars)
  <1> SUFFICES ASSUME AutomationInv, AutomationInv', [Next]_vars
               PROVE  [Promise!Next]_(Promise!ledgerVars)
    OBVIOUS
  <1>1. CASE UNCHANGED <<worker, ledgerVars>>
    BY <1>1, LedgerStutters DEF Admitted, Attempt, Entry
  <1>2. ASSUME NEW w \in Workers, HandlerStep(w)
        PROVE  [Promise!Next]_(Promise!ledgerVars)
    <2>1. CASE Succeed(w)
      <3>1. /\ \A v \in Workers : v # w => worker'[v] = worker[v]
            /\ worker'[w].pc = "idle" /\ UNCHANGED ledgerVars
        BY <2>1, IdleRecord
           DEF Succeed, SucceedJob, Settle, Leave, AutomationInv, SharedInv, AutomationTypeOK
      <3> QED
        BY <3>1, PcSets, LeavingPromise DEF AdmittedPcs
    <2> QED
      BY <1>2, <2>1, QueuingPromise, StepPromise DEF HandlerStep
  <1>3. ASSUME NEW w \in Workers, TakeAny(w)
        PROVE  [Promise!Next]_(Promise!ledgerVars)
    <2>1. PICK k \in Keys : Take(w, k)
      BY <1>3 DEF TakeAny
    <2>2. FirstPc(k) \in {"findTrigger", "findStep", "loadStep"}
      BY JobKinds DEF FirstPc, Keys
    <2>3. /\ \A v \in Workers : v # w => worker'[v] = worker[v]
          /\ worker'[w].pc = FirstPc(k) /\ UNCHANGED ledgerVars
      BY <2>1 DEF Take, TakeJob, AutomationInv, SharedInv, AutomationTypeOK
    <2>4. FirstPc(k) \notin AdmittedPcs
      BY <2>2 DEF AdmittedPcs, StepPcs, ActPcs
    <2> QED
      BY <2>3, <2>4, LeavingPromise
  <1>4. ASSUME NEW w \in Workers, HandlerThrows(w)
        PROVE  [Promise!Next]_(Promise!ledgerVars)
    BY <1>4, FailsPromise DEF HandlerThrows
  <1>5. ASSUME NEW w \in Workers, Crash(w)
        PROVE  [Promise!Next]_(Promise!ledgerVars)
    <2>1. /\ \A v \in Workers : v # w => worker'[v] = worker[v]
          /\ worker'[w].pc = "idle" /\ UNCHANGED ledgerVars
      BY <1>5, IdleRecord
         DEF Crash, CrashWorker, Leave, AutomationInv, SharedInv, AutomationTypeOK
    <2> QED
      BY <2>1, PcSets, LeavingPromise DEF AdmittedPcs
  <1>6. ASSUME NEW w \in Workers, LoseLock(w)
        PROVE  UNCHANGED <<worker, ledgerVars>>
    BY <1>6 DEF LoseLock, ExpireLock
  <1>7. CASE RecoverAny
    BY <1>1, <1>7 DEF RecoverAny, Recover, RecoverJob
  <1>8. ASSUME NEW s \in Steps,
               InsertStep(s) \/ AbortStep(s) \/ \E p \in Steps \cup {NoStep} : CheckStep(s, p)
        PROVE  UNCHANGED <<worker, ledgerVars>>
    BY <1>8 DEF InsertStep, AbortStep, CheckStep, queueVars
  <1>9. ASSUME NEW t \in Tags,
               DeleteTag(t) \/ \E c \in Contacts : TagContact(c, t) \/ UntagContact(c, t)
        PROVE  UNCHANGED <<worker, ledgerVars>>
    BY <1>9 DEF DeleteTag, TagContact, UntagContact, queueVars
  <1>10. CASE UNCHANGED vars
    BY <1>1, <1>10 DEF vars, ledgerVars
  <1> QED
    BY <1>1, <1>2, <1>3, <1>4, <1>5, <1>6, <1>7, <1>8, <1>9, <1>10 DEF Next

-----------------------------------------------------------------------------
(* Theorems *)

\* The strengthening that every property below rests on.
THEOREM AutomationInvariant == Spec => []AutomationInv
  BY AutomationInvInit, AutomationInvStep, PTL DEF Spec

\* Variables have their types.
THEOREM AutomationTypeCorrect == Spec => []AutomationTypeOK
  <1>1. AutomationInv => AutomationTypeOK
    BY DEF AutomationInv, SharedInv
  <1> QED
    BY <1>1, AutomationInvariant, PTL

\* A step's job that completed leaves a row in the ledger, however often it was
\* retried or run twice.
THEOREM CompletedJobsLeaveRows == Spec => []CompletedLeavesRow
  <1>1. AutomationInv => CompletedLeavesRow
    BY DEF AutomationInv, SharedInv
  <1> QED
    BY <1>1, AutomationInvariant, PTL

\* A contact whose entry is committed has a job on the queue.
THEOREM EnteredContactsHaveJobs == Spec => []EnteredHasJob
  <1>1. AutomationInv => EnteredHasJob
    BY DEF AutomationInv, SharedInv
  <1> QED
    BY <1>1, AutomationInvariant, PTL

\* A recorded step about tags left them on the contact, or they were taken off.
THEOREM RecordedStepsTagged == Spec => []TagsOfRecordedStep
  <1>1. AutomationInv => TagsOfRecordedStep
    BY DEF AutomationInv, SharedInv
  <1> QED
    BY <1>1, AutomationInvariant, PTL

\* Siblings are created by requests that overlapped.
THEOREM SiblingsWereConcurrent == Spec => []SiblingsOverlapped
  <1>1. AutomationInv => SiblingsOverlapped
    BY DEF AutomationInv, SharedInv, TreeOK, SiblingsOverlapped
  <1> QED
    BY <1>1, AutomationInvariant, PTL

\* The cursor of a completed paging job skipped nobody.
THEOREM PagesReachEveryone == Spec => []EveryPendingQueued
  <1>1. AutomationInv => EveryPendingQueued
    BY DEF AutomationInv, SharedInv
  <1> QED
    BY <1>1, AutomationInvariant, PTL

\* Jobs implement the ledger of steps: each attempt was admitted, acts once, and
\* records after it acted.
THEOREM JobsKeepLedger == Spec => KeepsLedger
  <1>1. AutomationInv /\ AutomationInv' /\ [Next]_vars => [Promise!Next]_(Promise!ledgerVars)
    BY PromiseStep
  <1> QED
    BY <1>1, PromiseInit, AutomationInvariant, PTL DEF Spec, KeepsLedger, Promise!Spec
=============================================================================
