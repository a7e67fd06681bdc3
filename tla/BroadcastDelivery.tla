-------------------------- MODULE BroadcastDelivery --------------------------
(***************************************************************************)
(* The workers' side of a broadcast, from the job a send request queued to *)
(* the mails and the Redis keys that record them:                          *)
(*   SendBroadcastJob        pages through the audience and queues one     *)
(*                           SendBroadcastToContact per contact            *)
(*   SendBroadcastToContact  mails one contact, then records the message   *)
(*   WorkerIgnitor           runs a handler and settles its job            *)
(* A handler is split at its awaits.  Between them other workers run, the  *)
(* row and the contacts change, the process may die, and its lock may run  *)
(* out while it goes on (a straggler whose settling BullMQ then ignores).  *)
(***************************************************************************)
EXTENDS BroadcastState

CONSTANTS
    Contacts,        \* the contacts that may come to match a filter
    Movers,          \* those of them that may start or stop matching while jobs run
    BatchSize,       \* 75 in SendBroadcastJob
    ContactAttempts  \* attempts of a SendBroadcastToContact job, 3

ASSUME DeliveryAssumption ==
    /\ IsFiniteSet(Contacts)
    /\ Movers \subseteq Contacts
    /\ BatchSize \in Nat \ {0}
    /\ ContactAttempts \in Nat \ {0}

VARIABLES
    matching,    \* matching[f]: the contacts the query of filter f returns now
    contactJob,  \* contactJob[k]: the SendBroadcastToContact jobs
    worker,      \* worker[w]: the handler w runs and where it stands
    page,        \* page[w]: the locals of a SendBroadcastJob handler
    mailed,      \* mailed[k]: the entries of k that handed a mail to SMTP
    keyed        \* keyed[k]: the entries of k that set their Redis key

workerVars == <<contactJob, worker, page, mailed, keyed>>
deliveryVars == <<row, sendJob, abTestJob, matching, workerVars>>

-----------------------------------------------------------------------------
SendAttempts == 1          \* SendBroadcastJob is added without attempts
LastBatch == 1             \* totalBatches, and the loop runs to it inclusively
Batches == 0 .. LastBatch

\* A SendBroadcastToContact job is known by what queued it: the request, the
\* entry of its SendBroadcastJob (a stalled one is run again), batch, contact.
ContactJobs == [request: Requests, run: 1 .. MaxStarts(SendAttempts),
                batch: Batches, contact: Contacts]

ContactEntries == 1 .. MaxStarts(ContactAttempts)

NoTask == [kind |-> "none"]
SendTasks == [kind: {"send"}, request: Requests]
ContactTasks == [kind: {"contact"}, key: ContactJobs]
Tasks == {NoTask} \cup SendTasks \cup ContactTasks

SendPcs    == {"loadBroadcast", "selectBatch", "addBulk"}
ContactPcs == {"loadContact", "sendMail", "setKey"}
Pcs        == {"idle", "return"} \cup SendPcs \cup ContactPcs

Idle == [pc |-> "idle", task |-> NoTask, entry |-> 0]
BlankPage == [batch |-> 0, filter |-> NoFilter, ids |-> {}]

DeliveryTypeOK ==
    /\ matching \in [Filters -> SUBSET Contacts]
    /\ contactJob \in [ContactJobs -> Job]
    /\ worker \in [Workers -> [pc: Pcs, task: Tasks, entry: Nat]]
    /\ page \in [Workers -> [batch: Batches, filter: Filters \cup {NoFilter},
                             ids: SUBSET Contacts]]
    /\ mailed \in [ContactJobs -> SUBSET ContactEntries]
    /\ keyed \in [ContactJobs -> SUBSET ContactEntries]

DeliveryInit ==
    /\ matching \in [Filters -> SUBSET Contacts]
    /\ contactJob = [k \in ContactJobs |-> Absent]
    /\ worker = [w \in Workers |-> Idle]
    /\ page = [w \in Workers |-> BlankPage]
    /\ mailed = [k \in ContactJobs |-> {}]
    /\ keyed = [k \in ContactJobs |-> {}]

-----------------------------------------------------------------------------
(* Taking a job *)

Goto(w, pc) == worker' = [worker EXCEPT ![w].pc = pc]

TakeSend(w, r) ==
    /\ worker[w] = Idle
    /\ sendJob[r].state = "waiting"
    /\ sendJob' = [sendJob EXCEPT ![r] = Taken(@, w)]
    /\ worker' = [worker EXCEPT ![w] =
           [pc |-> "loadBroadcast", task |-> [kind |-> "send", request |-> r],
            entry |-> Starts(sendJob[r]) + 1]]
    /\ UNCHANGED <<row, abTestJob, matching, contactJob, page, mailed, keyed>>

TakeContact(w, k) ==
    /\ worker[w] = Idle
    /\ contactJob[k].state = "waiting"
    /\ contactJob' = [contactJob EXCEPT ![k] = Taken(@, w)]
    /\ worker' = [worker EXCEPT ![w] =
           [pc |-> "loadContact", task |-> [kind |-> "contact", key |-> k],
            entry |-> Starts(contactJob[k]) + 1]]
    /\ UNCHANGED <<row, sendJob, abTestJob, matching, page, mailed, keyed>>

\* registerJobs does not know SendAbTestBroadcastJob: processJob returns and
\* BullMQ completes the job.
DropAbTestJob(r) ==
    /\ abTestJob[r].state = "waiting"
    /\ abTestJob' = [abTestJob EXCEPT ![r] = Completed(@)]
    /\ UNCHANGED <<row, sendJob, matching, workerVars>>

-----------------------------------------------------------------------------
(* The end of WorkerIgnitor.processJob *)

\* Mutant: a worker settles its job whether or not it holds the lock.
SettledByAnyone(job, w, outcome) == outcome

\* BullMQ ignores the outcome a worker reports for a job it lost the lock of.
SettledBy(job, w, outcome) == IF job.lock = w THEN outcome ELSE job

\* Mutant: the locals of a handler outlive it.
LeaveKeepingPage(w) ==
    /\ worker' = [worker EXCEPT ![w] = Idle]
    /\ UNCHANGED page

Leave(w) ==
    /\ worker' = [worker EXCEPT ![w] = Idle]
    /\ page' = [page EXCEPT ![w] = BlankPage]

\* The handler returned success.
Succeed(w) ==
    LET task == worker[w].task
    IN  /\ worker[w].pc = "return"
        /\ \/ /\ task.kind = "send"
              /\ sendJob' = [sendJob EXCEPT ![task.request] =
                                 SettledBy(@, w, Completed(@))]
              /\ UNCHANGED contactJob
           \/ /\ task.kind = "contact"
              /\ contactJob' = [contactJob EXCEPT ![task.key] =
                                    SettledBy(@, w, Completed(@))]
              /\ UNCHANGED sendJob
        /\ Leave(w)
        /\ UNCHANGED <<row, abTestJob, matching, mailed, keyed>>

\* The handler returned success: false, which processJob throws, or threw.
FailAttempt(w) ==
    LET task == worker[w].task
    IN  /\ \/ /\ task.kind = "send"
              /\ sendJob' = [sendJob EXCEPT ![task.request] =
                                 SettledBy(@, w, AttemptFailed(@, SendAttempts))]
              /\ UNCHANGED contactJob
           \/ /\ task.kind = "contact"
              /\ contactJob' = [contactJob EXCEPT ![task.key] =
                                    SettledBy(@, w, AttemptFailed(@, ContactAttempts))]
              /\ UNCHANGED sendJob
        /\ Leave(w)

\* Any await of a handler may reject.
HandlerThrows(w) ==
    /\ worker[w].pc \in SendPcs \cup ContactPcs
    /\ FailAttempt(w)
    /\ UNCHANGED <<row, abTestJob, matching, mailed, keyed>>

-----------------------------------------------------------------------------
(* SendBroadcastJob.handle *)

LoadBroadcast(w) ==
    /\ worker[w].pc = "loadBroadcast"
    /\ \/ /\ ~row.exists
          /\ FailAttempt(w)
       \/ /\ row.exists
          /\ Goto(w, "selectBatch")
          /\ page' = [page EXCEPT ![w] = [BlankPage EXCEPT !.filter = row.filter]]
          /\ UNCHANGED <<sendJob, contactJob>>
    /\ UNCHANGED <<row, abTestJob, matching, mailed, keyed>>

Least(a, b) == IF a < b THEN a ELSE b

\* LIMIT BatchSize OFFSET batch * BatchSize over n rows.
PageSize(n, batch) ==
    IF n > batch * BatchSize THEN Least(BatchSize, n - batch * BatchSize) ELSE 0

\* Mutant: pages are counted from one.
SelectNextBatch(w) ==
    LET found == matching[page[w].filter]
    IN  /\ worker[w].pc = "selectBatch"
        /\ \E ids \in SUBSET found :
              /\ Cardinality(ids) = PageSize(Cardinality(found), page[w].batch + 1)
              /\ page' = [page EXCEPT ![w].ids = ids]
        /\ Goto(w, "addBulk")
        /\ UNCHANGED <<row, sendJob, abTestJob, matching, contactJob, mailed, keyed>>

\* The query has no ORDER BY: each page may be any rows, of the right number.
SelectBatch(w) ==
    LET found == matching[page[w].filter]
    IN  /\ worker[w].pc = "selectBatch"
        /\ \E ids \in SUBSET found :
              /\ Cardinality(ids) = PageSize(Cardinality(found), page[w].batch)
              /\ page' = [page EXCEPT ![w].ids = ids]
        /\ Goto(w, "addBulk")
        /\ UNCHANGED <<row, sendJob, abTestJob, matching, contactJob, mailed, keyed>>

\* The jobs the handler of w queues for the page it holds.
PageJobs(w) ==
    {[request |-> worker[w].task.request, run |-> worker[w].entry,
      batch |-> page[w].batch, contact |-> c] : c \in page[w].ids}

AddBulk(w) ==
    /\ worker[w].pc = "addBulk"
    /\ contactJob' = [k \in ContactJobs |->
                         IF k \in PageJobs(w) THEN Added ELSE contactJob[k]]
    /\ \/ /\ page[w].batch < LastBatch
          /\ page' = [page EXCEPT ![w].batch = @ + 1, ![w].ids = {}]
          /\ Goto(w, "selectBatch")
       \/ /\ page[w].batch = LastBatch
          /\ page' = [page EXCEPT ![w] = BlankPage]
          /\ Goto(w, "return")
    /\ UNCHANGED <<row, sendJob, abTestJob, matching, mailed, keyed>>

-----------------------------------------------------------------------------
(* SendBroadcastToContact.handle *)

\* Mutant: the job brings along the content that SendBroadcastJob loaded.
LoadContactFromJob(w) ==
    /\ worker[w].pc = "loadContact"
    /\ Goto(w, "sendMail")
    /\ UNCHANGED <<row, sendJob, abTestJob, matching, contactJob, page, mailed, keyed>>

\* A missing row fails, a row without content throws, and Mailer refuses a mail
\* whose subject is missing, which partial content may lack.
LoadContact(w) ==
    /\ worker[w].pc = "loadContact"
    /\ \/ /\ row.content # "complete"
          /\ FailAttempt(w)
       \/ /\ row.content \in {"partial", "complete"}
          /\ Goto(w, "sendMail")
          /\ UNCHANGED <<sendJob, contactJob, page>>
    /\ UNCHANGED <<row, abTestJob, matching, mailed, keyed>>

\* The server takes the mail, or sendMail rejects.  A rejection after the server
\* took it (a lost reply) is this step followed by HandlerThrows.
SendMail(w) ==
    /\ worker[w].pc = "sendMail"
    /\ \/ /\ mailed' = [mailed EXCEPT ![worker[w].task.key] = @ \cup {worker[w].entry}]
          /\ Goto(w, "setKey")
          /\ UNCHANGED <<sendJob, contactJob, page>>
       \/ /\ FailAttempt(w)
          /\ UNCHANGED mailed
    /\ UNCHANGED <<row, abTestJob, matching, keyed>>

\* redis.set(messageId, BROADCAST:broadcast:contact), with a fresh messageId.
SetKey(w) ==
    /\ worker[w].pc = "setKey"
    /\ keyed' = [keyed EXCEPT ![worker[w].task.key] = @ \cup {worker[w].entry}]
    /\ Goto(w, "return")
    /\ UNCHANGED <<row, sendJob, abTestJob, matching, contactJob, page, mailed>>

-----------------------------------------------------------------------------
(* What can happen to a worker *)

\* The jobs w holds a lock on lose it.
ReleaseLocks(w) ==
    /\ sendJob' = [r \in Requests |->
           IF sendJob[r].lock = w THEN Unlocked(sendJob[r]) ELSE sendJob[r]]
    /\ contactJob' = [k \in ContactJobs |->
           IF contactJob[k].lock = w THEN Unlocked(contactJob[k]) ELSE contactJob[k]]

\* The worker process dies and is started again.
Crash(w) ==
    /\ worker[w] # Idle
    /\ Leave(w)
    /\ ReleaseLocks(w)
    /\ UNCHANGED <<row, abTestJob, matching, mailed, keyed>>

\* The lock runs out under a handler that goes on.
LoseLock(w) ==
    /\ \/ \E r \in Requests : sendJob[r].lock = w
       \/ \E k \in ContactJobs : contactJob[k].lock = w
    /\ ReleaseLocks(w)
    /\ UNCHANGED <<row, abTestJob, matching, worker, page, mailed, keyed>>

RecoverSend(r) ==
    /\ Stalled(sendJob[r])
    /\ sendJob' = [sendJob EXCEPT ![r] = Recovered(@)]
    /\ UNCHANGED <<row, abTestJob, matching, workerVars>>

RecoverContact(k) ==
    /\ Stalled(contactJob[k])
    /\ contactJob' = [contactJob EXCEPT ![k] = Recovered(@)]
    /\ UNCHANGED <<row, sendJob, abTestJob, matching, worker, page, mailed, keyed>>

\* A contact is created, or an update of it changes which filters it matches.
ChangeContact(c, f) ==
    /\ matching' = [matching EXCEPT ![f] =
           IF c \in @ THEN @ \ {c} ELSE @ \cup {c}]
    /\ UNCHANGED <<row, sendJob, abTestJob, workerVars>>

-----------------------------------------------------------------------------
HandlerStep(w) ==
    \/ LoadBroadcast(w) \/ SelectBatch(w) \/ AddBulk(w)
    \/ LoadContact(w) \/ SendMail(w) \/ SetKey(w)
    \/ Succeed(w)

Take(w) ==
    \/ \E r \in Requests : TakeSend(w, r)
    \/ \E k \in ContactJobs : TakeContact(w, k)

Recover ==
    \/ \E r \in Requests : RecoverSend(r)
    \/ \E k \in ContactJobs : RecoverContact(k)

DeliveryNext ==
    \/ \E w \in Workers :
          HandlerStep(w) \/ Take(w) \/ HandlerThrows(w) \/ Crash(w) \/ LoseLock(w)
    \/ Recover
    \/ \E r \in Requests : DropAbTestJob(r)
    \/ \E c \in Movers, f \in Filters : ChangeContact(c, f)

-----------------------------------------------------------------------------
(* What the HTTP side does meanwhile; Broadcasts composes the real one.     *)

QueueSend(r) ==
    /\ sendJob[r] = Absent
    /\ abTestJob[r] = Absent
    /\ sendJob' = [sendJob EXCEPT ![r] = Added]
    /\ UNCHANGED <<row, abTestJob, matching, workerVars>>

QueueAbTest(r) ==
    /\ sendJob[r] = Absent
    /\ abTestJob[r] = Absent
    /\ abTestJob' = [abTestJob EXCEPT ![r] = Added]
    /\ UNCHANGED <<row, sendJob, matching, workerVars>>

DeleteRow ==
    /\ row.exists
    /\ row' = Deleted
    /\ UNCHANGED <<sendJob, abTestJob, matching, workerVars>>

HttpStep ==
    \/ DeleteRow
    \/ \E r \in Requests : QueueSend(r) \/ QueueAbTest(r)

DeliveryStart == StateInit /\ DeliveryInit

DeliverySpec == DeliveryStart /\ [][DeliveryNext \/ HttpStep]_deliveryVars

\* A worker that lives goes on with its handler and takes the next job; the
\* stalled check runs on a timer in every worker.
DeliveryFairness ==
    /\ \A w \in Workers : WF_deliveryVars(HandlerStep(w)) /\ WF_deliveryVars(Take(w))
    /\ WF_deliveryVars(Recover)

FairDeliverySpec == DeliverySpec /\ DeliveryFairness

-----------------------------------------------------------------------------
(* Properties *)

(***************************************************************************)
(* Type invariant.  That mailed and keyed stay within ContactEntries is    *)
(* the bound on duplicates: a queued contact is mailed at most             *)
(* attempts + maxStalledCount times, whatever crashes and stragglers do.   *)
(***************************************************************************)
QueueTypeOK == StateTypeOK /\ DeliveryTypeOK

\* What the system says of a SendBroadcastToContact job.
ReportOf(job) ==
    CASE job.state = "absent"                -> "none"
      [] job.state \in {"waiting", "active"} -> "pending"
      [] job.state = "completed"             -> "done"
      [] job.state = "failed"                -> "failed"

Report == [k \in ContactJobs |-> ReportOf(contactJob[k])]

Promise == INSTANCE DeliveryPromise
    WITH Tasks    <- ContactJobs,
         MaxSends <- MaxStarts(ContactAttempts),
         report   <- Report,
         sent     <- mailed,
         recorded <- keyed

(***************************************************************************)
(* The workers keep the promise of DeliveryPromise: every entry of a       *)
(* handler sends at most one mail, a Redis key is set only for a mail that *)
(* was sent, a job completes only with its mail sent and its key set, and  *)
(* a straggler that lost its lock never changes a job's outcome.           *)
(***************************************************************************)
KeepsPromise == Promise!Spec

\* A handler of k loaded the broadcast and has not ended.
PastLoad(k) ==
    \E w \in Workers :
        worker[w].task = [kind |-> "contact", key |-> k] /\ worker[w].pc # "loadContact"

(***************************************************************************)
(* Once the broadcast is deleted, a contact is mailed only by a handler    *)
(* that had loaded it before.  When there is none, no retry, no re-run of  *)
(* a stalled job, no straggler and no job that is queued later mails the   *)
(* contact or completes: the jobs have to fail.                            *)
(***************************************************************************)
NoMailOnceDeleted ==
    [][\A k \in ContactJobs :
          ~row.exists /\ ~PastLoad(k) =>
              /\ ~row'.exists /\ ~PastLoad(k)'
              /\ mailed'[k] = mailed[k]
              /\ contactJob'[k].state = "completed" => contactJob[k].state = "completed"
      ]_deliveryVars

\* The contact jobs entry n of request r's SendBroadcastJob queued.
QueuedBy(r, n) ==
    {k \in ContactJobs : k.request = r /\ k.run = n /\ contactJob[k] # Absent}

\* The contacts two pages over an audience of n hold.
InPages(n) == PageSize(n, 0) + PageSize(n, 1)

(***************************************************************************)
(* A SendBroadcastJob that completed queued, in one of its entries, as     *)
(* many contact jobs as two pages over the audience hold, give or take the *)
(* contacts that came or went: no crash, straggler or re-run leaves a page *)
(* missing or cut short in the entry that is reported done.                *)
(***************************************************************************)
CompletedRunIsWhole ==
    \A r \in Requests :
        sendJob[r].state = "completed" =>
            \E n \in 1 .. Starts(sendJob[r]), f \in Filters :
                LET queued == Cardinality(QueuedBy(r, n))
                IN  /\ queued >= InPages(Cardinality(matching[f] \ Movers))
                    /\ queued <= InPages(Cardinality(matching[f] \cup Movers))

(***************************************************************************)
(* Every queued job is settled, whichever handlers throw, workers die and  *)
(* locks expire: attempts and stalls run out, and the stalled check        *)
(* returns what a dead worker held.                                        *)
(***************************************************************************)
EveryJobSettles ==
    /\ \A r \in Requests : sendJob[r] # Absent ~> Settled(sendJob[r])
    /\ \A k \in ContactJobs : contactJob[k] # Absent ~> Settled(contactJob[k])

(***************************************************************************)
(* "for each contact, queues a SendBroadcastToContact job" (readme.md): a  *)
(* completed SendBroadcastJob queued at least as many jobs as contacts     *)
(* matched the broadcast's filter all along.  The loop stops after its     *)
(* second page, so an audience of more than 2 * BatchSize is cut short.    *)
(***************************************************************************)
EveryContactQueued ==
    \A r \in Requests :
        sendJob[r].state = "completed" =>
            \E f \in Filters :
                Cardinality({k \in ContactJobs : k.request = r /\ contactJob[k] # Absent})
                    >= Cardinality(matching[f] \ Movers)
=============================================================================
