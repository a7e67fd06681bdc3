----------------------------- MODULE Automations -----------------------------
(***************************************************************************)
(* src/automations: authors build a tree of steps, and three kinds of jobs *)
(* on the "automations" queue take contacts through it:                    *)
(*   RunAutomationForContactJob      a contact that matches the trigger    *)
(*                                   enters: the row of its first step is  *)
(*                                   inserted and the step's job queued    *)
(*   RunAutomationStepJob            pages, by cursor, through the         *)
(*                                   contacts pending at a step            *)
(*   RunAutomationStepForContactJob  runs one step for one contact         *)
(* Handlers are split at their awaits.  A step's own job carries the id of *)
(* the step when the first job queued it, and none when the second did.    *)
(***************************************************************************)
EXTENDS JobWorkers, Segments

CONSTANTS
    Steps,          \* the steps authors may create, each by one request
    NoStep,         \* no parent; no automationStepId in a payload
    Kind,           \* Kind[s]: the subtype of the step
    TagsOf,         \* TagsOf[s]: configuration.tagIds of a step about tags
    SeededParent,   \* SeededParent[s]: the parent of a step that is there already
    TriggerFilter,  \* configuration.filterGroups of the trigger
    Contacts,       \* contact ids, which order the pages
    Columns,        \* Columns[c]: the text columns of the contact
    Tags,
    Entries,        \* the RunAutomationForContactJobs
    EntryContact,   \* EntryContact[e]: payload.contactId
    BulkSteps,      \* the steps a RunAutomationStepJob is queued for
    Pending,        \* the contacts and steps with a row whose status is PENDING
    BatchSize,      \* 75 in RunAutomationStepJob
    PagedAttempts   \* 3: the attempts of the jobs RunAutomationStepJob adds

RunnableKinds == {"ACTION_ADD_TAG", "ACTION_REMOVE_TAG", "ACTION_SEND_EMAIL"}

ASSUME AutomationAssumption ==
    /\ NoStep \notin Steps
    /\ DOMAIN SeededParent \subseteq Steps
    /\ \A s \in DOMAIN SeededParent : SeededParent[s] \in Steps \cup {NoStep}
    /\ \A s, t \in DOMAIN SeededParent :
          (s # t /\ SeededParent[s] # NoStep) => SeededParent[s] # SeededParent[t]
    /\ Contacts \subseteq Nat \ {0}
    /\ IsFiniteSet(Contacts)
    /\ EntryContact \in [Entries -> Contacts]
    /\ BulkSteps \subseteq Steps
    /\ Entries \cap Steps = {}
    /\ Pending \subseteq Contacts \X Steps
    /\ TagsOf \in [Steps -> SUBSET Tags]
    /\ BatchSize \in Nat \ {0}
    /\ PagedAttempts \in Nat \ {0}

VARIABLES
    author,     \* author[s]: the request that creates step s
    tags,       \* the rows of the tags table
    tagged,     \* tagged[c]: the tags on contact c
    lost,       \* lost[c]: the tags that were taken off c at some time
    locals,     \* locals[w]: what the handler of w holds across its awaits
    entered,    \* the rows RunAutomationForContactJob committed
    acted,      \* the attempts whose step was carried out
    recorded    \* the attempts that inserted their row

treeVars == <<author>>
audienceVars == <<tags, tagged, lost>>
queueVars == <<job, worker>>
ledgerVars == <<entered, acted, recorded>>
vars == <<author, tags, tagged, lost, job, worker, locals, entered, acted, recorded>>

-----------------------------------------------------------------------------
(* Jobs *)

OneAttempt == 1
Runs == 1 .. MaxStarts(OneAttempt)

\* What a RunAutomationStepForContactJob was queued by: the job, and which of
\* its runs (a stalled one is run again and queues another).
StepJobs ==
    {k \in [kind: {"step"}, origin: Entries \cup BulkSteps, run: Runs,
            step: Steps \cup {NoStep}, contact: Contacts] :
        \/ /\ k.origin \in Entries
           /\ k.step \in Steps
           /\ k.contact = EntryContact[k.origin]
        \/ /\ k.origin \in BulkSteps
           /\ k.step = NoStep
           /\ <<k.contact, k.origin>> \in Pending}

EntryJobs == [kind: {"entry"}, origin: Entries]
BulkJobs  == [kind: {"bulk"}, origin: BulkSteps]
Keys      == EntryJobs \cup BulkJobs \cup StepJobs

AttemptsOf(k) ==
    IF k.kind = "step" /\ k.origin \in BulkSteps THEN PagedAttempts ELSE OneAttempt

Attempts == StepJobs \X (1 .. MaxStarts(OneAttempt) \cup 1 .. MaxStarts(PagedAttempts))

Attempt(w) == <<worker[w].key, Entry(w)>>

EntryPcs == {"findTrigger", "findNext", "addStepJob", "commit"}
BulkPcs  == {"findStep", "selectPage", "addBulk"}
ActPcs   == {"readTags", "insertTags", "detachTags", "findEmail", "sendMail"}
StepPcs  == {"loadStep", "setKey", "record"} \cup ActPcs
Pcs      == {"idle", "return"} \cup EntryPcs \cup BulkPcs \cup StepPcs

Blank == [step |-> NoStep, cursor |-> 0, ids |-> {}, tags |-> {}]

-----------------------------------------------------------------------------
(* The steps of the automation *)

AuthorStates == {"absent", "checked", "created"}

Created(s) == author[s].pc = "created"

\* The request that creates s knows the steps it found when it was validated.
NoAuthor == [pc |-> "absent", parent |-> NoStep, seen |-> {}]

ChildrenOf(p) == {s \in Steps : Created(s) /\ author[s].parent = p}

AutomationTypeOK ==
    /\ author \in [Steps -> [pc: AuthorStates, parent: Steps \cup {NoStep},
                             seen: SUBSET Steps]]
    /\ tags \subseteq Tags
    /\ tagged \in [Contacts -> SUBSET Tags]
    /\ lost \in [Contacts -> SUBSET Tags]
    /\ job \in [Keys -> Job]
    /\ worker \in [Workers -> [pc: Pcs, key: Keys \cup {NoKey}, entry: Nat]]
    /\ locals \in [Workers -> [step: Steps \cup {NoStep}, cursor: Nat,
                               ids: SUBSET Contacts, tags: SUBSET Tags]]
    /\ entered \subseteq [origin: Entries, run: Runs, step: Steps]
    /\ acted \subseteq Attempts
    /\ recorded \subseteq Attempts

Init ==
    /\ author = [s \in Steps |->
           IF s \in DOMAIN SeededParent
             THEN [pc |-> "created", parent |-> SeededParent[s], seen |-> {}]
             ELSE NoAuthor]
    /\ tags = Tags
    /\ tagged \in [Contacts -> SUBSET Tags]
    /\ lost = [c \in Contacts |-> {}]
    /\ job = [k \in Keys |-> IF k \in StepJobs THEN Absent ELSE Added]
    /\ worker = [w \in Workers |-> Idle]
    /\ locals = [w \in Workers |-> Blank]
    /\ entered = {}
    /\ acted = {}
    /\ recorded = {}

-----------------------------------------------------------------------------
(* POST /audiences/:audienceId/automations/:automationId/steps *)

\* Mutant: that the parent has a child already is not asked.
ParentFits(p) == p # NoStep => Created(p)

\* CreateAutomationStepDto: the parent exists, and no step names it yet.
ParentFree(p) == p # NoStep => (Created(p) /\ ChildrenOf(p) = {})

CheckStep(s, p) ==
    /\ author[s].pc = "absent"
    /\ ParentFree(p)
    /\ author' = [author EXCEPT ![s] =
           [pc |-> "checked", parent |-> p, seen |-> {t \in Steps : Created(t)}]]
    /\ UNCHANGED <<audienceVars, queueVars, locals, ledgerVars>>

InsertStep(s) ==
    /\ author[s].pc = "checked"
    /\ author' = [author EXCEPT ![s].pc = "created"]
    /\ UNCHANGED <<audienceVars, queueVars, locals, ledgerVars>>

\* The insert fails, and the request may be made again.
AbortStep(s) ==
    /\ author[s].pc = "checked"
    /\ author' = [author EXCEPT ![s] = NoAuthor]
    /\ UNCHANGED <<audienceVars, queueVars, locals, ledgerVars>>

-----------------------------------------------------------------------------
(* What requests do to tags meanwhile *)

\* An attach request, or an import, puts a tag on a contact.
TagContact(c, t) ==
    /\ t \in tags \ tagged[c]
    /\ tagged' = [tagged EXCEPT ![c] = @ \cup {t}]
    /\ UNCHANGED <<tags, lost, treeVars, queueVars, locals, ledgerVars>>

UntagContact(c, t) ==
    /\ t \in tagged[c]
    /\ tagged' = [tagged EXCEPT ![c] = @ \ {t}]
    /\ lost' = [lost EXCEPT ![c] = @ \cup {t}]
    /\ UNCHANGED <<tags, treeVars, queueVars, locals, ledgerVars>>

\* The foreign key keeps a tag that a contact holds.
DeleteTag(t) ==
    /\ t \in tags
    /\ \A c \in Contacts : t \notin tagged[c]
    /\ tags' = tags \ {t}
    /\ UNCHANGED <<tagged, lost, treeVars, queueVars, locals, ledgerVars>>

-----------------------------------------------------------------------------
(* WorkerIgnitor.processJob *)

FirstPc(k) ==
    CASE k.kind = "entry" -> "findTrigger"
      [] k.kind = "bulk"  -> "findStep"
      [] k.kind = "step"  -> "loadStep"

Forget(w) == locals' = [locals EXCEPT ![w] = Blank]

Take(w, k) ==
    /\ TakeJob(w, k, FirstPc(k))
    /\ UNCHANGED <<treeVars, audienceVars, locals, ledgerVars>>

Succeed(w) ==
    /\ worker[w].pc = "return"
    /\ SucceedJob(w)
    /\ Forget(w)
    /\ UNCHANGED <<treeVars, audienceVars, ledgerVars>>

\* The handler fails or throws; nothing else of the step changes.
Fails(w) ==
    /\ FailJob(w, AttemptsOf(worker[w].key))
    /\ Forget(w)
    /\ UNCHANGED <<treeVars, audienceVars, ledgerVars>>

\* Any await of a handler may reject.
HandlerThrows(w) ==
    /\ worker[w].pc \notin {"idle", "return"}
    /\ Fails(w)

-----------------------------------------------------------------------------
(* RunAutomationForContactJob.handle *)

Triggers == {s \in Steps : Created(s) /\ Kind[s] = "TRIGGER"}

ContactRow(c) ==
    [email |-> Columns[c].email, firstName |-> Columns[c].firstName,
     lastName |-> Columns[c].lastName, tags |-> tagged[c]]

EntryOf(w) == worker[w].key.origin

FindTrigger(w) ==
    /\ worker[w].pc = "findTrigger"
    /\ \/ Triggers = {} /\ Fails(w)
       \/ \E t \in Triggers :
             IF Selects(TriggerFilter, ContactRow(EntryContact[EntryOf(w)]))
               THEN /\ Goto(w, "findNext")
                    /\ locals' = [locals EXCEPT ![w].step = t]
                    /\ UNCHANGED <<treeVars, audienceVars, job, ledgerVars>>
               ELSE /\ Goto(w, "return")
                    /\ UNCHANGED <<treeVars, audienceVars, job, locals, ledgerVars>>

FindNext(w) ==
    LET next == ChildrenOf(locals[w].step)
    IN  /\ worker[w].pc = "findNext"
        /\ \/ next = {} /\ Fails(w)
           \/ \E s \in next :
                 /\ Goto(w, "addStepJob")
                 /\ locals' = [locals EXCEPT ![w].step = s]
                 /\ UNCHANGED <<treeVars, audienceVars, job, ledgerVars>>

\* The job the transaction of w queues.
QueuedStep(w) ==
    [kind |-> "step", origin |-> EntryOf(w), run |-> Entry(w),
     step |-> locals[w].step, contact |-> EntryContact[EntryOf(w)]]

\* Mutant: the row takes the automationStepId of the job that inserts it.
EnteredRowOfPayload(w) == [origin |-> EntryOf(w), run |-> Entry(w), step |-> NoStep]

EnteredRow(w) == [origin |-> EntryOf(w), run |-> Entry(w), step |-> locals[w].step]

\* Mutant: the transaction commits before the job is added.
CommitThenAdd(w) ==
    /\ worker[w].pc = "addStepJob"
    /\ entered' = entered \cup {EnteredRow(w)}
    /\ Goto(w, "commit")
    /\ UNCHANGED <<treeVars, audienceVars, job, locals, acted, recorded>>

\* Inside the transaction, after the insert: the row is not visible yet, the job is.
AddStepJob(w) ==
    /\ worker[w].pc = "addStepJob"
    /\ Add({QueuedStep(w)})
    /\ Goto(w, "commit")
    /\ UNCHANGED <<treeVars, audienceVars, locals, ledgerVars>>

\* A transaction that does not come to this rolled its row back.
Commit(w) ==
    /\ worker[w].pc = "commit"
    /\ entered' = entered \cup {EnteredRow(w)}
    /\ Goto(w, "return")
    /\ UNCHANGED <<treeVars, audienceVars, job, locals, acted, recorded>>

-----------------------------------------------------------------------------
(* RunAutomationStepJob.handle, with Paginator.next *)

FindStep(w) ==
    /\ worker[w].pc = "findStep"
    /\ IF Created(EntryOf(w))
         THEN /\ Goto(w, "selectPage")
              /\ UNCHANGED <<treeVars, audienceVars, job, locals, ledgerVars>>
         ELSE Fails(w)

\* The n smallest ids of a set of contacts.
Smallest(ids, n) == {c \in ids : Cardinality({d \in ids : d < c}) < n}

PendingAt(s) == {c \in Contacts : <<c, s>> \in Pending}

Largest(ids) == CHOOSE c \in ids : \A d \in ids : d <= c

\* Mutant: the cursor is the look-ahead row the page leaves out.
NextAfterLookahead(found, page) ==
    IF Cardinality(found) > BatchSize THEN Largest(Smallest(found, BatchSize + 1)) ELSE 0

\* result[size - 1]?.id: the last row of a full page, also when no row follows.
NextCursor(found, page) ==
    IF Cardinality(page) < BatchSize THEN 0 ELSE Largest(page)

SelectPage(w) ==
    LET found == {c \in PendingAt(EntryOf(w)) : c > locals[w].cursor}
        page  == Smallest(found, BatchSize)
    IN  /\ worker[w].pc = "selectPage"
        /\ locals' = [locals EXCEPT ![w].ids = page, ![w].cursor = NextCursor(found, page)]
        /\ Goto(w, "addBulk")
        /\ UNCHANGED <<treeVars, audienceVars, job, ledgerVars>>

\* The payload of these jobs has a contactId only.
PagedStep(w, c) ==
    [kind |-> "step", origin |-> EntryOf(w), run |-> Entry(w),
     step |-> NoStep, contact |-> c]

AddBulk(w) ==
    /\ worker[w].pc = "addBulk"
    /\ Add({PagedStep(w, c) : c \in locals[w].ids})
    /\ Goto(w, IF locals[w].cursor = 0 THEN "return" ELSE "selectPage")
    /\ UNCHANGED <<treeVars, audienceVars, locals, ledgerVars>>

-----------------------------------------------------------------------------
(* RunAutomationStepForContactJob.handle, with AutomationStepRunner.run *)

PairOf(k) == <<k.contact, k.step>>

\* The rows of contactAutomationSteps, whatever their status.
Ledger ==
    Pending \cup {<<EntryContact[r.origin], r.step>> : r \in entered}
            \cup {PairOf(a[1]) : a \in recorded}

StartOf(kind) ==
    CASE kind = "ACTION_ADD_TAG"    -> "readTags"
      [] kind = "ACTION_REMOVE_TAG" -> "detachTags"
      [] kind = "ACTION_SEND_EMAIL" -> "findEmail"

\* Mutant: that there is a row already is not asked.
LoadStepAnyway(w) ==
    LET s == worker[w].key.step
    IN  /\ worker[w].pc = "loadStep"
        /\ s # NoStep /\ Created(s) /\ Kind[s] \in RunnableKinds
        /\ Goto(w, StartOf(Kind[s]))
        /\ UNCHANGED <<treeVars, audienceVars, job, locals, ledgerVars>>

\* There is a row: done.  The step is not found: done.  No runner for it: throws.
\* A query by a step id that is undefined may throw too: HandlerThrows.
LoadStep(w) ==
    LET s == worker[w].key.step
    IN  /\ worker[w].pc = "loadStep"
        /\ IF \/ PairOf(worker[w].key) \in Ledger
              \/ s = NoStep
              \/ s # NoStep /\ ~Created(s)
             THEN /\ Goto(w, "return")
                  /\ UNCHANGED <<treeVars, audienceVars, job, locals, ledgerVars>>
             ELSE IF Kind[s] \in RunnableKinds
             THEN /\ Goto(w, StartOf(Kind[s]))
                  /\ UNCHANGED <<treeVars, audienceVars, job, locals, ledgerVars>>
             ELSE Fails(w)

\* ContactRepository.attachTags: the tags of the step that are there, less those
\* the contact has.
ReadTags(w) ==
    LET key == worker[w].key
    IN  /\ worker[w].pc = "readTags"
        /\ locals' = [locals EXCEPT ![w].tags =
                          (TagsOf[key.step] \cap tags) \ tagged[key.contact]]
        /\ Goto(w, "insertTags")
        /\ UNCHANGED <<treeVars, audienceVars, job, ledgerVars>>

\* Mutant: a violated key is taken for "they are there already".
InsertTagsIgnoring(w) ==
    LET c == worker[w].key.contact
    IN  /\ worker[w].pc = "insertTags"
        /\ tagged' = IF locals[w].tags \cap tagged[c] = {}
                       THEN [tagged EXCEPT ![c] = @ \cup locals[w].tags] ELSE tagged
        /\ acted' = acted \cup {Attempt(w)}
        /\ Goto(w, "record")
        /\ UNCHANGED <<tags, lost, treeVars, job, locals, entered, recorded>>

\* One INSERT: a tag the contact has by now violates the unique key, a tag deleted
\* by now the foreign key, and none is inserted.
InsertTags(w) ==
    LET c == worker[w].key.contact
    IN  /\ worker[w].pc = "insertTags"
        /\ IF locals[w].tags \cap tagged[c] = {} /\ locals[w].tags \subseteq tags
             THEN /\ tagged' = [tagged EXCEPT ![c] = @ \cup locals[w].tags]
                  /\ acted' = acted \cup {Attempt(w)}
                  /\ Goto(w, "record")
                  /\ UNCHANGED <<tags, lost, treeVars, job, locals, entered, recorded>>
             ELSE Fails(w)

DetachTags(w) ==
    LET key == worker[w].key
    IN  /\ worker[w].pc = "detachTags"
        /\ tagged' = [tagged EXCEPT ![key.contact] = @ \ TagsOf[key.step]]
        /\ lost' = [lost EXCEPT ![key.contact] =
                        @ \cup (tagged[key.contact] \cap TagsOf[key.step])]
        /\ acted' = acted \cup {Attempt(w)}
        /\ Goto(w, "record")
        /\ UNCHANGED <<tags, treeVars, job, locals, entered, recorded>>

\* Without the e-mail or its content there is nothing to send, and the step counts
\* as run.
FindEmail(w) ==
    /\ worker[w].pc = "findEmail"
    /\ \/ /\ acted' = acted \cup {Attempt(w)}
          /\ Goto(w, "record")
       \/ /\ Goto(w, "sendMail")
          /\ UNCHANGED acted
    /\ UNCHANGED <<treeVars, audienceVars, job, locals, entered, recorded>>

SendMail(w) ==
    /\ worker[w].pc = "sendMail"
    /\ acted' = acted \cup {Attempt(w)}
    /\ Goto(w, "setKey")
    /\ UNCHANGED <<treeVars, audienceVars, job, locals, entered, recorded>>

\* redis.set(messageId, AUTOMATION_STEP:step:contact)
SetKey(w) ==
    /\ worker[w].pc = "setKey"
    /\ Goto(w, "record")
    /\ UNCHANGED <<treeVars, audienceVars, job, locals, ledgerVars>>

\* Mutant: the row of a step is not written when it is about tags.
RecordMailsOnly(w) ==
    /\ worker[w].pc = "record"
    /\ recorded' = IF Kind[worker[w].key.step] = "ACTION_SEND_EMAIL"
                     THEN recorded \cup {Attempt(w)} ELSE recorded
    /\ Goto(w, "return")
    /\ UNCHANGED <<treeVars, audienceVars, job, locals, entered, acted>>

Record(w) ==
    /\ worker[w].pc = "record"
    /\ recorded' = recorded \cup {Attempt(w)}
    /\ Goto(w, "return")
    /\ UNCHANGED <<treeVars, audienceVars, job, locals, entered, acted>>

-----------------------------------------------------------------------------
Crash(w) ==
    /\ CrashWorker(w)
    /\ Forget(w)
    /\ UNCHANGED <<treeVars, audienceVars, ledgerVars>>

LoseLock(w) ==
    /\ ExpireLock(w)
    /\ UNCHANGED <<treeVars, audienceVars, locals, ledgerVars>>

Recover(k) ==
    /\ RecoverJob(k)
    /\ UNCHANGED <<treeVars, audienceVars, locals, ledgerVars>>

HandlerStep(w) ==
    \/ FindTrigger(w) \/ FindNext(w) \/ AddStepJob(w) \/ Commit(w)
    \/ FindStep(w) \/ SelectPage(w) \/ AddBulk(w)
    \/ LoadStep(w) \/ ReadTags(w) \/ InsertTags(w) \/ DetachTags(w)
    \/ FindEmail(w) \/ SendMail(w) \/ SetKey(w) \/ Record(w)
    \/ Succeed(w)

TakeAny(w) == \E k \in Keys : Take(w, k)

RecoverAny == \E k \in Keys : Recover(k)

Next ==
    \/ \E s \in Steps :
          InsertStep(s) \/ AbortStep(s) \/ \E p \in Steps \cup {NoStep} : CheckStep(s, p)
    \/ \E t \in Tags :
          DeleteTag(t) \/ \E c \in Contacts : TagContact(c, t) \/ UntagContact(c, t)
    \/ \E w \in Workers :
          HandlerStep(w) \/ TakeAny(w) \/ HandlerThrows(w) \/ Crash(w) \/ LoseLock(w)
    \/ RecoverAny

Spec == Init /\ [][Next]_vars

-----------------------------------------------------------------------------
(* Properties *)

\* The attempts that were let through by LoadStep and have not ended.
Admitted ==
    {Attempt(w) : w \in {x \in Workers : worker[x].pc \in StepPcs \ {"loadStep"}}}

SubjectOf(a) == PairOf(a[1])

Promise ==
    INSTANCE StepLedger WITH
        Subjects <- Contacts \X (Steps \cup {NoStep}),
        Attempts <- Attempts,
        Subject  <- SubjectOf,
        ledger   <- Ledger,
        admitted <- Admitted

(***************************************************************************)
(* Jobs keep the promise of StepLedger: whatever is retried, lost or run   *)
(* twice, a step acts on a contact only in attempts that found no row of   *)
(* it, each acts at most once, and a row is written after the action.      *)
(***************************************************************************)
KeepsLedger == Promise!Spec

(***************************************************************************)
(* A job that ran a step for a contact and completed leaves a row for them *)
(* in the ledger, also when the step had nothing to do.                    *)
(***************************************************************************)
CompletedLeavesRow ==
    \A k \in StepJobs :
        (job[k].state = "completed" /\ k.step # NoStep) => PairOf(k) \in Ledger

(***************************************************************************)
(* A contact that entered (the row of its first step is committed) has the *)
(* job of that step on the queue: the job is added before the commit, so   *)
(* no crash leaves a contact entered and forgotten.  (The opposite may     *)
(* happen: a job whose transaction rolled back.)                           *)
(***************************************************************************)
EnteredHasJob ==
    \A r \in entered :
        job[[kind |-> "step", origin |-> r.origin, run |-> r.run, step |-> r.step,
             contact |-> EntryContact[r.origin]]] # Absent

(***************************************************************************)
(* A recorded ACTION_ADD_TAG step left its tags on the contact, except     *)
(* those that were taken off or deleted: an insert that fails because one  *)
(* of the tags came from elsewhere meanwhile is not recorded.              *)
(***************************************************************************)
TagsOfRecordedStep ==
    \A a \in recorded :
        Kind[a[1].step] = "ACTION_ADD_TAG" =>
            TagsOf[a[1].step] \cap tags \subseteq tagged[a[1].contact] \cup lost[a[1].contact]

(***************************************************************************)
(* Two steps follow one parent only if the requests that created them were *)
(* validated at the same time, neither seeing the other's step.            *)
(***************************************************************************)
SiblingsOverlapped ==
    \A s, t \in {x \in Steps : Created(x) /\ author[x].parent # NoStep} :
        (s # t /\ author[s].parent = author[t].parent) => s \notin author[t].seen

(***************************************************************************)
(* A completed RunAutomationStepJob queued a job for every contact pending *)
(* at the step in one of its runs: the cursor skips nobody, whether the    *)
(* last page is full or not.                                               *)
(***************************************************************************)
EveryPendingQueued ==
    \A s \in BulkSteps :
        job[[kind |-> "bulk", origin |-> s]].state = "completed" =>
            \E n \in Runs : \A c \in PendingAt(s) :
                job[[kind |-> "step", origin |-> s, run |-> n, step |-> NoStep,
                     contact |-> c]] # Absent
=============================================================================
