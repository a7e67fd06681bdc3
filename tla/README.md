# Formal model of Kibamail (mailkiwi)

TLA+ modules of the parts of Kibamail where requests, workers and the job queue
interleave, TLC runs that check them on small instances, and TLAPS proofs of their
safety for every size. `PROJECT.json` lists the components, the runs, a mutant for
each property, the source lines each definition models, the findings, the hazards and
the theorems.

## The system

Kibamail is an e-mail marketing platform in TypeScript: an HTTP API (Hono), workers
(BullMQ over Redis), MySQL (drizzle), SMTP through KumoMTA. The API and each worker are
processes of their own. They share the database and the queues, and nothing else. A
request or a job handler is an async function, so every `await` is a point where any
other request or handler may run, and where a process may die.

| component | state | operations | interacts with | what makes it correct |
| --- | --- | --- | --- | --- |
| Broadcast requests (`broadcasts/controllers`, `actions`, `repositories`, `dto`) | `broadcasts`, `abTestVariants`, `emailContents` rows | create, update, send, delete | adds a job to `broadcasts` or `abtests_broadcasts` | one accepted send per draft; a queued broadcast has a job; an answered send is not taken back; an A/B test has variants |
| Broadcast delivery (`broadcasts/jobs/send_broadcast_*`) | contact jobs, mails out, Redis message keys | page through the audience; mail a contact, record it | reads the row and the contacts, calls SMTP and Redis, queues jobs | every contact queued; a bounded number of mails each; recorded only if sent; done only if recorded |
| A/B test job (`send_ab_test_broadcast_job.ts`) | the parts it computes, contact jobs | cut the audience by weight, page through each part | reads contacts, queues jobs | parts partition the audience, sizes follow the weights |
| Queue and worker (`shared/queue`, `worker/ignitor`) | jobs, locks, attempts | take, complete, fail, recover | runs every handler | each job settles; only the lock's holder settles it |
| Automations (`automations`) | `automationSteps`, `contactAutomationSteps` | create a step; run for a contact; run a step; run a step for a contact | jobs of the `automations` queue, tags, mails | a step acts only where no row says it ran; a run that completed leaves a row; an entered contact has a job; paging skips nobody; no siblings by accident |
| Sending domains (`sending_domains`, `shared/cache`) | `sendingDomains`, `sendingSources`, DKIM keys in Redis, cached rows | register; check DNS and re-enqueue; assign sources; look up | DNS, `sending_domains` queue, cache | a registered domain has its key; sources only after verification; the checks go on; the cache never runs ahead of the row |
| MTA logs and e-mail sends (`kumologs`, `email_sends`) | `emailSends`, `emailSendEvents` | receive a record; upsert the send; record the event | `mta_logs` queue, domain cache, volumes that rank the sources | a completed record left its event; a source once known stays |
| Audiences, contacts, tags, segments (`audiences`, `tags`) | `contacts`, `tags`, `tagsOnContacts` | create, update; create, delete, attach, detach tags; filter | imports, automations, broadcasts | no attribute lost but to an overlap; a segment selects what it says |
| Contact imports and exports (`audiences`) | `contactImports`, MinIO objects | upload; settings; import; export | `contacts` queue, MinIO, contacts and tags | an import is there whole or not at all; a PUT whose job is done was applied |
| Teams and memberships (`teams`) | `teamMemberships` | invite, accept, reject, revoke, ask a policy | `accounts` queue, sessions | duplicates only by overlap; an accepted invitation is a membership; only administrators invite |
| Authentication, API keys (`auth`, `api_keys`) | users, sessions, keys | register, log in, create a key | all requests | one user for an e-mail |
| MTA authenticator, injector, tracking | none | look-ups, link rewriting | database, Redis, cache | the look-ups only: see sending domains |
| Transactional job, webhooks | none | stubs | - | - |
| Settings, CLI, start-up, pages | sources | inserts, wiring | - | the source command only |

What is hard here: two requests for one row between a read and a write; a process that
dies between a database write and a queue write; a job whose lock runs out under a live
handler; retries of a handler that had already acted; OFFSET paging over a table that
changes; jobs whose handler is not registered. Each place is a hazard in `PROJECT.json`,
with the properties that cover it or the reason none does yet.

## Modules

```
BullMQ  <-- BroadcastState <-- BroadcastControl ---.
   ^                       <-- BroadcastDelivery --+-- Broadcasts
   |                             |  implements
   |                           DeliveryPromise           AbTestSplit
   |
JobWorkers <-- Segments --.-- Automations -- implements --> StepLedger
   ^                      '-- Audiences <-- ContactImports <-- Contacts
   '--- SendingDomains <-- MtaLogs <-- Deliverability

Memberships <-- Teams
```

`BullMQ` (external: a library) gives the queue's part of every step as operators on one
job record: taken under a lock, completed, failed with attempts counted, stalled when its
lock is gone, recovered until `MaxStalled` is passed. A worker's handler is entered once
for each attempt and each stall (`Starts`), which is what bounds everything below.

`BroadcastState` is what the two sides share: the row, joined with how complete its
content and variants are, and the jobs each send request added. Broadcasts share nothing
with each other, so one is modelled. `Drafts` is the set of rows it may start from.

`BroadcastControl` has one action for each await-to-await step of a request:

| action | code |
| --- | --- |
| `ReadDraft`, `Sendable` | `BroadcastController.send`: load, check the status, validate |
| `AddSendJob` | `SendBroadcastAction`: the job goes to the queue the loaded row calls for |
| `SetQueued` | the status update after it (no row is touched if it was deleted) |
| `AbortSend` | the process dies, or Redis or the database throws, between them |
| `ReadForUpdate` | `BroadcastController.update`: load the row, validate the body |
| `CommitUpdate`, `Updated` | `UpdateBroadcastAction`: one transaction; `isAbTest` from the row loaded before |
| `AbortUpdate` | validation fails, the transaction rolls back, the process dies |
| `DeleteBroadcast` | one statement, cascading to the variants |

A PUT that changes variants only fails in the source (it inserts an empty list of
variants): `AbortUpdate`. A body is given by whether it holds a field of the row, the
filter it sets, and how complete content and variants are once merged.

`BroadcastDelivery` splits both handlers at their awaits. `worker[w]` is the program
counter and the job's entry; `page[w]` the locals of a `SendBroadcastJob`. `TakeSend`,
`TakeContact` are BullMQ handing out a job; `LoadBroadcast`, `SelectBatch`, `AddBulk` the
first handler; `LoadContact`, `SendMail`, `SetKey` the second; `Succeed`, `FailAttempt`
and `HandlerThrows` the end of `processJob`; `DropAbTestJob` the early return for a job
nobody registered. `Crash` restarts a worker, `LoseLock` takes its lock while the handler
goes on, `RecoverSend` and `RecoverContact` are the stalled check. `SelectBatch` returns
any rows in the right number, because the query has no ORDER BY. Contact jobs carry no job
id in the source, so a run of `SendBroadcastJob` again queues new ones: a contact job is
known by request, entry, batch and contact. `HttpStep` (`QueueSend`, `QueueAbTest`,
`DeleteRow`) stands for the requests when the module is checked alone.

`DeliveryPromise` is the abstract specification: tasks are queued, mails are sent for
queued tasks only and at most `MaxSends` for each, a mail is recorded only after it was
sent, a task is done only when a mail was recorded, and what is reported stays.
`BroadcastDelivery!Promise` is the refinement mapping: `ReportOf` a job's state, the mails
and the keys by entry.

`Broadcasts` composes requests and workers over one row and one set of queues.

`AbTestSplit` is `SendAbTestBroadcastJob.handle`: `Cut` computes consecutive parts from
the weights and the count, `SelectPage` and `AddPage` go through them by OFFSET and LIMIT
in the order of the ids, `MoveContact` changes the audience between two pages. Weights are
whole and positive: the DTO takes others too, and with one below zero (60 and -50) parts
overlap and contacts repeat without any move, so what is checked and proved here does not
hold of such a test.

`JobWorkers` is `WorkerIgnitor.processJob` for a queue with jobs of several kinds. A worker
is its program counter, its job and which entry of the job it is in; `TakeJob`, `Settle`,
`CrashWorker`, `ExpireLock` and `RecoverJob` are the queue's part of a step. The three
components below add their handlers, cut at every `await`; `Fails` is the end of a handler
that throws, which every await may do (`HandlerThrows`).

`Automations` has the requests that create steps and the three kinds of jobs:

| action | code |
| --- | --- |
| `CheckStep`, `InsertStep`, `AbortStep` | `CreateAutomationStepDto` asks whether the parent has a child; the insert follows |
| `TagContact`, `UntagContact`, `DeleteTag` | what requests and imports do to tags meanwhile |
| `FindTrigger`, `FindNext` | `RunAutomationForContactJob`: the trigger, its filter (`Segments`), the step after it |
| `AddStepJob`, `Commit` | its transaction: the job is added before the row is visible |
| `FindStep`, `SelectPage`, `AddBulk` | `RunAutomationStepJob` over the cursor of `Paginator.next` |
| `LoadStep` | `RunAutomationStepForContactJob`: a row means done, a missing step too, no runner throws |
| `ReadTags`, `InsertTags`, `DetachTags` | the tag runners with `ContactRepository.attachTags` and `detachTags` |
| `FindEmail`, `SendMail`, `SetKey` | the e-mail runner |
| `Record` | `AutomationStepRunner.run` inserts its row after the action |

The jobs of a pending step carry a contact and no step (`NoStep`), as the source queues
them, so `LoadStep` ends them at once: they are queued, and do nothing. None of the three
handlers is registered with `WorkerIgnitor` (nor is any but `SendBroadcastJob`,
`SendBroadcastToContactJob` and `SendTransactionalEmailJob`); they are modelled as if they
were, the way the tests call them. `PENDING` rows come from tests and seeds only. The DTO asks
for a `tagId` where the runners read `configuration.tagIds`: `TagsOf` is what they read.

`StepLedger` is the abstract specification of running steps: an attempt is admitted only
while the ledger has no entry of its subject, acts at most once, and makes its entry after it
acted. The refinement `Promise` takes the ledger to the rows of `contactAutomationSteps`, and
the admitted attempts to the workers past `LoadStep`. It does not say that a step acts once:
several attempts may be admitted before the first entry, and the code lets them.

`Segments` is the segment builder as SQL evaluates its output: three-valued conditions,
clauses that vanish. Its operators are used by `Automations` (the trigger) and by `Contacts`.

`SendingDomains` and `MtaLogs` are composed by `Deliverability`, which shares workers, cache
and volumes between them:

| action | code |
| --- | --- |
| `CheckName`, `InsertRow`, `SaveDkim`, `CommitRegistration`, `AbortRegistration`, `QueueCheck` | `POST /sending_domains`: the schema, the transaction with the insert and Redis under `Promise.all`, the first check |
| `Resolve`, `MarkRows`, `Marked` | `CheckSendingDomainDnsConfigurationJob`: what DNS answers, one update for each record found |
| `ReadSources`, `AssignSources` | `AssignSendingSourceToSendingDomainAction` |
| `ClearDomain`, `SelectDomainWithDkim`, `Recheck` | `getDomainWithDkim`, the next check |
| `DkimRequest`, `MissDomain`, `ReadDomain`, `StoreDomain` | the MTA's look-ups, `Cache.get` split at its awaits |
| `AddSource` | the settings command, whose rows stay inactive |
| `PostLog`, `GetDomain`, `SelectDomain`, `CacheDomain`, `FindSource` | `ProcessMtaLogJob` up to the address |
| `FindSend`, `InsertSend`, `UpdateSend`, `CreateEvent` | `EmailSendRepository.upsert`, the event |

What the source does here is kept as it is: an update of a verification column has no WHERE and
marks every row; the pools of sources are read under each other's name;
`getDomainWithDkim` always clears the cache and throws when one of four sources is missing;
the log of a domain nobody registered throws and is lost. `trackingDomainSslVerifiedAt` is
set nowhere, so tracking never rewrites a message, and a cache hit there changes nothing.

`Audiences` (requests about contacts and tags), `ContactImports` and `Contacts` (their
composition, and the segments):

| action | code |
| --- | --- |
| `CreateContact`, `ReadContact`, `WriteContact` | POST; PATCH, which writes back the whole row it read |
| `CheckTag`, `InsertTag`, `DeleteTag` | POST and DELETE of a tag |
| `CheckAttach`, `ReadTagged`, `InsertTagged`, `DetachTag` | attach (filtered against what was read) and detach |
| `Upload`, `CheckSettings`, `UpdateSettings`, `QueueImport`, `QueueExport` | the requests of an import and an export |
| `FindImport`, `ReadFile`, `InsertTags`, `UpsertChunk`, `AttachTags`, `CommitImport` | `ImportContactsJob.handle`, one transaction; what it wrote is its worker's until it commits, and its rows are locked |
| `SelectContacts` | `ExportContactsJob`, whose payload has no audience: it finds nobody |

Both jobs have the id `ACCOUNTS::CONTACTS`, and a worker's table has one handler for an id:
`Take` gives a job to either handler (`Handlers`), whichever was registered. The import of an
export's payload finds nothing and is done, the export of an import's throws.

Kept as written: the `failed()` hook compares attempts before this one, so it never runs on
the last, and a failed import says PROCESSING for ever. The test "when the job fails, it marks
the import as failed" (`tests/unit/jobs/import_contacts_job.spec.ts:86`) expects FAILED; it
calls `failed()` itself, so it passes. FAILED is in no state the model reaches, and the
properties of an import say nothing of a job that failed. Also as written: without
`updateExistingContacts` the upsert cannot be built and the job fails; tagging contacts that
were there violates the foreign key and rolls all back; a file not uploaded as CSV is looked
for under `.csv`.

`Memberships` and `Teams`: registration and login; `Arrive` is `UserSessionMiddleware`, which
reads the members a request then decides on; `CheckMembership`, `FindInvitee`,
`InsertMembership`, `QueueInvite` an invitation and `FindInviteToMail`, `MailToken` its mail;
`LoadInvite`, `LinkUser`, `Activate` an accept; `LoadMembership`, `DeleteMembership` a
reject or a revoke. `TeamPolicy` is translated as written: `canManage` and `canAuthor` ask
whether the team has some active manager or author, not whether the user is one
(`SomeoneHasRole`). An accept of an invitation that was deleted meanwhile still answers ok.
`admins` is a history variable: who was an active administrator at some time.

`*_proofs` hold the theorems; `MC*` and the `.cfg` files the instances.

## Runs

| run | what it shows | instance |
| --- | --- | --- |
| `control` | `QueuedHasJob`, `AcknowledgedStaysQueued`, `AbTestHasVariants`, `NoSendAfterAcknowledged`: the job-before-status order survives crashes, no PUT undoes a send, the flag recomputed from an old row stays true | 2 send requests, 2 PUTs with any body, DELETE (33,563 states up to symmetry) |
| `delivery` | `KeepsPromise`, `NoMailOnceDeleted`; `DeliveryInv` is the invariant of the proofs | 2 workers, the real 3 attempts and 1 tolerated stall, one contact (396,158 states) |
| `liveness` | `EveryJobSettles` under fairness | 1 worker, 2 attempts, 1 stall |
| `broadcasts` | `MailWasRequested`, `CompletedRunIsWhole` on the composition | 1 request, 1 PUT, 1 worker, 2 contacts of which one moves, 2 pages (417,526 states) |
| `ab_split` | `MoveCostsOne`, `ShareHonoured` | 0 to 5 contacts, 1 or 2 variants, pages of 2, 2 moves (148,267 states) |
| `automations` | `KeepsLedger` (refinement), `CompletedLeavesRow`, `EnteredHasJob`, `TagsOfRecordedStep`, `SiblingsOverlapped`, `EveryPendingQueued` | 2 workers, a trigger and 3 steps, 1 entering contact, 2 pending ones, pages of 1, 2 tags (182,254 states) |
| `deliverability` | `RegisteredHasKey`, `NamesOverlapped`, `SourcesOnlyWhenVerified`, `VerificationGoesOn`, `CachedRowIsOlder`, `CompletedLogHasEvent`, `SourceNeverForgotten` | 2 workers, 2 registrations of 1 or 2 names, 4 sources, 3 log records, 1 reader (377,583 states) |
| `contacts` | `ImportIsWhole`, `LostOnlyByOverlap`, `LastSettingsApplied`, `SegmentSelects`, `SubscribedAtBirth` | 2 workers, a file of 2 rows in chunks of 1, 3 kinds of settings, 2 PATCHes, 2 tag requests (66,026 states) |
| `teams` | `MembershipsOverlapped`, `AcceptedIsMember`, `InvitedByAdministrator` | 3 registrations of 2 e-mails, 4 requests (355,361 states) |
| `draft_race` | `SendOnlyFromDraft` fails: a finding | 2 requests |
| `every_contact` | `EveryContactQueued` fails: a finding | 3 contacts, pages of 1 |
| `ab_test_dropped` | `AbTestReachesContacts` fails: a finding | 1 request, 1 PUT |

Bounds and why they are enough. Two requests and two PUTs are the least that race; each
runs once from start to end, PUTs again and again. `BatchSize` 1 stands for 75: two
contacts make two pages and three pass the last one. Two workers are the least for a
straggler; the entries of a job are bounded by attempts and stalls, not by us. In `delivery`
and `liveness` the bound `OneJobStalls` lets at most one job of a behaviour stall, as
often as it may; a behaviour in which two jobs stall is left to the proofs for safety, and
is not covered for liveness. `broadcasts` runs without tolerated stalls, and its two PUT
bodies are the two that matter to a worker: one spoils the content, one makes it an A/B
test. `MaxVariants` and `MaxMoves` bound `AbTestSplit`; weights of 20, 40 and 70 give empty
parts, parts that end inside a page, and sums above 100. The product of doubles that sizes
a part can come out just below a whole number, and the part one contact smaller (58% of 50 is
28, the smallest case): `ShortShares` holds the pairs at which it does, any pairs whose
product is whole. In the run 40% of 5 stands for them. Symmetry is used in safety runs only.
Deadlock is not checked: requests end and queues drain, and then nothing
happens.

The four larger components cannot be explored with everything going on at once, so the
constraint `Bounds` of each MC module lets meet what shares state and keeps apart what does
not; its comment names every part of it. In all of them at most one job of a behaviour
stalls or fails (as often as it may), and two workers are the least for a straggler.

- `automations`: authors race while no job has started, and jobs run with the step they left;
  a step created under a running job only turns `LoadStep`'s "not found" into "found". The
  entering contact and the paging write different tables, and are explored apart. Pages of 1
  over two pending contacts end with a full last page; `PagedAttempts` 1 because the paged
  jobs carry no step and end at once.
- `deliverability`: two registrations are the least that race for a name; DNS answers nothing,
  DKIM, what is needed, or everything; 2 slots are a recheck and the recheck after it;
  `RecheckAttempts` 2 stands for 100: the same job fails and is tried again. Checks run with a
  reader, or with log records done before; a faulty check runs without readers. The Reception
  and the Delivery of one message come in both orders and at the same time.
- `contacts`: chunks of 1 make the file two chunks, so a failure comes between them; two
  settings PUTs are the least that queue the import twice; PATCHes meet an import without tags,
  attach requests one with tags, because only those share a row.
- `teams`: two invitations of one e-mail, or one with a reject or a revoke of it, and two
  accepts; a third registration has the e-mail of the second, or the requests go on.

For the components with theorems below the proofs leave the bounds behind.

Fairness (`DeliveryFairness`): each worker goes on with its handler and takes a waiting job
(the event loop of a live worker; a dead one restarts, `Crash`), and the stalled check runs
(a timer in every BullMQ worker). Nothing is assumed of requests, of locks being kept, or
of mails being accepted: crashes, throws and lost locks may come at every step, and
attempts and stalls are what ends them.

Three stated expectations do not hold of the code, each shown by a violation run and
described under "findings": two requests can send one draft; a broadcast reaches no more
than 150 contacts; the A/B test job is completed without being run.

A fourth expectation does not hold either and no run is made of it: that a failed import says
FAILED (see the imports above). It takes no interleaving to see, only the condition in
`processJob`.

What cannot be promised is as telling. A contact can be mailed more than once (a mail that
went out before its key was recorded; a `SendBroadcastJob` that was run again), so the
properties bound how often. `CompletedRunIsWhole` counts what was queued, because without
ORDER BY the pages may repeat and skip contacts.

## Proofs

All are for any number of requests, editors, workers, contacts, attempts and stalls, from
the named assumptions on the constants (`QueueAssumption`, `StateAssumption`,
`ControlAssumption`, `DeliveryAssumption`, `SplitAssumption`, `AutomationAssumption`,
`AudienceAssumption`, `RowAssumption`, `MembershipAssumption`, `DomainAssumption`,
`LogAssumption`): finite workers and contacts, at least one attempt, drafts that are rows a PUT
can leave, weights of 1 to 99, steps that are there at first with one child each, a file
with a row, filters joined by AND or OR, log records of one message with one sender.

Every invariant and action property a passing run checks is stated by a theorem.

- `BullMQ_proofs`: what each queue operator does to a job, and to the number of its entries.
- `Broadcasts_proofs`, the workers (invariants in `BroadcastDelivery_inv`): a worker that lost
  its lock goes on with a job others run
  again, so nothing can be read off the job's state. `DeliveryInv` ties together the entry
  each worker is in, the entries the job has seen, that no two workers are in the same entry
  of a job, and for each entry how far it has come (`ProgressOK`, `MailsOK`, `PagesOK`). One
  lemma for each action proves it is kept; one lemma for each action proves the refinement,
  `DeliverySpec => KeepsPromise`. `CompletedRunIsWhole` needs `PagesInv` beside it, which
  follows the pages of one entry: the page read is as long as the audience allows
  (`ReadPageFits`), those queued before it are whole (`PagesBehindWhole`), so all are when the
  handler returns (`ReturnedWhole`), and once that return completed the job they stay whole,
  because no worker is still queueing in that entry and no other entry adds to it
  (`CompletedWhole`). `NoMailOnceDeleted` follows action by action from `DeliveryInv` and
  `GoneIsEmpty` (a deleted row stays deleted and has no content): a handler that has still to
  load the broadcast fails, and no other worker is past the load.
- `Broadcasts_proofs`, the requests: the properties are not inductive alone. `ControlInv` adds
  that a request past `AddSendJob` has a job, that the status was set by a request that is
  answered, and that the flag in a snapshot an editor holds is still true of the variants
  when it is written. `NoSendAfterAcknowledged` follows from the same invariant.
- `Broadcasts_proofs`, both: the invariants together, with `SendJobsRequested` (a job on the
  `broadcasts` queue was added by a request that is past `AddSendJob`), are kept by every
  step of the composition; the properties of each side and the refinement follow for the
  whole, and `MailWasRequested` with them.
- `AbTestSplit_proofs`: the argument is about ranks. The pages read so far are the ranks
  below `NextOffset`; a contact that comes moves one contact from before it to it, which will
  be read twice, and one that goes moves one before it, which is lost (`ArrivalShifts`,
  `DepartureShifts`). `MovesPaid` counts those that have two jobs or will have (`Twice`) and
  those no page ahead can hold (`Lost`) against the moves. The bound on `Lost` must take in
  by how much the audience grew or shrank: at the end it pays for the contacts that stand
  past what was counted. `Chained` says the parts lie side by side, whatever positive weights
  add up to, because `Offsets` adds up the shares (`OffsetsAddUp`), and `SharesSent` that
  full pages add up to the parts.

- `JobWorkers_proofs`: `QueueInv`, for any queue over `JobWorkers`: jobs and workers are typed,
  each job satisfies `JobInv`, a worker that is not idle runs a job of the queue in an entry that
  was counted, no two workers are in one entry of a job that is added once, and a lock is held
  only by a worker that runs the job. One lemma for each queue operator keeps it, so a
  component proves only what its handlers do.
- `Automations_proofs`: `AutomationInv` is `SharedInv` (types, `QueueInv`, the tree of steps, and
  the listed properties) and, for each worker, `WorkerInv`: what its locals say of the step it
  is to queue, of the contacts its pages still have to reach, of the row it is about to commit,
  whether its attempt has acted and is recorded yet, and that the tags it inserted are there or
  were lost. The worker's part is needed because a straggler goes on
  with locals nothing else records. `EveryPendingQueued` needs the arithmetic of the
  cursor: a page holds every pending contact up to its largest id, and a page that is not full
  holds all that were left. `JobsKeepLedger` is the refinement: `LoadStep` admits, the actions
  act, `Record` records, a throw or a crash withdraws, `Commit` marks, the rest stutters.
- `Teams_proofs`: an accept gives a membership the accepting user only when it has none, so
  `AcceptedIsMember` holds only because an e-mail has one user for ever; `TeamsInv` carries
  this through what requests hold (`TeamsInvariant`), with what makes an inviter an
  administrator, on the snapshot the middleware read and since.
- `Deliverability_proofs`: `DeliverabilityInv` is `SharedInv` (types, `QueueInv`, what requests
  saw, what is cached or read, and below) and, for each worker, `WorkerInv`: the records a check
  found are marked or still to be marked, a record's job holds a row of its sender's name, and
  finds the message it found. Four parts carry the properties that are not
  inductive alone: `ChainOK` (an unverified domain has a check that is not about to return,
  which is what queueing the next check before returning buys), `EventsOK` (the events of a record
  and the workers that may still insert one are together no more than the starts of its job),
  `KeysOK`, and `LogsOK`. `CheckStepKeeps` and `LogGoesOn` say once what a handler's step may
  write; each action is then a short lemma.
- `Contacts_proofs`: `ContactsInv` has a part for each table (`TablesOK`), for what requests
  read (`RequestsOK`), for the attributes of a PATCH (`AttributesKept`), for the import
  (`ImportOK`) and for the locals of each worker (`WorkersLocalsOK`). `LostOnlyByOverlap` needs
  more than the row: the attributes of a PATCH that is done must also be in the copy of every
  PATCH that began after it, which will write that copy back. `ImportIsWhole` needs the rows a
  transaction holds, locked and not yet committed (`TransactionOK`, `RowsLocked`), and what is
  left of the file at each stage (`StageOK`). `LastSettingsApplied` needs that a job that returned,
  or is about to, committed a run with the settings its PUT left if no other PUT came since
  (`CarriedOut`, `Applied`), and `LatestRead`: the run read those settings. `SegmentSelects` is a
  fact of the operators: SQL's three-valued clauses against the meaning of each condition, one
  direction of it also where a column is empty.

Only model-checked: `EveryJobSettles`, because liveness under fairness cannot be expressed to
the provers here; and the three expectations that fail.

## Not modelled

- Transactional e-mail and webhooks are stubs in the source.
- Requests that only read: lists (`Paginator.paginate`, which has no ORDER BY, so that its
  pages may repeat rows), searches, SMTP authentication, checking an API key. Reads that decide
  a write are part of the write's actions.
- Creating an automation, creating and deleting audiences and segments: single statements
  nothing races with. Runners that are not in the runner's table cannot be reached.
- Delays and scheduled sends: a waiting job may start at any time; the hazards say what the
  delays get wrong. Graceful shutdown of a worker is a crash with less to lose.
- The `failed()` hook of the broadcast and automation jobs does nothing; that of the imports is
  modelled.
- Text: mails, templates, link rewriting, the e-mail builder, the CSV parser, DKIM keys, DNS
  records beside found or not found; the pages, the schema's columns no property is about, the
  seeds, and the wiring at start-up.

## Plan

Done: the modules above, in the order of the diagram, their runs, and a theorem for every
safety property of a passing run. What is left:

- the steps `EveryJobSettles` rests on, as a theorem: a measure of the attempts, stalls, pages
  and awaits left that no step of a worker raises and each step of a handler lowers;
- an abstract specification of an import, as `StepLedger` is one of the automations' jobs.
