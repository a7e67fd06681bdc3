----------------------- MODULE BroadcastDelivery_inv -----------------------
(***************************************************************************)
(* The inductive invariants of BroadcastDelivery.  Broadcasts_proofs shows *)
(* that its steps keep them, and what follows from them.                   *)
(***************************************************************************)
EXTENDS BroadcastDelivery

-----------------------------------------------------------------------------
(***************************************************************************)
(* The inductive invariant.  A worker whose lock was lost goes on with a   *)
(* job that others run again, so nothing can be said from the job's state: *)
(* what is tied together is the entry each worker is in, the number of     *)
(* entries the job has seen, and the mails and keys of each entry.         *)
(***************************************************************************)
\* The jobs are as BullMQ leaves them.
JobsOK ==
    /\ \A r \in Requests : JobInv(sendJob[r], SendAttempts)
    /\ \A k \in ContactJobs : JobInv(contactJob[k], ContactAttempts)

\* Where a handler stands fits the job it runs and the page it holds.
HandlersOK ==
    \A w \in Workers :
        /\ worker[w].task.kind = "none" <=> worker[w].pc = "idle"
        /\ worker[w].pc = "idle" => worker[w] = Idle
        /\ worker[w].pc \in SendPcs => worker[w].task.kind = "send"
        /\ worker[w].pc \in ContactPcs => worker[w].task.kind = "contact"
        /\ worker[w].pc \notin {"selectBatch", "addBulk"} => page[w] = BlankPage
        /\ worker[w].pc \in {"selectBatch", "addBulk"} => page[w].filter \in Filters

\* A worker is in an entry its job has seen.
EntriesOK ==
    \A w \in Workers :
        /\ worker[w].task.kind = "send" =>
             worker[w].entry \in 1 .. Starts(sendJob[worker[w].task.request])
        /\ worker[w].task.kind = "contact" =>
             worker[w].entry \in 1 .. Starts(contactJob[worker[w].task.key])

\* No two workers are in the same entry of one job.
EntriesDiffer ==
    \A v, w \in Workers :
        v # w /\ worker[v].task = worker[w].task /\ worker[w].task.kind # "none" =>
            worker[v].entry # worker[w].entry

\* Mails and keys belong to entries the job has seen, keys to mails.
MailsOK ==
    \A k \in ContactJobs :
        /\ mailed[k] \subseteq 1 .. Starts(contactJob[k])
        /\ keyed[k] \subseteq mailed[k]

\* How far an entry of a contact job has come.
ProgressOK ==
    \A w \in Workers :
        worker[w].task.kind = "contact" =>
            LET k == worker[w].task.key
            IN  /\ worker[w].pc \in {"loadContact", "sendMail"} =>
                     worker[w].entry \notin mailed[k]
                /\ worker[w].pc = "setKey" => worker[w].entry \in mailed[k]
                /\ worker[w].pc = "return" => worker[w].entry \in keyed[k]

\* The pages an entry of a SendBroadcastJob has still to queue are not queued,
\* and no page of an entry that is still to come is.
PagesOK ==
    /\ \A w \in Workers, k \in ContactJobs :
          /\ worker[w].pc \in SendPcs
          /\ k.request = worker[w].task.request
          /\ k.run = worker[w].entry
          /\ k.batch >= page[w].batch
          => contactJob[k] = Absent
    /\ \A k \in ContactJobs :
          k.run > Starts(sendJob[k.request]) => contactJob[k] = Absent

\* The inductive invariant: all of them together.
DeliveryInv ==
    /\ QueueTypeOK
    /\ JobsOK
    /\ HandlersOK
    /\ EntriesOK
    /\ EntriesDiffer
    /\ MailsOK
    /\ ProgressOK
    /\ PagesOK

-----------------------------------------------------------------------------
(***************************************************************************)
(* The pages a SendBroadcastJob queues.  Each entry of the job is followed *)
(* from the page it reads to the job's completion: a page read fits the    *)
(* audience, the pages queued before it are whole, all of them are when    *)
(* the handler returns, and nobody adds to them once the job is completed. *)
(***************************************************************************)
\* The contacts that match f in every state, and those that match in some.
AllAlong(f) == matching[f] \ Movers
Ever(f)     == matching[f] \cup Movers

\* The jobs of one page of entry n of request r's SendBroadcastJob.
QueuedPage(r, n, b) ==
    {k \in ContactJobs :
        k.request = r /\ k.run = n /\ k.batch = b /\ contactJob[k] # Absent}

\* As many contacts as page b over the audience of f may hold.
Fits(size, b, f) ==
    /\ PageSize(Cardinality(AllAlong(f)), b) <= size
    /\ size <= PageSize(Cardinality(Ever(f)), b)

PageWhole(r, n, b, f) == Fits(Cardinality(QueuedPage(r, n, b)), b, f)

\* w is in entry n of request r's SendBroadcastJob.
InEntry(w, r, n) ==
    /\ worker[w].task.kind = "send"
    /\ worker[w].task.request = r
    /\ worker[w].entry = n

SendEntries == 1 .. MaxStarts(SendAttempts)

\* No handler is still queueing pages in entry n of request r's job.
EntryOver(r, n) ==
    \A w \in Workers : InEntry(w, r, n) => worker[w].pc \notin SendPcs

\* The page a handler is about to queue is one of the audience's.
ReadPageFits ==
    \A w \in Workers :
        worker[w].pc = "addBulk" =>
            Fits(Cardinality(page[w].ids), page[w].batch, page[w].filter)

\* The pages a handler has behind it are whole.
PagesBehindWhole ==
    \A w \in Workers, r \in Requests, n \in SendEntries, b \in Batches, f \in Filters :
        /\ worker[w].pc \in {"selectBatch", "addBulk"}
        /\ InEntry(w, r, n)
        /\ page[w].filter = f
        /\ b < page[w].batch
        => PageWhole(r, n, b, f)

\* A handler that returns leaves all its pages whole.
ReturnedWhole ==
    \A w \in Workers, r \in Requests, n \in SendEntries :
        worker[w].pc = "return" /\ InEntry(w, r, n) =>
            \E f \in Filters : \A b \in Batches : PageWhole(r, n, b, f)

\* So does the entry that completed the job, and they stay so.
CompletedWhole ==
    \A r \in Requests :
        sendJob[r].state = "completed" =>
            \E n \in 1 .. Starts(sendJob[r]), f \in Filters :
                /\ EntryOver(r, n)
                /\ \A b \in Batches : PageWhole(r, n, b, f)

PagesInv == ReadPageFits /\ PagesBehindWhole /\ ReturnedWhole /\ CompletedWhole
=============================================================================
