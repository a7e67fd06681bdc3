--------------------------- MODULE ContactImports ---------------------------
(***************************************************************************)
(* Imports and exports of src/audiences.  A file is uploaded, a PUT gives  *)
(* the import its settings and queues a job, and the job carries it out in *)
(* one transaction: it inserts the new tags, inserts or updates the rows   *)
(* of the file in chunks, tags them, and sets the status.                  *)
(***************************************************************************)
EXTENDS Audiences

\* POST /audiences/:audienceId/imports: the file is stored under an extension made
\* from its type, its headers are read, the row is inserted.
Upload(csv) ==
    /\ import.status = "none"
    /\ import' = [status |-> "PENDING", csv |-> csv, from |-> NoPut]
    /\ UNCHANGED <<tableVars, requestVars, committed, queueVars, locals>>

RequestTags(ids) == {[name |-> TagNameOf[t], by |-> t] : t \in ids}

\* PUT .../imports/:importId.  The schema asks that the tagIds are there; nothing
\* asks for the status of the import.
CheckSettings(p) ==
    /\ put[p] = "absent"
    /\ import.status # "none"
    /\ RequestTags(SettingsOf[p].ids) \subseteq tags
    /\ put' = [put EXCEPT ![p] = "checked"]
    /\ UNCHANGED <<tableVars, maker, patch, attach, importVars, queueVars, locals>>

ImportWith(p) == [import EXCEPT !.status = "PROCESSING", !.from = p]

UpdateSettings(p) ==
    /\ put[p] = "checked"
    /\ put' = [put EXCEPT ![p] = "updated"]
    /\ import' = ImportWith(p)
    /\ UNCHANGED <<tableVars, maker, patch, attach, committed, queueVars, locals>>

QueueImport(p) ==
    /\ put[p] = "updated"
    /\ job[p] = Absent
    /\ put' = [put EXCEPT ![p] = "queued"]
    /\ Add({p})
    /\ UNCHANGED <<tableVars, maker, patch, attach, importVars, worker, locals>>

\* POST .../exports
QueueExport(x) ==
    /\ job[x] = Absent
    /\ Add({x})
    /\ UNCHANGED <<tableVars, requestVars, importVars, worker, locals>>

-----------------------------------------------------------------------------
(* WorkerIgnitor.processJob *)

Forget(w) == locals' = [locals EXCEPT ![w] = Blank]

\* attemptsMade >= attempts, of the job as it was taken: the attempt that is failing
\* does not count.
HookRuns(made) == made >= OneAttempt

\* The handler fails or throws: its transaction rolls back.  ImportContactsJob.failed
\* sets the status, if it is called; ExportContactsJob.failed does nothing.
Fails(w) ==
    LET imports == worker[w].key \in Puts /\ worker[w].pc # "selectContacts"
    IN  /\ import' = IF imports /\ HookRuns(locals[w].made)
                       THEN [import EXCEPT !.status = "FAILED"] ELSE import
        /\ FailJob(w, OneAttempt)
        /\ Forget(w)
        /\ UNCHANGED <<tableVars, requestVars, committed>>

\* ImportContactsJob and ExportContactsJob have one id, and a worker's Map holds one
\* handler for it, which then runs the jobs of both.  WorkerIgnitor registers neither:
\* either is taken here, which includes the workers that have the one or the other.
Handlers == {"findImport", "selectContacts"}

Take(w, k) ==
    /\ \E handler \in Handlers : TakeJob(w, k, handler)
    /\ locals' = [locals EXCEPT ![w].made = job[k].made]
    /\ UNCHANGED <<tableVars, requestVars, importVars>>

Succeed(w) ==
    /\ worker[w].pc = "return"
    /\ SucceedJob(w)
    /\ Forget(w)
    /\ UNCHANGED <<tableVars, requestVars, importVars>>

HandlerThrows(w) ==
    /\ worker[w].pc \notin {"idle", "return"}
    /\ Fails(w)

Crash(w) ==
    /\ CrashWorker(w)
    /\ Forget(w)
    /\ UNCHANGED <<tableVars, requestVars, importVars>>

LoseLock(w) ==
    /\ ExpireLock(w)
    /\ UNCHANGED <<tableVars, requestVars, importVars, locals>>

Recover(k) ==
    /\ RecoverJob(k)
    /\ UNCHANGED <<tableVars, requestVars, importVars, locals>>

-----------------------------------------------------------------------------
(* ImportContactsJob.handle *)

Run(w) == <<worker[w].key, Entry(w)>>

Settings(w) == SettingsOf[locals[w].from]

\* The settings are those of the row now, whichever PUT queued the job.  The payload
\* of an export names no import: none is found, and the job is done.
FindImport(w) ==
    /\ worker[w].pc = "findImport"
    /\ \/ /\ worker[w].key \in Puts
          /\ locals' = [locals EXCEPT ![w].from = import.from]
          /\ Goto(w, "readFile")
       \/ /\ worker[w].key \in Exports
          /\ Goto(w, "return")
          /\ UNCHANGED locals
    /\ UNCHANGED <<tableVars, requestVars, importVars, job>>

\* The job reads <fileIdentifier>.csv, whatever extension the upload got.
ReadFile(w) ==
    /\ worker[w].pc = "readFile"
    /\ IF import.csv
         THEN /\ Goto(w, "insertTags")
              /\ locals' = [locals EXCEPT ![w].rows = FileRows]
              /\ UNCHANGED <<tableVars, requestVars, importVars, job>>
         ELSE Fails(w)

\* Mutant: the tags are inserted outside the transaction.
InsertTagsAtOnce(w) ==
    /\ worker[w].pc = "insertTags"
    /\ \A n \in Settings(w).names : ~NameTaken(n)
    /\ tags' = tags \cup {[name |-> n, by |-> Run(w)] : n \in Settings(w).names}
    /\ Goto(w, "upsert")
    /\ UNCHANGED <<contact, tagged, requestVars, importVars, job, locals>>

\* TagRepository.bulkCreate: one INSERT, which a name that is taken makes fail.
InsertTags(w) ==
    LET names == Settings(w).names
    IN  /\ worker[w].pc = "insertTags"
        /\ \A n \in names : ~NameLocked(n)
        /\ IF \E n \in names : NameTaken(n)
             THEN Fails(w)
             ELSE /\ locals' = [locals EXCEPT ![w].tags = {[name |-> n, by |-> Run(w)] : n \in names}]
                  /\ Goto(w, "upsert")
                  /\ UNCHANGED <<tableVars, requestVars, importVars, job>>

\* Mutant: the subscription is among the columns that are updated.
UpdatedRowWithDate(row, subscribe) ==
    [row EXCEPT !.firstName = FileName, !.attrs = FileAttributes, !.subscribed = subscribe]

UpdatedRow(row, subscribe) == [row EXCEPT !.firstName = FileName, !.attrs = FileAttributes]

NewRow(subscribe) ==
    [firstName |-> FileName, attrs |-> FileAttributes, subscribed |-> subscribe]

\* ContactRepository.bulkCreate of the next chunk.  Without updateExistingContacts
\* there is nothing to set on a duplicate key, and the statement cannot be built.
UpsertChunk(w, chunk) ==
    LET known == {e \in chunk : Exists(e)}
        RowFor(e) == IF Exists(e) THEN UpdatedRow(contact[e], Settings(w).subscribe)
                                  ELSE NewRow(Settings(w).subscribe)
    IN  /\ worker[w].pc = "upsert"
        /\ chunk \subseteq locals[w].rows
        /\ \/ Cardinality(chunk) = ChunkSize
           \/ Cardinality(chunk) < ChunkSize /\ chunk = locals[w].rows
        /\ \A e \in chunk : ~Locked(e)
        /\ IF Settings(w).update
             THEN /\ locals' = [locals EXCEPT
                         ![w].rows    = @ \ chunk,
                         ![w].chunk   = chunk,
                         ![w].known   = @ \cup known,
                         ![w].written = [e \in Emails |-> IF e \in chunk THEN RowFor(e) ELSE @[e]]]
                  /\ Goto(w, "attachTags")
                  /\ UNCHANGED <<tableVars, requestVars, importVars, job>>
             ELSE Fails(w)

AfterChunk(rows) == IF rows = {} THEN "commit" ELSE "upsert"

\* The contacts are tagged under the ids made for them: a contact that was there
\* keeps its own, and the foreign key refuses the new one.
AttachTags(w) ==
    LET given == RequestTags(Settings(w).ids)
        new   == locals[w].tags \cup given
    IN  /\ worker[w].pc = "attachTags"
        /\ IF new # {} /\ (locals[w].known \cap locals[w].chunk # {} \/ ~(given \subseteq tags))
             THEN Fails(w)
             ELSE /\ locals' = [locals EXCEPT
                         ![w].tagged = @ \cup (locals[w].chunk \X new),
                         ![w].chunk  = {}]
                  /\ Goto(w, AfterChunk(locals[w].rows))
                  /\ UNCHANGED <<tableVars, requestVars, importVars, job>>

\* Mutant: the status is left as the PUT set it.
StillProcessing(row) == row

Succeeded(row) == [row EXCEPT !.status = "SUCCESS"]

\* The status is the last thing the transaction writes.
CommitImport(w) ==
    LET mine == locals[w]
    IN  /\ worker[w].pc = "commit"
        /\ contact' = [e \in Emails |-> IF mine.written[e] = NoRow THEN contact[e]
                                                               ELSE mine.written[e]]
        /\ tags' = tags \cup mine.tags
        /\ tagged' = tagged \cup mine.tagged
        /\ import' = Succeeded(import)
        /\ committed' = committed \cup
               {[run |-> Run(w), from |-> mine.from, known |-> mine.known]}
        /\ Goto(w, "return")
        /\ Forget(w)
        /\ UNCHANGED <<requestVars, job>>

-----------------------------------------------------------------------------
(* ExportContactsJob.handle *)

\* The payload the request makes has no audienceId, so no contact is found, and there
\* is nothing to export; that of an import has no filters, and building them throws.
SelectContacts(w) ==
    /\ worker[w].pc = "selectContacts"
    /\ \/ /\ worker[w].key \in Exports
          /\ Goto(w, "return")
          /\ UNCHANGED <<tableVars, requestVars, importVars, job, locals>>
       \/ /\ worker[w].key \in Puts
          /\ Fails(w)
=============================================================================
