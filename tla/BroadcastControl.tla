-------------------------- MODULE BroadcastControl --------------------------
(***************************************************************************)
(* The HTTP side of a broadcast: src/broadcasts/controllers and actions.   *)
(* Each request is an async handler that reads the row, awaits, and writes *)
(* back what it decided, so requests interleave at every await:            *)
(*   send    read and validate the row; add the job; set the status        *)
(*   update  read the row; commit one transaction over row and content     *)
(*   delete  one statement                                                 *)
(* An API process that dies, or a database or Redis call that throws, ends *)
(* a request where it stands.                                              *)
(***************************************************************************)
EXTENDS BroadcastState

CONSTANTS
    Editors,   \* the PUT requests that can be in flight at a time
    Keep,      \* a field a PUT leaves out
    Patches    \* the bodies PUT requests may hold

\* Any field besides the two content keys makes the payload of the broadcasts
\* row non-empty.  Content and variants are given by the completeness they leave
\* behind once merged with what is stored.
Patch == [fields: BOOLEAN, filter: Filters \cup {Keep},
          content: {Keep, "partial", "complete"},
          variants: {Keep, "partial", "complete"}]

ASSUME ControlAssumption ==
    /\ Keep \notin Filters \cup Completeness
    /\ Patches \subseteq Patch

VARIABLES
    request,   \* request[r]: where a send request stands, and the isAbTest it read
    editor     \* editor[e]: the row a PUT request read, or none

jobs == <<sendJob, abTestJob>>
controlVars == <<row, jobs, request, editor>>

-----------------------------------------------------------------------------
RequestStates ==
    {"start", "rejected", "accepted", "added", "done", "aborted", "abortedLate"}

NoEdit == [reading |-> FALSE, snapshot |-> Deleted]

ControlTypeOK ==
    /\ request \in [Requests -> [pc: RequestStates, isAbTest: BOOLEAN]]
    /\ editor \in [Editors -> [reading: BOOLEAN, snapshot: Row]]

ControlInit ==
    /\ request = [r \in Requests |-> [pc |-> "start", isAbTest |-> FALSE]]
    /\ editor = [e \in Editors |-> NoEdit]

-----------------------------------------------------------------------------
(* POST /broadcasts/:broadcastId/send *)

\* Mutant: the status is not checked.
SendableInAnyStatus(b) ==
    /\ b.exists
    /\ b.content = "complete"
    /\ b.isAbTest => b.variants # "partial"

\* Only a draft that passes SendBroadcastSchema may be sent, and for an A/B test
\* no variant may be invalid (that there is one is not asked).
Sendable(b) ==
    /\ b.exists
    /\ b.status = "DRAFT"
    /\ b.content = "complete"
    /\ b.isAbTest => b.variants # "partial"

ReadDraft(r) ==
    /\ request[r].pc = "start"
    /\ request' = [request EXCEPT ![r] =
           [pc       |-> IF Sendable(row) THEN "accepted" ELSE "rejected",
            isAbTest |-> Sendable(row) /\ row.isAbTest]]
    /\ UNCHANGED <<row, jobs, editor>>

\* Mutant: the job of a plain broadcast is added for an A/B test too.
AddBothJobs(r) ==
    /\ request[r].pc = "accepted"
    /\ request' = [request EXCEPT ![r].pc = "added"]
    /\ sendJob' = [sendJob EXCEPT ![r] = Added]
    /\ \/ /\ request[r].isAbTest
          /\ abTestJob' = [abTestJob EXCEPT ![r] = Added]
       \/ /\ ~request[r].isAbTest
          /\ UNCHANGED abTestJob
    /\ UNCHANGED <<row, editor>>

\* Which queue it goes to follows the row the request read.
AddSendJob(r) ==
    /\ request[r].pc = "accepted"
    /\ request' = [request EXCEPT ![r].pc = "added"]
    /\ \/ /\ request[r].isAbTest
          /\ abTestJob' = [abTestJob EXCEPT ![r] = Added]
          /\ UNCHANGED sendJob
       \/ /\ ~request[r].isAbTest
          /\ sendJob' = [sendJob EXCEPT ![r] = Added]
          /\ UNCHANGED abTestJob
    /\ UNCHANGED <<row, editor>>

\* Mutant: the status is written before the job is added.
SetQueuedFirst(r) ==
    /\ request[r].pc = "accepted"
    /\ request' = [request EXCEPT ![r].pc = "done"]
    /\ row' = IF row.exists THEN [row EXCEPT !.status = "QUEUED_FOR_SENDING"] ELSE row
    /\ UNCHANGED <<jobs, editor>>

\* UPDATE ... WHERE id: no row is touched when the broadcast was deleted.
SetQueued(r) ==
    /\ request[r].pc = "added"
    /\ request' = [request EXCEPT ![r].pc = "done"]
    /\ row' = IF row.exists THEN [row EXCEPT !.status = "QUEUED_FOR_SENDING"] ELSE row
    /\ UNCHANGED <<jobs, editor>>

AbortSend(r) ==
    /\ \/ /\ request[r].pc \in {"start", "accepted"}
          /\ request' = [request EXCEPT ![r].pc = "aborted"]
       \/ /\ request[r].pc = "added"
          /\ request' = [request EXCEPT ![r].pc = "abortedLate"]
    /\ UNCHANGED <<row, jobs, editor>>

-----------------------------------------------------------------------------
(* PUT /broadcasts/:broadcastId *)

ReadForUpdate(e) ==
    /\ ~editor[e].reading
    /\ row.exists
    /\ editor' = [editor EXCEPT ![e] = [reading |-> TRUE, snapshot |-> row]]
    /\ UNCHANGED <<row, jobs, request>>

\* Mutant: a field the body leaves out is written as absent.
UpdatedWithAbsent(b, snapshot, p) ==
    [b EXCEPT !.filter = p.filter]

\* Mutant: the whole row that was read is written back.
UpdatedFromSnapshot(b, snapshot, p) ==
    [snapshot EXCEPT
        !.filter  = IF p.filter = Keep THEN @ ELSE p.filter,
        !.content = IF p.content = Keep THEN @ ELSE p.content]

\* Mutant: variants the body leaves out are removed, as by delete-and-insert.
UpdatedReplacing(b, snapshot, p) ==
    [b EXCEPT
        !.isAbTest = p.variants # Keep \/ snapshot.isAbTest,
        !.variants = IF p.variants = Keep THEN "none" ELSE p.variants]

\* The row after the transaction: isAbTest is recomputed from the snapshot, and
\* only when the payload holds a field of the broadcasts row.
Updated(b, snapshot, p) ==
    LET touchesRow == p.fields \/ p.filter # Keep
    IN  [b EXCEPT
           !.filter   = IF p.filter = Keep THEN @ ELSE p.filter,
           !.isAbTest = IF touchesRow THEN p.variants # Keep \/ snapshot.isAbTest ELSE @,
           !.content  = IF p.content = Keep THEN @ ELSE p.content,
           !.variants = IF p.variants = Keep THEN @ ELSE p.variants]

CommitUpdate(e, p) ==
    /\ editor[e].reading
    /\ row' = IF row.exists THEN Updated(row, editor[e].snapshot, p) ELSE row
    /\ editor' = [editor EXCEPT ![e] = NoEdit]
    /\ UNCHANGED <<jobs, request>>

\* Validation failed, the transaction rolled back, or the process died.
AbortUpdate(e) ==
    /\ editor[e].reading
    /\ editor' = [editor EXCEPT ![e] = NoEdit]
    /\ UNCHANGED <<row, jobs, request>>

-----------------------------------------------------------------------------
(* DELETE /broadcasts/:broadcastId *)

DeleteBroadcast ==
    /\ row.exists
    /\ row' = Deleted
    /\ UNCHANGED <<jobs, request, editor>>

-----------------------------------------------------------------------------
ControlNext ==
    \/ \E r \in Requests :
          ReadDraft(r) \/ AddSendJob(r) \/ SetQueued(r) \/ AbortSend(r)
    \/ \E e \in Editors :
          ReadForUpdate(e) \/ AbortUpdate(e) \/ \E p \in Patches : CommitUpdate(e, p)
    \/ DeleteBroadcast

ControlStart == StateInit /\ ControlInit

ControlSpec == ControlStart /\ [][ControlNext]_controlVars

-----------------------------------------------------------------------------
(* Properties *)

TypeOK == StateTypeOK /\ ControlTypeOK

\* Request r put a job on one of the two queues, whatever became of it.
Queued(r) == sendJob[r] # Absent \/ abTestJob[r] # Absent

(***************************************************************************)
(* A broadcast that shows as queued has a job on a queue: the job is added *)
(* before the status is written, so a crash between the two never leaves a *)
(* broadcast that claims to be on its way with nothing to send it          *)
(* (send_broadcast_action.ts).                                             *)
(***************************************************************************)
QueuedHasJob ==
    row.exists /\ row.status = "QUEUED_FOR_SENDING" =>
        \E r \in Requests : Queued(r)

(***************************************************************************)
(* The answer "sent" is never taken back: while the broadcast exists, a    *)
(* send request that was answered leaves it queued, whatever PUT requests  *)
(* read before and wrote after (UpdateBroadcastDto has no status).         *)
(***************************************************************************)
AcknowledgedStaysQueued ==
    \A r \in Requests :
        request[r].pc = "done" /\ row.exists => row.status = "QUEUED_FOR_SENDING"

(***************************************************************************)
(* A broadcast marked as an A/B test has variants to test, although the    *)
(* flag is recomputed from a row read before the transaction: variants are *)
(* never removed while the broadcast exists (update_broadcast_action.ts).  *)
(***************************************************************************)
AbTestHasVariants ==
    row.exists /\ row.isAbTest => row.variants # "none"

(***************************************************************************)
(* Once one send request was answered, no later request is accepted.       *)
(***************************************************************************)
NoSendAfterAcknowledged ==
    [][\A r, q \in Requests :
          /\ request[r].pc = "start"
          /\ request'[r].pc = "accepted"
          => request[q].pc # "done"]_controlVars

(***************************************************************************)
(* "Only a draft broadcast can be sent." (broadcast_controller.ts): a send *)
(* job is added only while the broadcast is a draft.  The status is read   *)
(* before the job is added and written after, so two requests may both     *)
(* pass the check and the second adds its job to a queued broadcast.       *)
(***************************************************************************)
SendOnlyFromDraft ==
    [][\A r \in Requests :
          ~Queued(r) /\ Queued(r)' /\ row.exists => row.status = "DRAFT"]_controlVars
=============================================================================
