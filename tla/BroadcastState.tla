--------------------------- MODULE BroadcastState ---------------------------
(***************************************************************************)
(* What the HTTP side and the workers share about one broadcast: its row   *)
(* in the database, with the completeness of the content joined to it, and *)
(* the jobs its send requests put on the queues.  Broadcasts share nothing *)
(* with each other, so one is modelled.                                    *)
(***************************************************************************)
EXTENDS BullMQ

CONSTANTS
    Requests,   \* the POST .../send requests that arrive for the broadcast
    Filters,    \* the audience-and-segment choices a broadcast can hold
    NoFilter,   \* the filter of a deleted row
    Drafts      \* the rows the broadcast may hold when the first request arrives

VARIABLES
    row,        \* the broadcasts row with its e-mail content and variants
    sendJob,    \* sendJob[r]: the SendBroadcastJob request r put on "broadcasts"
    abTestJob   \* abTestJob[r]: the SendAbTestBroadcastJob it put on "abtests_broadcasts"

-----------------------------------------------------------------------------
\* The statuses the code ever writes (the schema lists five more).
Statuses == {"DRAFT", "QUEUED_FOR_SENDING"}

\* "none": the row links no content, or it has no variants; "partial": what is
\* there fails SendBroadcastSchema; "complete": it passes.
Completeness == {"none", "partial", "complete"}

Row == [exists: BOOLEAN, status: Statuses, isAbTest: BOOLEAN,
        filter: Filters \cup {NoFilter},
        content: Completeness, variants: Completeness]

Deleted == [exists |-> FALSE, status |-> "DRAFT", isAbTest |-> FALSE,
            filter |-> NoFilter, content |-> "none", variants |-> "none"]

\* BroadcastRepository.create: the defaults of the schema, no content yet.
NewRow(f) == [exists |-> TRUE, status |-> "DRAFT", isAbTest |-> FALSE,
              filter |-> f, content |-> "none", variants |-> "none"]

\* A row as created, or as PUT requests that are over have left it.
ASSUME StateAssumption ==
    /\ NoFilter \notin Filters
    /\ \A b \in Drafts :
          /\ b \in Row
          /\ b.exists
          /\ b.filter \in Filters
          /\ b.status = "DRAFT"
          /\ b.isAbTest => b.variants # "none"

StateTypeOK ==
    /\ row \in Row
    /\ row.exists => row.filter \in Filters
    /\ sendJob \in [Requests -> Job]
    /\ abTestJob \in [Requests -> Job]

StateInit ==
    /\ row \in Drafts
    /\ sendJob = [r \in Requests |-> Absent]
    /\ abTestJob = [r \in Requests |-> Absent]
=============================================================================
