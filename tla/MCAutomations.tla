---------------------------- MODULE MCAutomations ----------------------------
(***************************************************************************)
(* TLC instance of Automations.  The trigger is there; requests may hang   *)
(* steps of the three runnable kinds under it or under each other.  One    *)
(* job takes contact 1 in, and one pages through the contacts pending at   *)
(* the e-mail step.                                                        *)
(***************************************************************************)
EXTENDS Automations, TLC

CONSTANTS trigger, addTag, removeTag, sendEmail, vip, pro

MCKind == [s \in Steps |-> CASE s = trigger   -> "TRIGGER"
                             [] s = addTag    -> "ACTION_ADD_TAG"
                             [] s = removeTag -> "ACTION_REMOVE_TAG"
                             [] s = sendEmail -> "ACTION_SEND_EMAIL"]

MCTagsOf == [s \in Steps |-> CASE s = addTag    -> {vip, pro}
                               [] s = removeTag -> {vip}
                               [] OTHER         -> {}]

MCSeeded == [s \in {trigger} |-> NoStep]

MCFilter ==
    [type |-> "OR",
     groups |-> {[type |-> "OR",
                  conditions |-> {[field |-> "tags", operation |-> "notContains",
                                   value |-> {vip}]}]}]

MCColumns == [c \in Contacts |-> [f \in TextFields |-> NoText]]

MCTextHolds == [operation \in TextOperations, text \in {NoText}, value \in {NoText} |-> FALSE]

MCEntryContact == [e \in Entries |-> 1]

MCPending == {2, 3} \X {sendEmail}

Started(keys) == \E k \in keys : job[k].state # "waiting"

Requested == {s \in Steps \ {trigger} : author[s].pc # "absent"}

\* Bounds: at most one job stalls in a behaviour; two steps are requested while no
\* job has started, and jobs run with one step under the trigger; only contact 1 is
\* tagged, and pro comes together with vip and for good.  The contact's entry and the
\* paging, whose jobs leave every table alone, are explored apart, the paging without
\* tags.
Bounds ==
    /\ Cardinality({k \in Keys : job[k].stalls > 0 \/ Stalled(job[k])}) <= 1
    /\ Cardinality(Requested) <= 2
    /\ \A s \in Requested : author[s].parent # NoStep
    /\ Started(EntryJobs \cup BulkJobs) =>
          Cardinality(Requested) <= 1 /\ \A s \in Requested : Created(s)
    /\ tagged[2] = {} /\ tagged[3] = {}
    /\ pro \in tags /\ pro \notin lost[1]
    /\ pro \in tagged[1] => vip \in tagged[1] \cup lost[1]
    /\ Started(BulkJobs) =>
          /\ ~Started(EntryJobs)
          /\ tagged[1] = {} /\ lost[1] = {} /\ tags = Tags

Symmetry == Permutations(Workers)
=============================================================================
