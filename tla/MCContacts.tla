----------------------------- MODULE MCContacts -----------------------------
(***************************************************************************)
(* TLC instance of Contacts.  A file with two rows, taken in chunks of     *)
(* one; a PUT that creates a tag and uses another, one without tags, and   *)
(* one that does not update; two requests for a tag of one name; two       *)
(* PATCHes of a contact in the file.                                       *)
(***************************************************************************)
EXTENDS Contacts, TLC

CONSTANTS x, y, City, Index, Plan, vip, lead, t1, t2, tagging, plain, creating, p1, p2

MCTagNameOf == [t \in TagRequests |-> vip]

MCPatchOf == p1 :> [email |-> x, attrs |-> {City}] @@ p2 :> [email |-> x, attrs |-> {Plan}]

MCAttachTo == [a \in Attaches |-> x]

MCSettingsOf ==
    tagging  :> [update |-> TRUE,  subscribe |-> TRUE,  names |-> {lead}, ids |-> {t1}] @@
    plain    :> [update |-> TRUE,  subscribe |-> TRUE,  names |-> {},     ids |-> {}] @@
    creating :> [update |-> FALSE, subscribe |-> FALSE, names |-> {},     ids |-> {}]

MCTextHolds ==
    [operation \in TextOperations, text \in {x, y, FileName}, value \in {x, FileName} |->
        (operation = "notContains") = (text # value)]

About(field, operation, value) == [field |-> field, operation |-> operation, value |-> value]

MCFilters ==
    {[type |-> filterType,
      groups |-> {[type |-> groupType,
                   conditions |-> {About("tags", "contains", {vip}), About("email", "eq", x)}],
                  [type |-> "AND",
                   conditions |-> {About("tags", "notContains", {lead}),
                                   About("firstName", operation, FileName)}]}] :
        filterType \in {"AND", "OR"}, groupType \in {"AND", "OR"},
        operation \in {"contains", "notContains"}}

Faulty(k) == job[k].stalls > 0 \/ Stalled(job[k]) \/ job[k].made > 0

Faults == {k \in Keys : Faulty(k)}

PutsMade == {p \in Puts : put[p] # "absent"}

Patching == \E p \in Patches : patch[p].pc # "absent"

Attaching == \E a \in Attaches : attach[a].pc # "absent"

Asked == {t \in TagRequests : maker[t] # "absent"}

\* Bounds.  y comes from the file only.  At most one job stalls or fails, at most
\* two PUTs are made, one when there are tags and a faulty job.  The PATCHes meet
\* an import without tags and no fault; requests that attach or detach meet the
\* import with tags; the second request for a tag, a file that is no CSV, and an
\* export are explored without what they do not interact with.
Bounds ==
    /\ contact[y] # NoRow => contact[y].firstName = FileName
    /\ Cardinality(Faults) <= 1
    /\ Cardinality(PutsMade) <= IF Faults = {} \/ Asked = {} THEN 2 ELSE 1
    /\ Patching => Asked = {} /\ PutsMade \subseteq {plain} /\ Faults = {}
    /\ Attaching => PutsMade \subseteq {tagging} /\ t2 \notin Asked
    /\ t2 \in Asked => PutsMade = {}
    /\ ~import.csv /\ import.status # "none" => Cardinality(PutsMade) <= 1 /\ ~Patching
    /\ (\E e \in Exports : job[e] # Absent) => import.status = "none" /\ Asked = {} /\ ~Patching

Symmetry == Permutations(Workers)
=============================================================================
