------------------------------ MODULE Contacts ------------------------------
(***************************************************************************)
(* The whole of src/audiences: requests about contacts and tags beside the *)
(* imports, and the segments that select among the contacts.               *)
(***************************************************************************)
EXTENDS ContactImports

Init ==
    /\ contact = [e \in Emails |-> NoRow]
    /\ tags = {}
    /\ tagged = {}
    /\ maker = [t \in TagRequests |-> "absent"]
    /\ patch = [p \in Patches |-> [pc |-> "absent", row |-> NoRow, seen |-> {}]]
    /\ attach = [a \in Attaches |-> [pc |-> "absent", tag |-> NoTag]]
    /\ import = [status |-> "none", csv |-> FALSE, from |-> NoPut]
    /\ put = [p \in Puts |-> "absent"]
    /\ committed = {}
    /\ job = [k \in Keys |-> Absent]
    /\ worker = [w \in Workers |-> Idle]
    /\ locals = [w \in Workers |-> Blank]

TakeAny(w) == \E k \in Keys : Take(w, k)

RecoverAny == \E k \in Keys : Recover(k)

UpsertAny(w) == \E chunk \in SUBSET FileRows : UpsertChunk(w, chunk)

Next ==
    \/ \E e \in Emails : CreateContact(e) \/ \E t \in tags : DetachTag(e, t)
    \/ \E p \in Patches : ReadContact(p) \/ WriteContact(p)
    \/ \E t \in TagRequests : CheckTag(t) \/ InsertTag(t)
    \/ \E t \in tags : DeleteTag(t) \/ \E a \in Attaches : CheckAttach(a, t)
    \/ \E a \in Attaches : ReadTagged(a) \/ InsertTagged(a)
    \/ \E csv \in BOOLEAN : Upload(csv)
    \/ \E p \in Puts : CheckSettings(p) \/ UpdateSettings(p) \/ QueueImport(p)
    \/ \E x \in Exports : QueueExport(x)
    \/ \E w \in Workers :
          \/ TakeAny(w) \/ FindImport(w) \/ ReadFile(w) \/ InsertTags(w) \/ UpsertAny(w)
          \/ AttachTags(w) \/ CommitImport(w) \/ SelectContacts(w) \/ Succeed(w)
          \/ HandlerThrows(w) \/ Crash(w) \/ LoseLock(w)
    \/ RecoverAny

Spec == Init /\ [][Next]_vars

-----------------------------------------------------------------------------
(* Properties *)

ContactsTypeOK ==
    /\ contact \in [Emails -> Row \cup {NoRow}]
    /\ tags \subseteq Tag
    /\ tagged \subseteq Emails \X Tag
    /\ maker \in [TagRequests -> {"absent", "checked", "done", "failed"}]
    /\ patch \in [Patches -> [pc: {"absent", "read", "done"}, row: Row \cup {NoRow},
                              seen: SUBSET Patches]]
    /\ attach \in [Attaches -> [pc: {"absent", "checked", "read", "done", "failed"},
                                tag: Tag \cup {NoTag}]]
    /\ import \in [status: Statuses, csv: BOOLEAN, from: Puts \cup {NoPut}]
    /\ put \in [Puts -> {"absent", "checked", "updated", "queued"}]
    /\ committed \subseteq [run: Puts \X Runs, from: Puts, known: SUBSET Emails]
    /\ job \in [Keys -> Job]
    /\ worker \in [Workers -> [pc: Pcs, key: Keys \cup {NoKey}, entry: Nat]]

(***************************************************************************)
(* An import is there as a whole or not at all: with the status SUCCESS    *)
(* every row of the file is a contact, and a tag that a run inserted is    *)
(* there only when the run committed, as is every tag a contact has.       *)
(***************************************************************************)
ImportIsWhole ==
    /\ import.status = "SUCCESS" => (\A e \in FileRows : Exists(e)) /\ committed # {}
    /\ \A t \in tags :
          t.by \notin TagRequests => \E c \in committed : c.run = t.by
    /\ \A pair \in tagged : Exists(pair[1]) /\ pair[2] \in tags

(***************************************************************************)
(* Whether a contact is subscribed is decided when its row is inserted: no *)
(* import subscribes, or unsubscribes, a contact that was there, and no    *)
(* PATCH that writes back the row it read.                                 *)
(***************************************************************************)
SubscribedAtBirth ==
    [][\A e \in Emails : Exists(e) =>
          contact'[e] # NoRow /\ contact'[e].subscribed = contact[e].subscribed]_vars

(***************************************************************************)
(* The attributes a PATCH set are lost only to a PATCH that had read the   *)
(* contact before they were written, or to an import that replaced them.   *)
(***************************************************************************)
LostOnlyByOverlap ==
    \A p \in Patches :
        LET e == PatchOf[p].email
        IN  patch[p].pc = "done" =>
                \/ PatchOf[p].attrs \subseteq contact[e].attrs
                \/ \E q \in Patches \ {p} :
                      patch[q].pc = "done" /\ PatchOf[q].email = e /\ p \notin patch[q].seen
                \/ \E c \in committed : e \in c.known

(***************************************************************************)
(* When the job of the PUT that configured an import last is reported      *)
(* done, the import shows SUCCESS and that job committed a run with the    *)
(* settings of that PUT, whichever jobs of earlier PUTs ran before it,     *)
(* beside it or after it, and however often it was run itself.  Of a job   *)
(* that failed nothing is said: the import stays in PROCESSING.            *)
(***************************************************************************)
LastSettingsApplied ==
    \A p \in Puts :
        (import.from = p /\ job[p].state = "completed") =>
            /\ import.status = "SUCCESS"
            /\ \E c \in committed : c.from = p /\ c.run[1] = p

-----------------------------------------------------------------------------
ContactRow(e) ==
    [email |-> e, firstName |-> contact[e].firstName, lastName |-> NoText,
     tags |-> {pair[2].name : pair \in {x \in tagged : x[1] = e}}]

\* What a condition means: a name that is not there contains nothing.
HoldsOf(condition, row) ==
    CASE condition.field = "tags" ->
           (condition.operation = "contains") = (condition.value \cap row.tags # {})
      [] condition.field # "tags" /\ row[condition.field] = NoText ->
           condition.operation = "notContains"
      [] condition.field # "tags" /\ row[condition.field] # NoText ->
           TextHolds[condition.operation, row[condition.field], condition.value]

GroupHolds(group, row) ==
    IF group.type = "AND" THEN \A c \in group.conditions : HoldsOf(c, row)
                          ELSE \E c \in group.conditions : HoldsOf(c, row)

FilterHolds(filter, row) ==
    IF filter.type = "AND" THEN \A g \in filter.groups : GroupHolds(g, row)
                           ELSE \E g \in filter.groups : GroupHolds(g, row)

\* Every condition is one the builder knows, and no group or filter is empty.
Known(filter) ==
    /\ filter.groups # {}
    /\ \A g \in filter.groups :
          g.conditions # {} /\ \A c \in g.conditions : ~LeftOut(c)

\* Every column the filter asks about has a value.
Filled(filter, row) ==
    \A g \in filter.groups : \A c \in g.conditions :
        c.field = "tags" \/ row[c.field] # NoText

(***************************************************************************)
(* As long as the builder leaves nothing of it out, a segment selects only *)
(* contacts its filter describes, also where columns are empty and the SQL *)
(* is neither true nor false, and all of those whose columns have values.  *)
(***************************************************************************)
SegmentSelects ==
    \A filter \in SegmentFilters, e \in Emails :
        (Exists(e) /\ Known(filter)) =>
            /\ Selects(filter, ContactRow(e)) => FilterHolds(filter, ContactRow(e))
            /\ Filled(filter, ContactRow(e)) =>
                  (FilterHolds(filter, ContactRow(e)) => Selects(filter, ContactRow(e)))
=============================================================================
