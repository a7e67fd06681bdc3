--------------------------- MODULE Contacts_proofs ---------------------------
(***************************************************************************)
(* The properties of Contacts for any contacts, tags, requests, files,     *)
(* settings, chunk sizes, workers and tolerated stalls.                    *)
(***************************************************************************)
EXTENDS Contacts, JobWorkers_proofs

-----------------------------------------------------------------------------
(* The inductive invariant. *)

AttemptsFn == [k \in Keys |-> OneAttempt]

\* Every job is added once.
QueueOK == QueueInv(Keys, AttemptsFn, Pcs, Keys)

\* What is committed.
TablesOK ==
    /\ contact \in [Emails -> Row \cup {NoRow}]
    /\ tags \subseteq Tag
    /\ tagged \subseteq Emails \X Tag
    /\ \A t \in tags : t.by \in TagRequests \/ \E c \in committed : c.run = t.by
    /\ \A pair \in tagged : Exists(pair[1]) /\ pair[2] \in tags

\* A contact that a PATCH read, or a request attaches to, is there for good, and stays
\* subscribed as it was read.
RequestsOK ==
    /\ maker \in [TagRequests -> {"absent", "checked", "done", "failed"}]
    /\ patch \in [Patches -> [pc: {"absent", "read", "done"}, row: Row \cup {NoRow},
                              seen: SUBSET Patches]]
    /\ attach \in [Attaches -> [pc: {"absent", "checked", "read", "done", "failed"},
                                tag: Tag \cup {NoTag}]]
    /\ \A p \in Patches :
          /\ patch[p].pc # "absent" => Exists(PatchOf[p].email)
          /\ patch[p].pc = "read" =>
                /\ patch[p].row \in Row
                /\ patch[p].row.subscribed = contact[PatchOf[p].email].subscribed
    /\ \A a \in Attaches :
          attach[a].pc \in {"checked", "read"} => Exists(AttachTo[a]) /\ attach[a].tag \in Tag

\* What may have taken the attributes of a PATCH away.
Excused(p) ==
    \/ \E q \in Patches \ {p} :
          patch[q].pc = "done" /\ PatchOf[q].email = PatchOf[p].email /\ p \notin patch[q].seen
    \/ \E c \in committed : PatchOf[p].email \in c.known

\* Those of a PATCH that is done are in the row, or in the copy of whoever saw it done.
AttributesKept ==
    \A p \in Patches :
        /\ patch[p].pc = "done" =>
              PatchOf[p].attrs \subseteq contact[PatchOf[p].email].attrs \/ Excused(p)
        /\ \A q \in Patches : patch[q].pc = "read" /\ p \in patch[q].seen =>
              /\ patch[p].pc = "done" /\ PatchOf[p].email = PatchOf[q].email
              /\ PatchOf[p].attrs \subseteq patch[q].row.attrs \/ Excused(p)

\* The job of p has returned, or is about to.
CarriedOut(p) ==
    \/ job[p].state = "completed"
    \/ \E w \in Workers : worker[w].pc = "return" /\ worker[w].key = p

\* It carried out the settings of p.
Applied(p) ==
    /\ import.status = "SUCCESS"
    /\ \E c \in committed : c.from = p /\ c.run[1] = p

\* An import has the settings of a PUT, and a job for each PUT that queued one.
ImportOK ==
    /\ import \in [status: Statuses, csv: BOOLEAN, from: Puts \cup {NoPut}]
    /\ put \in [Puts -> {"absent", "checked", "updated", "queued"}]
    /\ committed \subseteq [run: Puts \X Runs, from: Puts, known: SUBSET Emails]
    /\ import.status = "PROCESSING" => import.from \in Puts
    /\ import.from \in Puts => put[import.from] \in {"updated", "queued"}
    /\ import.status = "SUCCESS" => (\A e \in FileRows : Exists(e)) /\ committed # {}
    /\ \A p \in Puts :
          /\ put[p] # "absent" => import.status # "none"
          /\ put[p] \in {"updated", "queued"} => import.from \in Puts
          /\ put[p] = "queued" <=> job[p] # Absent
          /\ CarriedOut(p) /\ import.from = p => Applied(p)

Outside == {"idle", "return", "findImport", "selectContacts"}
Reading == {"readFile", "insertTags"}
Writing == {"insertTags", "upsert", "attachTags", "commit"}

Transaction ==
    [made: {0}, from: Puts \cup {NoPut}, tags: SUBSET Tag, rows: SUBSET FileRows,
     chunk: SUBSET FileRows, known: SUBSET Emails,
     written: [Emails -> Row \cup {NoRow}], tagged: SUBSET (Emails \X Tag)]

\* A transaction replaces no row it did not know, and leaves the subscription alone; its
\* contacts are tagged with its own tags or with tags that are there.
TransactionOK(w) ==
    /\ locals[w] \in Transaction
    /\ \A e \in Emails : locals[w].written[e] # NoRow /\ Exists(e) =>
          e \in locals[w].known /\ locals[w].written[e].subscribed = contact[e].subscribed
    /\ \A e \in locals[w].chunk : locals[w].written[e] # NoRow
    /\ \A t \in locals[w].tags : t.by = Run(w)
    /\ \A pair \in locals[w].tagged :
          locals[w].written[pair[1]] # NoRow /\ pair[2] \in tags \cup locals[w].tags

\* How far the handler has come.
StageOK(w) ==
    LET pc == worker[w].pc
    IN  /\ pc \in Outside => locals[w] = Blank
        /\ pc \in Reading \cup Writing => worker[w].key \in Puts
        /\ pc \in Reading \cup Writing => locals[w].from \in Puts
        /\ pc \in Writing => \A e \in FileRows \ locals[w].rows : locals[w].written[e] # NoRow
        /\ pc \in Reading => locals[w].tagged = {}
        /\ pc = "commit" => locals[w].rows = {}

\* No row is written by two transactions at a time.
RowsLocked ==
    \A v, w \in Workers : v # w =>
        \A e \in Emails : locals[v].written[e] = NoRow \/ locals[w].written[e] = NoRow

WorkersLocalsOK ==
    /\ locals \in [Workers -> Transaction]
    /\ \A w \in Workers : TransactionOK(w) /\ StageOK(w)
    /\ RowsLocked

\* A handler that runs the job of the PUT which configured the import last has read the
\* settings of that PUT: there was no such job before.
LatestRead ==
    \A w \in Workers :
        worker[w].pc \in Reading \cup Writing /\ worker[w].key = import.from =>
            locals[w].from = import.from

ContactsInv ==
    /\ QueueOK
    /\ TablesOK
    /\ RequestsOK
    /\ AttributesKept
    /\ ImportOK
    /\ WorkersLocalsOK
    /\ LatestRead

-----------------------------------------------------------------------------
(* Steps that leave most of it alone. *)

\* What no step does to a contact: SubscribedAtBirth.
ContactsStay ==
    \A e \in Emails : Exists(e) =>
        contact'[e] # NoRow /\ contact'[e].subscribed = contact[e].subscribed

StepKeeps == ContactsInv' /\ ContactsStay

\* One attempt is at least one.
LEMMA Attempts ==
  /\ AttemptsFn \in [Keys -> Nat \ {0}] /\ \A k \in Keys : AttemptsFn[k] = OneAttempt
  /\ "idle" \in Pcs
  BY DEF AttemptsFn, OneAttempt, Pcs

\* Requests leave the queue alone.
LEMMA QueueSame ==
  ASSUME QueueOK, UNCHANGED queueVars
  PROVE  QueueOK'
  BY DEF QueueOK, QueueInv, QueueTypes, WorkersOK, EntriesDiffer, LocksOK, queueVars

\* What a transaction relies on is locked: rows it wrote, tags it gives.
LEMMA LocalsSame ==
  ASSUME WorkersLocalsOK, UNCHANGED <<worker, locals>>,
         \A e \in Emails : Locked(e) => contact'[e] = contact[e],
         \A t \in tags : TagLocked(t) => t \in tags'
  PROVE  WorkersLocalsOK'
  <1>1. \A w \in Workers : TransactionOK(w)'
    <2> SUFFICES ASSUME NEW w \in Workers
                 PROVE  TransactionOK(w)'
      OBVIOUS
    <2>1. TransactionOK(w)
      BY DEF WorkersLocalsOK
    <2>2. \A e \in Emails : locals[w].written[e] # NoRow => contact'[e] = contact[e]
      BY DEF Locked
    <2>3. \A pair \in locals[w].tagged : pair[2] \in tags => pair[2] \in tags'
      BY DEF TagLocked
    <2>4. Run(w)' = Run(w)
      BY DEF Run, Entry
    <2> QED
      BY <2>1, <2>2, <2>3, <2>4 DEF TransactionOK, Exists
  <1>2. \A w \in Workers : StageOK(w)'
    BY DEF WorkersLocalsOK, StageOK
  <1> QED
    BY <1>1, <1>2 DEF WorkersLocalsOK, RowsLocked

\* Requests that do nothing rely on contacts that are there.
LEMMA RequestsSame ==
  ASSUME RequestsOK, UNCHANGED <<maker, patch, attach>>, ContactsStay
  PROVE  RequestsOK'
  BY AudienceAssumption DEF RequestsOK, ContactsStay, Exists

\* Without a PATCH, attributes are lost to a commit that knew the contact.
LEMMA AttributesSame ==
  ASSUME AttributesKept, UNCHANGED patch, committed \subseteq committed',
         \A p \in Patches : patch[p].pc = "done" =>
            \/ contact'[PatchOf[p].email] = contact[PatchOf[p].email]
            \/ \E c \in committed' : PatchOf[p].email \in c.known
  PROVE  AttributesKept'
  <1>1. \A p \in Patches : Excused(p) => Excused(p)'
    BY DEF Excused
  <1>2. \A p \in Patches : (\E c \in committed' : PatchOf[p].email \in c.known) => Excused(p)'
    BY DEF Excused
  <1> QED
    BY <1>1, <1>2 DEF AttributesKept

\* Jobs and imports that stay as they are.
LEMMA ImportSame ==
  ASSUME ImportOK, ContactsStay, UNCHANGED <<import, put, committed>>,
         \A p \in Puts : job'[p] = Absent <=> job[p] = Absent,
         \A p \in Puts : CarriedOut(p)' => CarriedOut(p)
  PROVE  ImportOK'
  <1>1. import' = import /\ put' = put /\ committed' = committed
    OBVIOUS
  <1>2. \A e \in FileRows : Exists(e) => contact'[e] # NoRow
    BY AudienceAssumption DEF ContactsStay
  <1> HIDE DEF CarriedOut
  <1>3. \A p \in Puts : Applied(p)' <=> Applied(p)
    BY <1>1 DEF Applied
  <1> QED
    BY <1>1, <1>2, <1>3 DEF ImportOK, Exists

\* A request about contacts or tags alone.
LEMMA RequestStep ==
  ASSUME ContactsInv, UNCHANGED <<importVars, put, queueVars, locals>>,
         ContactsStay, TablesOK', RequestsOK', AttributesKept',
         \A e \in Emails : Locked(e) => contact'[e] = contact[e],
         \A t \in tags : TagLocked(t) => t \in tags'
  PROVE  StepKeeps
  <1>1. QueueOK'
    BY QueueSame DEF ContactsInv
  <1>2. WorkersLocalsOK'
    BY LocalsSame DEF ContactsInv, queueVars
  <1>3. \A p \in Puts : CarriedOut(p)' <=> CarriedOut(p)
    BY DEF CarriedOut, queueVars
  <1>4. ImportOK'
    BY <1>3, ImportSame DEF ContactsInv, importVars, queueVars
  <1>5. LatestRead'
    BY DEF ContactsInv, LatestRead, importVars, queueVars
  <1> QED
    BY <1>1, <1>2, <1>4, <1>5 DEF StepKeeps, ContactsInv

-----------------------------------------------------------------------------
(* Requests about contacts and tags. *)

LEMMA CreateContactKeeps ==
  ASSUME ContactsInv, NEW e \in Emails, CreateContact(e)
  PROVE  StepKeeps
  <1> USE DEF ContactsInv
  <1> DEFINE row == [firstName |-> NoText, attrs |-> {}, subscribed |-> FALSE]
  <1>1. row \in Row /\ row # NoRow
    <2>1. row \in Row
      BY DEF Row
    <2> HIDE DEF row
    <2> QED
      BY <2>1, RowAssumption
  <1> HIDE DEF row
  <1>2. /\ ~Exists(e) /\ ~Locked(e)
        /\ contact' = [contact EXCEPT ![e] = row]
        /\ UNCHANGED <<tags, tagged, requestVars, importVars, queueVars, locals>>
    BY DEF CreateContact, row
  <1>3. contact' \in [Emails -> Row \cup {NoRow}] /\ \A f \in Emails : f # e => contact'[f] = contact[f]
    BY <1>1, <1>2 DEF TablesOK
  <1>4. ContactsStay /\ contact'[e] = row
    BY <1>1, <1>2, <1>3 DEF ContactsStay, Exists, TablesOK
  <1>5. TablesOK'
    <2>1. \A pair \in tagged : Exists(pair[1]) => Exists(pair[1])'
      BY <1>4 DEF TablesOK, ContactsStay, Exists
    <2> QED
      BY <1>2, <1>3, <2>1 DEF TablesOK, importVars
  <1>6. RequestsOK'
    BY <1>2, <1>4, RequestsSame DEF requestVars
  <1>7. AttributesKept'
    <2>1. \A p \in Patches : patch[p].pc = "done" => PatchOf[p].email # e /\ PatchOf[p].email \in Emails
      BY <1>2, AudienceAssumption DEF RequestsOK
    <2> QED
      BY <1>2, <1>3, <2>1, AttributesSame DEF requestVars, importVars
  <1> QED
    BY <1>2, <1>3, <1>4, <1>5, <1>6, <1>7, RequestStep DEF requestVars

LEMMA ReadContactKeeps ==
  ASSUME ContactsInv, NEW p \in Patches, ReadContact(p)
  PROVE  StepKeeps
  <1> USE DEF ContactsInv
  <1> DEFINE e == PatchOf[p].email
             seen == {q \in Patches : patch[q].pc = "done" /\ PatchOf[q].email = e}
  <1>1. /\ patch[p].pc = "absent" /\ Exists(e) /\ e \in Emails
        /\ patch' = [patch EXCEPT ![p] = [pc |-> "read", row |-> contact[e], seen |-> seen]]
        /\ UNCHANGED <<tableVars, maker, attach, put, importVars, queueVars, locals>>
    BY AudienceAssumption DEF ReadContact
  <1>2. contact[e] \in Row
    BY <1>1 DEF TablesOK, Exists
  <1>3. /\ patch'[p] = [pc |-> "read", row |-> contact[e], seen |-> seen]
        /\ \A q \in Patches : q # p => patch'[q] = patch[q]
        /\ patch' \in [Patches -> [pc: {"absent", "read", "done"}, row: Row \cup {NoRow},
                              seen: SUBSET Patches]]
    BY <1>1, <1>2 DEF RequestsOK
  <1>4. ContactsStay
    BY <1>1 DEF ContactsStay, tableVars, Exists
  <1>5. TablesOK'
    BY <1>1 DEF TablesOK, tableVars, importVars, Exists
  <1>6. RequestsOK'
    BY <1>1, <1>2, <1>3 DEF RequestsOK, tableVars, Exists
  <1>7. AttributesKept'
    <2>1. contact' = contact /\ committed' = committed
      BY <1>1 DEF tableVars, importVars
    <2>2. \A q \in Patches : patch'[q].pc = "done" <=> patch[q].pc = "done"
      BY <1>1, <1>3
    <2>3. \A q \in Patches : patch[q].pc = "done" => patch'[q].seen = patch[q].seen
      BY <1>1, <1>3
    <2>4. \A q \in Patches : Excused(q) => Excused(q)'
      BY <2>1, <2>2, <2>3 DEF Excused
    <2> SUFFICES ASSUME NEW o \in Patches
                 PROVE  /\ patch'[o].pc = "done" =>
                              PatchOf[o].attrs \subseteq contact[PatchOf[o].email].attrs \/ Excused(o)
                        /\ \A q \in Patches : patch'[q].pc = "read" /\ o \in patch'[q].seen =>
                              /\ patch'[o].pc = "done" /\ PatchOf[o].email = PatchOf[q].email
                              /\ PatchOf[o].attrs \subseteq patch'[q].row.attrs \/ Excused(o)
      BY <2>1, <2>4 DEF AttributesKept
    <2>5. patch'[o].pc = "done" =>
             PatchOf[o].attrs \subseteq contact[PatchOf[o].email].attrs \/ Excused(o)
      BY <2>2 DEF AttributesKept
    <2>6. ASSUME NEW q \in Patches, patch'[q].pc = "read", o \in patch'[q].seen
          PROVE  /\ patch'[o].pc = "done" /\ PatchOf[o].email = PatchOf[q].email
                 /\ PatchOf[o].attrs \subseteq patch'[q].row.attrs \/ Excused(o)
      <3>1. CASE q = p
        BY <1>3, <2>2, <2>5, <2>6, <3>1
      <3>2. CASE q # p
        BY <1>3, <2>2, <2>6, <3>2 DEF AttributesKept
      <3> QED
        BY <3>1, <3>2
    <2> QED
      BY <2>5, <2>6
  <1> QED
    BY <1>1, <1>4, <1>5, <1>6, <1>7, RequestStep DEF tableVars

LEMMA WriteContactKeeps ==
  ASSUME ContactsInv, NEW p \in Patches, WriteContact(p)
  PROVE  StepKeeps
  <1> USE DEF ContactsInv
  <1> DEFINE e == PatchOf[p].email
             row == patch[p].row
             merged == Merged(row, PatchOf[p].attrs)
  <1>1. /\ patch[p].pc = "read" /\ ~Locked(e) /\ e \in Emails /\ Exists(e)
        /\ contact' = [contact EXCEPT ![e] = merged]
        /\ patch' = [patch EXCEPT ![p].pc = "done"]
        /\ UNCHANGED <<tags, tagged, maker, attach, put, importVars, queueVars, locals>>
    BY AudienceAssumption DEF WriteContact, RequestsOK
  <1>2. row \in Row /\ row.subscribed = contact[e].subscribed
    BY <1>1 DEF RequestsOK
  <1>3. /\ merged \in Row /\ merged # NoRow
        /\ merged.subscribed = row.subscribed
        /\ merged.attrs = row.attrs \cup PatchOf[p].attrs
    <2>1. PatchOf[p].attrs \subseteq Attributes
      BY AudienceAssumption
    <2> QED
      BY <1>2, <2>1, RowAssumption DEF Merged, Row
  <1> HIDE DEF merged
  <1>4. /\ patch'[p].pc = "done" /\ patch'[p].row = row /\ patch'[p].seen = patch[p].seen
        /\ \A q \in Patches : q # p => patch'[q] = patch[q]
        /\ patch' \in [Patches -> [pc: {"absent", "read", "done"}, row: Row \cup {NoRow},
                              seen: SUBSET Patches]]
    BY <1>1 DEF RequestsOK
  <1>5. /\ contact' \in [Emails -> Row \cup {NoRow}] /\ contact'[e] = merged
        /\ \A f \in Emails : f # e => contact'[f] = contact[f]
    BY <1>1, <1>3 DEF TablesOK
  <1>6. ContactsStay
    BY <1>2, <1>3, <1>5 DEF ContactsStay, Exists
  <1>7. TablesOK'
    <2>1. \A pair \in tagged : Exists(pair[1]) => Exists(pair[1])'
      BY <1>6 DEF TablesOK, ContactsStay, Exists
    <2> QED
      BY <1>1, <1>5, <2>1 DEF TablesOK, importVars
  <1>8. RequestsOK'
    <2>1. \A q \in Patches : patch'[q].pc # "absent" => patch[q].pc # "absent"
      BY <1>1, <1>4
    <2>2. \A f \in Emails : Exists(f) => Exists(f)' /\ contact'[f].subscribed = contact[f].subscribed
      BY <1>6 DEF ContactsStay, Exists
    <2>3. \A q \in Patches :
             /\ patch'[q].pc # "absent" => Exists(PatchOf[q].email)'
             /\ patch'[q].pc = "read" =>
                   /\ patch'[q].row \in Row
                   /\ patch'[q].row.subscribed = contact'[PatchOf[q].email].subscribed
      <3>1. \A q \in Patches : PatchOf[q].email \in Emails
        BY AudienceAssumption
      <3> QED
        BY <1>4, <2>1, <2>2, <3>1 DEF RequestsOK
    <2>4. \A a \in Attaches : Exists(AttachTo[a]) => Exists(AttachTo[a])'
      BY <2>2, AudienceAssumption
    <2> QED
      BY <1>1, <1>4, <2>3, <2>4 DEF RequestsOK
  <1>9. AttributesKept'
    <2>1. committed' = committed
      BY <1>1 DEF importVars
    <2>2. \A q \in Patches : patch[q].pc = "done" =>
             patch'[q].pc = "done" /\ patch'[q].seen = patch[q].seen
      BY <1>1, <1>4
    <2>3. \A q \in Patches : Excused(q) => Excused(q)'
      BY <2>1, <2>2 DEF Excused
    <2> SUFFICES ASSUME NEW o \in Patches
                 PROVE  /\ patch'[o].pc = "done" =>
                              PatchOf[o].attrs \subseteq contact'[PatchOf[o].email].attrs \/ Excused(o)'
                        /\ \A q \in Patches : patch'[q].pc = "read" /\ o \in patch'[q].seen =>
                              /\ patch'[o].pc = "done" /\ PatchOf[o].email = PatchOf[q].email
                              /\ PatchOf[o].attrs \subseteq patch'[q].row.attrs \/ Excused(o)'
      BY DEF AttributesKept
    <2>4. ASSUME patch'[o].pc = "done"
          PROVE  PatchOf[o].attrs \subseteq contact'[PatchOf[o].email].attrs \/ Excused(o)'
      <3>1. CASE o = p
        BY <1>3, <1>5, <3>1
      <3>2. CASE o # p /\ PatchOf[o].email # e
        <4>1. PatchOf[o].email \in Emails
          BY AudienceAssumption
        <4> QED
          BY <1>4, <1>5, <2>3, <2>4, <3>2, <4>1 DEF AttributesKept
      <3>3. CASE o # p /\ PatchOf[o].email = e /\ o \in patch[p].seen
        <4>1. PatchOf[o].attrs \subseteq row.attrs \/ Excused(o)
          BY <1>1, <3>3 DEF AttributesKept
        <4> QED
          BY <1>3, <1>5, <2>3, <3>3, <4>1
      <3>4. CASE o # p /\ PatchOf[o].email = e /\ o \notin patch[p].seen
        BY <1>4, <3>4 DEF Excused
      <3> QED
        BY <3>1, <3>2, <3>3, <3>4
    <2>5. ASSUME NEW q \in Patches, patch'[q].pc = "read", o \in patch'[q].seen
          PROVE  /\ patch'[o].pc = "done" /\ PatchOf[o].email = PatchOf[q].email
                 /\ PatchOf[o].attrs \subseteq patch'[q].row.attrs \/ Excused(o)'
      <3>1. q # p /\ patch'[q] = patch[q]
        BY <1>4, <2>5
      <3> QED
        BY <2>2, <2>3, <2>5, <3>1 DEF AttributesKept
    <2> QED
      BY <2>4, <2>5
  <1>10. \A f \in Emails : Locked(f) => contact'[f] = contact[f]
    BY <1>1, <1>5
  <1> QED
    BY <1>1, <1>6, <1>7, <1>8, <1>9, <1>10, RequestStep

\* Requests that change no contact and no PATCH.
LEMMA TagRequestStep ==
  ASSUME ContactsInv, UNCHANGED <<contact, patch, importVars, put, queueVars, locals>>,
         maker' \in [TagRequests -> {"absent", "checked", "done", "failed"}],
         attach' \in [Attaches -> [pc: {"absent", "checked", "read", "done", "failed"},
                                   tag: Tag \cup {NoTag}]],
         \A a \in Attaches :
            attach'[a].pc \in {"checked", "read"} => Exists(AttachTo[a]) /\ attach'[a].tag \in Tag,
         tags' \subseteq Tag, \A t \in tags' \ tags : t.by \in TagRequests,
         tagged' \subseteq Emails \X Tag,
         \A pair \in tagged' : Exists(pair[1]) /\ pair[2] \in tags',
         \A t \in tags : TagLocked(t) => t \in tags'
  PROVE  StepKeeps
  <1> USE DEF ContactsInv
  <1>1. ContactsStay
    BY DEF ContactsStay, Exists
  <1>2. \A e : Exists(e)' <=> Exists(e)
    BY DEF Exists
  <1>3. TablesOK'
    BY <1>2 DEF TablesOK, importVars
  <1>4. RequestsOK'
    BY <1>2 DEF RequestsOK
  <1>5. AttributesKept'
    BY AttributesSame DEF importVars
  <1> QED
    BY <1>1, <1>3, <1>4, <1>5, RequestStep

LEMMA TagRequestsKeep ==
  ASSUME ContactsInv, NEW t \in TagRequests, CheckTag(t) \/ InsertTag(t)
  PROVE  StepKeeps
  <1> USE DEF ContactsInv
  <1>1. CASE CheckTag(t)
    <2>1. maker' \in [TagRequests -> {"absent", "checked", "done", "failed"}]
      BY <1>1 DEF CheckTag, RequestsOK
    <2>2. UNCHANGED <<contact, tags, tagged, attach, patch, importVars, put, queueVars, locals>>
      BY <1>1 DEF CheckTag, tableVars
    <2> QED
      BY <2>1, <2>2, TagRequestStep DEF TablesOK, RequestsOK
  <1>2. CASE InsertTag(t)
    <2> DEFINE new == [name |-> TagNameOf[t], by |-> t]
    <2>1. maker' \in [TagRequests -> {"absent", "checked", "done", "failed"}]
      BY <1>2 DEF InsertTag, RequestsOK
    <2>2. UNCHANGED <<contact, tagged, attach, patch, importVars, put, queueVars, locals>>
      BY <1>2 DEF InsertTag, tableVars
    <2>3. new \in Tag /\ new.by \in TagRequests
      BY AudienceAssumption DEF Tag
    <2>4. tags' = tags \/ tags' = tags \cup {new}
      BY <1>2 DEF InsertTag
    <2> HIDE DEF new
    <2>5. tags \subseteq tags' /\ tags' \subseteq Tag /\ \A u \in tags' \ tags : u.by \in TagRequests
      BY <2>3, <2>4 DEF TablesOK
    <2> QED
      BY <2>1, <2>2, <2>5, TagRequestStep DEF TablesOK, RequestsOK
  <1> QED
    BY <1>1, <1>2

LEMMA DeleteTagKeeps ==
  ASSUME ContactsInv, NEW t \in tags, DeleteTag(t)
  PROVE  StepKeeps
  <1> USE DEF ContactsInv
  <1>1. /\ ~TagLocked(t) /\ tags' = tags \ {t}
        /\ \A pair \in tagged : pair[2] # t
        /\ UNCHANGED <<contact, tagged, maker, attach, patch, importVars, put, queueVars, locals>>
    BY DEF DeleteTag, requestVars
  <1>2. tags' \subseteq Tag /\ \A u \in tags : TagLocked(u) => u \in tags'
    BY <1>1 DEF TablesOK
  <1>3. \A pair \in tagged : Exists(pair[1]) /\ pair[2] \in tags'
    BY <1>1 DEF TablesOK
  <1> QED
    BY <1>1, <1>2, <1>3, TagRequestStep DEF TablesOK, RequestsOK

LEMMA AttachKeeps ==
  ASSUME ContactsInv, NEW a \in Attaches,
         ReadTagged(a) \/ InsertTagged(a) \/ \E t \in tags : CheckAttach(a, t)
  PROVE  StepKeeps
  <1> USE DEF ContactsInv
  <1>1. CASE ReadTagged(a)
    <2>1. UNCHANGED <<contact, tags, tagged, maker, patch, importVars, put, queueVars, locals>>
      BY <1>1 DEF ReadTagged, tableVars
    <2>2. PICK pc \in {"read", "done"} : attach' = [attach EXCEPT ![a].pc = pc]
      BY <1>1 DEF ReadTagged
    <2>3. attach[a].pc = "checked"
      BY <1>1 DEF ReadTagged
    <2> QED
      BY <2>1, <2>2, <2>3, TagRequestStep DEF TablesOK, RequestsOK
  <1>2. CASE InsertTagged(a)
    <2>1. UNCHANGED <<contact, tags, maker, patch, importVars, put, queueVars, locals>>
      BY <1>2 DEF InsertTagged
    <2>2. PICK pc \in {"failed", "done"} : attach' = [attach EXCEPT ![a].pc = pc]
      BY <1>2 DEF InsertTagged
    <2>3. attach[a].pc = "read"
      BY <1>2 DEF InsertTagged
    <2>4. \/ tagged' = tagged
          \/ tagged' = tagged \cup {<<AttachTo[a], attach[a].tag>>} /\ attach[a].tag \in tags
      BY <1>2 DEF InsertTagged
    <2>5. AttachTo[a] \in Emails /\ Exists(AttachTo[a])
      BY <2>3, AudienceAssumption DEF RequestsOK
    <2>6. tagged' \subseteq Emails \X Tag /\ \A pair \in tagged' : Exists(pair[1]) /\ pair[2] \in tags
      BY <2>4, <2>5 DEF TablesOK
    <2> QED
      BY <2>1, <2>2, <2>6, TagRequestStep DEF TablesOK, RequestsOK
  <1>3. ASSUME NEW t \in tags, CheckAttach(a, t)
        PROVE  StepKeeps
    <2>1. UNCHANGED <<contact, tags, tagged, maker, patch, importVars, put, queueVars, locals>>
      BY <1>3 DEF CheckAttach, tableVars
    <2>2. attach' = [attach EXCEPT ![a] = [pc |-> "checked", tag |-> t]]
      BY <1>3 DEF CheckAttach
    <2>3. t \in Tag /\ Exists(AttachTo[a])
      BY <1>3 DEF CheckAttach, TablesOK
    <2> QED
      BY <2>1, <2>2, <2>3, TagRequestStep DEF TablesOK, RequestsOK
  <1> QED
    BY <1>1, <1>2, <1>3

LEMMA DetachKeeps ==
  ASSUME ContactsInv, NEW e \in Emails, NEW t \in tags, DetachTag(e, t)
  PROVE  StepKeeps
  <1> USE DEF ContactsInv
  <1>1. /\ tagged' \subseteq tagged
        /\ UNCHANGED <<contact, tags, maker, attach, patch, importVars, put, queueVars, locals>>
    BY DEF DetachTag, requestVars
  <1> QED
    BY <1>1, TagRequestStep DEF TablesOK, RequestsOK

-----------------------------------------------------------------------------
(* Requests about the import. *)

LEMMA ImportRequestStep ==
  ASSUME ContactsInv, UNCHANGED <<tableVars, maker, patch, attach, committed, worker, locals>>,
         QueueOK', ImportOK', LatestRead'
  PROVE  StepKeeps
  <1> USE DEF ContactsInv, tableVars
  <1>1. ContactsStay
    BY DEF ContactsStay, Exists
  <1>2. TablesOK'
    BY DEF TablesOK, Exists
  <1>3. RequestsOK'
    BY <1>1, RequestsSame
  <1>4. AttributesKept'
    BY AttributesSame
  <1>5. WorkersLocalsOK'
    BY LocalsSame
  <1> QED
    BY <1>1, <1>2, <1>3, <1>4, <1>5 DEF StepKeeps

LEMMA SettingsKeep ==
  ASSUME ContactsInv,
         \/ \E csv \in BOOLEAN : Upload(csv)
         \/ \E p \in Puts : CheckSettings(p) \/ UpdateSettings(p)
  PROVE  StepKeeps
  <1> USE DEF ContactsInv
  <1>1. UNCHANGED <<tableVars, maker, patch, attach, committed, queueVars, locals>>
    BY DEF Upload, CheckSettings, UpdateSettings, requestVars, importVars
  <1>2. QueueOK'
    BY <1>1, QueueSame
  <1>3. \A p \in Puts : CarriedOut(p)' = CarriedOut(p)
    BY <1>1 DEF CarriedOut, queueVars
  <1>4. contact' = contact /\ committed' = committed /\ job' = job
    BY <1>1 DEF tableVars, queueVars
  <1>5. \A w \in Workers, p \in Puts :
           worker[w].pc # "idle" /\ worker[w].key = p => put[p] = "queued"
    <2> SUFFICES ASSUME NEW w \in Workers, NEW p \in Puts, worker[w].pc # "idle", worker[w].key = p
                 PROVE  job[p] # Absent
      BY DEF ImportOK
    <2>1. 1 <= Starts(job[p])
      BY Attempts, StartsBounded DEF QueueOK, QueueInv, WorkersOK, Keys
    <2>2. Starts(Absent) = 0
      BY DEF Starts, Absent
    <2> QED
      BY <2>1, <2>2
  <1>6. \A p \in Puts : CarriedOut(p) => put[p] = "queued"
    <2>1. \A p \in Puts : job[p].state = "completed" => put[p] = "queued"
      BY DEF Absent, ImportOK
    <2> QED
      BY <1>5, <2>1 DEF CarriedOut
  <1> HIDE DEF CarriedOut
  <1>7. ImportOK'
    <2>1. ASSUME NEW csv \in BOOLEAN, Upload(csv)
          PROVE  ImportOK'
      <3>1. /\ import.status = "none" /\ put' = put
            /\ import' = [status |-> "PENDING", csv |-> csv, from |-> NoPut]
        BY <2>1 DEF Upload, requestVars
      <3>2. \A p \in Puts : put[p] = "absent"
        BY <3>1 DEF ImportOK
      <3> QED
        BY <1>3, <1>4, <3>1, <3>2, AudienceAssumption DEF ImportOK, Statuses, Exists, Applied
    <2>2. ASSUME NEW p \in Puts, CheckSettings(p)
          PROVE  ImportOK'
      <3>1. /\ put[p] = "absent" /\ import.status # "none" /\ import' = import
            /\ put' = [put EXCEPT ![p] = "checked"]
        BY <2>2 DEF CheckSettings, importVars
      <3>2. \A q \in Puts : Applied(q)' <=> Applied(q)
        BY <1>4, <3>1 DEF Applied
      <3> HIDE DEF Applied
      <3> QED
        BY <1>3, <1>4, <3>1, <3>2 DEF ImportOK, Exists
    <2>3. ASSUME NEW p \in Puts, UpdateSettings(p)
          PROVE  ImportOK'
      <3>1. /\ put[p] = "checked"
            /\ put' = [put EXCEPT ![p] = "updated"]
            /\ import' = [import EXCEPT !.status = "PROCESSING", !.from = p]
        BY <2>3 DEF UpdateSettings, ImportWith
      <3>2. ~CarriedOut(p)
        BY <1>6, <3>1
      <3>3. /\ import'.status = "PROCESSING" /\ import'.from = p
            /\ import' \in [status: Statuses, csv: BOOLEAN, from: Puts \cup {NoPut}]
        BY <3>1 DEF ImportOK, Statuses
      <3> QED
        BY <1>3, <1>4, <3>1, <3>2, <3>3 DEF ImportOK, Exists
    <2> QED
      BY <2>1, <2>2, <2>3
  <1>8. LatestRead'
    <2>1. worker' = worker /\ locals' = locals
      BY <1>1 DEF queueVars
    <2>2. CASE import'.from = import.from
      BY <2>1, <2>2 DEF LatestRead
    <2>3. ASSUME NEW csv \in BOOLEAN, Upload(csv)
          PROVE  LatestRead'
      <3>1. import'.from = NoPut
        BY <2>3 DEF Upload
      <3> QED
        BY <2>1, <3>1, AudienceAssumption DEF LatestRead, WorkersLocalsOK, StageOK
    <2>4. ASSUME NEW p \in Puts, UpdateSettings(p)
          PROVE  LatestRead'
      <3>1. import'.from = p /\ put[p] = "checked"
        BY <2>4 DEF UpdateSettings, ImportWith, ImportOK
      <3>2. \A w \in Workers : worker[w].pc \in Reading \cup Writing => worker[w].key # p
        BY <1>5, <3>1 DEF Reading, Writing
      <3> QED
        BY <2>1, <3>1, <3>2 DEF LatestRead
    <2>5. ASSUME NEW p \in Puts, CheckSettings(p)
          PROVE  LatestRead'
      BY <2>2, <2>5 DEF CheckSettings, importVars
    <2> QED
      BY <2>3, <2>4, <2>5
  <1> QED
    BY <1>1, <1>2, <1>7, <1>8, ImportRequestStep DEF queueVars

\* A job is added that was not there.
LEMMA AddStep ==
  ASSUME QueueOK, NEW k \in Keys, job[k] = Absent, Add({k}), UNCHANGED worker
  PROVE  /\ QueueOK'
         /\ job'[k] # Absent /\ job'[k].state = "waiting"
         /\ \A j \in Keys : j # k => job'[j] = job[j]
  <1>1. QueueOK'
    <2>1. {k} \in SUBSET Keys /\ \A j \in {k} : job[j] = Absent
      OBVIOUS
    <2> QED
      BY <2>1, Attempts, MoveStep DEF QueueOK
  <1>2. job' = [j \in Keys |-> IF j \in {k} THEN Added ELSE job[j]]
    BY DEF Add, QueueOK, QueueInv, QueueTypes
  <1> QED
    BY <1>1, <1>2, FreshJobs

LEMMA QueueingKeeps ==
  ASSUME ContactsInv,
         (\E p \in Puts : QueueImport(p)) \/ \E x \in Exports : QueueExport(x)
  PROVE  StepKeeps
  <1> USE DEF ContactsInv
  <1>1. UNCHANGED <<tableVars, maker, patch, attach, committed, worker, locals>> /\ import' = import
    BY DEF QueueImport, QueueExport, requestVars, importVars
  <1>2. PICK k \in Keys :
           /\ job[k] = Absent /\ Add({k})
           /\ \/ k \in Puts /\ put[k] = "updated" /\ put' = [put EXCEPT ![k] = "queued"]
              \/ k \in Exports /\ put' = put
    BY DEF QueueImport, QueueExport, requestVars, Keys
  <1>3. /\ QueueOK'
        /\ job'[k] # Absent /\ job'[k].state = "waiting"
        /\ \A j \in Keys : j # k => job'[j] = job[j]
    BY <1>1, <1>2, AddStep
  <1>4. \A p \in Puts : CarriedOut(p)' => CarriedOut(p)
    BY <1>1, <1>3 DEF CarriedOut, Keys
  <1> HIDE DEF CarriedOut
  <1>5. \A p \in Puts : put'[p] = "queued" <=> job'[p] # Absent
    BY <1>2, <1>3, AudienceAssumption DEF ImportOK, Keys
  <1>6. /\ put' \in [Puts -> {"absent", "checked", "updated", "queued"}]
        /\ \A p \in Puts : put'[p] # put[p] => put[p] = "updated" /\ put'[p] = "queued"
    BY <1>2 DEF ImportOK
  <1>7. ImportOK'
    <2>1. \A p \in Puts : Applied(p)' <=> Applied(p)
      BY <1>1 DEF Applied
    <2> HIDE DEF Applied
    <2> QED
      BY <1>1, <1>4, <1>5, <1>6, <2>1 DEF ImportOK, Exists, tableVars
  <1>8. LatestRead'
    BY <1>1 DEF LatestRead
  <1> QED
    BY <1>1, <1>3, <1>7, <1>8, ImportRequestStep

-----------------------------------------------------------------------------
(* Steps of a worker. *)

\* A step of w is no concern of the others' transactions, as long as it writes no row
\* they wrote.
LEMMA OneWorkerMoves ==
  ASSUME WorkersLocalsOK, NEW w \in Workers,
         locals' \in [Workers -> Transaction],
         \A v \in Workers : v # w => worker'[v] = worker[v] /\ locals'[v] = locals[v],
         TransactionOK(w)', StageOK(w)',
         \A e \in Emails, v \in Workers : v # w /\ locals[v].written[e] # NoRow =>
            contact'[e] = contact[e] /\ locals'[w].written[e] = NoRow,
         tags \subseteq tags'
  PROVE  WorkersLocalsOK'
  <1>1. ASSUME NEW v \in Workers, v # w
        PROVE  TransactionOK(v)' /\ StageOK(v)'
    <2>1. TransactionOK(v) /\ StageOK(v) /\ worker'[v] = worker[v] /\ locals'[v] = locals[v]
      BY <1>1 DEF WorkersLocalsOK
    <2>2. Run(v)' = Run(v)
      BY <2>1 DEF Run, Entry
    <2>3. \A e \in Emails : locals[v].written[e] # NoRow => contact'[e] = contact[e]
      BY <1>1
    <2>4. TransactionOK(v)'
      BY <2>1, <2>2, <2>3 DEF TransactionOK, Exists
    <2>5. StageOK(v)'
      BY <2>1 DEF StageOK
    <2> QED
      BY <2>4, <2>5
  <1>2. RowsLocked'
    <2> SUFFICES ASSUME NEW u \in Workers, NEW v \in Workers, u # v, NEW e \in Emails
                 PROVE  locals'[u].written[e] = NoRow \/ locals'[v].written[e] = NoRow
      BY DEF RowsLocked
    <2>1. CASE u # w /\ v # w
      BY <2>1 DEF WorkersLocalsOK, RowsLocked
    <2>2. CASE u = w
      BY <2>2
    <2>3. CASE v = w
      BY <2>3
    <2> QED
      BY <2>1, <2>2, <2>3
  <1> QED
    BY <1>1, <1>2 DEF WorkersLocalsOK

LEMMA BlankTransaction ==
  /\ Blank \in Transaction
  /\ \A e \in Emails : Blank.written[e] = NoRow
  /\ Blank.tags = {} /\ Blank.chunk = {} /\ Blank.tagged = {}
  BY DEF Blank, Transaction

\* A worker in a blank transaction, where it may be.
LEMMA NothingWritten ==
  ASSUME WorkersLocalsOK, NEW w \in Workers,
         locals' = [locals EXCEPT ![w] = Blank],
         \A v \in Workers : v # w => worker'[v] = worker[v],
         worker'[w].pc \in Outside,
         UNCHANGED tableVars
  PROVE  WorkersLocalsOK'
  <1>1. /\ locals' \in [Workers -> Transaction] /\ locals'[w] = Blank
        /\ \A v \in Workers : v # w => locals'[v] = locals[v]
    BY BlankTransaction DEF WorkersLocalsOK
  <1>2. TransactionOK(w)'
    BY <1>1, BlankTransaction DEF TransactionOK
  <1>3. StageOK(w)'
    BY <1>1 DEF StageOK, Outside, Reading, Writing
  <1> QED
    BY <1>1, <1>2, <1>3, BlankTransaction, OneWorkerMoves DEF tableVars

\* A worker without a transaction needs no settings.
LEMMA NothingRead ==
  ASSUME LatestRead, WorkersLocalsOK, NEW w \in Workers, import' = import,
         locals' = [locals EXCEPT ![w] = Blank],
         \A v \in Workers : v # w => worker'[v] = worker[v],
         worker'[w].pc \in Outside
  PROVE  LatestRead'
  <1>1. \A v \in Workers : v # w => locals'[v] = locals[v]
    BY DEF WorkersLocalsOK
  <1>2. worker'[w].pc \notin Reading \cup Writing
    BY DEF Outside, Reading, Writing
  <1> QED
    BY <1>1, <1>2 DEF LatestRead

\* A step that changes no table, no request and no import.
LEMMA WorkerStep ==
  ASSUME ContactsInv, UNCHANGED <<tableVars, requestVars, importVars>>,
         QueueOK', WorkersLocalsOK', LatestRead',
         \A p \in Puts : job'[p] = Absent <=> job[p] = Absent,
         \A p \in Puts : CarriedOut(p)' => CarriedOut(p)
  PROVE  StepKeeps
  <1> USE DEF ContactsInv, tableVars, requestVars, importVars
  <1>1. ContactsStay
    BY DEF ContactsStay, Exists
  <1>2. TablesOK'
    BY DEF TablesOK, Exists
  <1>3. RequestsOK'
    BY <1>1, RequestsSame
  <1>4. AttributesKept'
    BY AttributesSame
  <1>5. ImportOK'
    BY <1>1, ImportSame
  <1> QED
    BY <1>1, <1>2, <1>3, <1>4, <1>5 DEF StepKeeps

\* A job whose handler has not returned is no more carried out than it was.
LEMMA NotCarriedOut ==
  ASSUME NEW w \in Workers, NEW p \in Puts,
         \A v \in Workers : v # w => worker'[v] = worker[v],
         worker'[w].pc = "return" => worker'[w].key # p \/ CarriedOut(p),
         job'[p].state = "completed" => CarriedOut(p)
  PROVE  CarriedOut(p)' => CarriedOut(p)
  BY DEF CarriedOut

\* The handler of w goes on, in a transaction that writes only rows no other wrote.
LEMMA HandlerGoesOn ==
  ASSUME ContactsInv, NEW w \in Workers, worker[w].pc \in Reading \cup Writing \cup {"findImport"},
         NEW pc \in Reading \cup Writing, Goto(w, pc),
         NEW new \in Transaction, locals' = [locals EXCEPT ![w] = new],
         worker[w].key \in Puts,
         new.from = import.from \/ (worker[w].pc # "findImport" /\ new.from = locals[w].from),
         UNCHANGED <<tableVars, requestVars, importVars, job>>,
         worker'[w].key = worker[w].key /\ worker'[w].entry = worker[w].entry
             => TransactionOK(w)' /\ StageOK(w)',
         \A e \in Emails, v \in Workers :
            v # w /\ locals[v].written[e] # NoRow => new.written[e] = NoRow
  PROVE  StepKeeps
  <1> USE DEF ContactsInv
  <1>1. worker[w].pc # "idle" /\ pc \in Pcs \ {"idle"} /\ pc # "return"
    BY DEF Reading, Writing, Pcs
  <1>2. /\ worker'[w].pc = pc /\ worker'[w].key = worker[w].key /\ worker'[w].entry = worker[w].entry
        /\ \A v \in Workers : v # w => worker'[v] = worker[v]
    BY <1>1, GoneOn DEF QueueOK, QueueInv
  <1>3. QueueOK'
    <2>1. {} \in SUBSET Keys /\ \A k \in {} : job[k] = Absent \/ (k \notin Keys /\ job[k].state = "completed")
      OBVIOUS
    <2> QED
      BY <1>1, <2>1, Attempts, MoveStep DEF QueueOK
  <1>4. /\ locals' \in [Workers -> Transaction] /\ locals'[w] = new
        /\ \A v \in Workers : v # w => locals'[v] = locals[v]
    BY DEF WorkersLocalsOK
  <1>5. WorkersLocalsOK'
    BY <1>2, <1>4, OneWorkerMoves DEF tableVars
  <1>6. \A p \in Puts : CarriedOut(p)' => CarriedOut(p)
    <2> SUFFICES ASSUME NEW p \in Puts
                 PROVE  CarriedOut(p)' => CarriedOut(p)
      OBVIOUS
    <2>1. job'[p].state = "completed" => CarriedOut(p)
      BY DEF CarriedOut
    <2> QED
      BY <1>1, <1>2, <2>1, NotCarriedOut
  <1>7. LatestRead'
    BY <1>2, <1>4 DEF LatestRead, importVars
  <1> QED
    BY <1>3, <1>5, <1>6, <1>7, WorkerStep

\* The run of a worker that has an import to do.
LEMMA RunTyped ==
  ASSUME QueueOK, NEW w \in Workers, worker[w].pc # "idle", worker[w].key \in Puts
  PROVE  Run(w) \in Puts \X Runs /\ job[worker[w].key] # Absent
  <1> DEFINE j == job[worker[w].key]
  <1>1. JobInv(j, OneAttempt) /\ OneAttempt \in Nat \ {0} /\ worker[w].entry \in 1 .. Starts(j)
    BY Attempts DEF QueueOK, QueueInv, WorkersOK, Keys, OneAttempt
  <1>2. Starts(j) \in Nat /\ Starts(j) <= MaxStarts(OneAttempt)
    BY <1>1, StartsBounded
  <1>3. worker[w].entry \in Runs
    BY <1>1, <1>2, QueueAssumption DEF Runs, MaxStarts, OneAttempt
  <1>4. j # Absent
    BY <1>1, FreshJobs
  <1> QED
    BY <1>3, <1>4 DEF Run, Entry

-----------------------------------------------------------------------------
(* Steps about the job of a worker. *)

LEMMA TakeKeeps ==
  ASSUME ContactsInv, NEW w \in Workers, NEW k \in Keys, Take(w, k)
  PROVE  StepKeeps
  <1> USE DEF ContactsInv
  <1>1. PICK pc \in Handlers : TakeJob(w, k, pc)
    BY DEF Take
  <1>2. /\ locals' = [locals EXCEPT ![w].made = job[k].made]
        /\ UNCHANGED <<tableVars, requestVars, importVars>>
    BY DEF Take
  <1>3. pc \in Pcs \ {"idle"} /\ pc \in Outside /\ pc # "return"
    BY DEF Handlers, Pcs, Outside
  <1>5. /\ QueueOK'
        /\ worker[w].pc = "idle"
        /\ worker'[w].pc = pc /\ worker'[w].key = k
        /\ \A v \in Workers : v # w => worker'[v] = worker[v]
        /\ job[k].state = "waiting" /\ job'[k].state = "active" /\ job'[k] # Absent
        /\ \A j \in Keys : j # k => job'[j] = job[j]
    <2>1. QueueInv(Keys, AttemptsFn, Pcs, Keys) /\ TakeJob(w, k, pc)
      BY <1>1 DEF QueueOK
    <2>2. /\ QueueInv(Keys, AttemptsFn, Pcs, Keys)'
          /\ worker[w].pc = "idle"
          /\ worker'[w] = [pc |-> pc, key |-> k, entry |-> Starts(job[k]) + 1]
          /\ \A v \in Workers : v # w => worker'[v] = worker[v]
          /\ Starts(job[k]) \in Nat /\ Starts(job'[k]) = Starts(job[k]) + 1
          /\ job[k].state = "waiting" /\ job'[k].state = "active" /\ job'[k] # Absent
          /\ job'[k].made = job[k].made
          /\ \A j \in Keys : j # k => job'[j] = job[j]
      BY <1>3, <2>1, Attempts, TakeStep
    <2> QED
      BY <2>2 DEF QueueOK
  <1>6. job[k].made = 0 /\ job[k] # Absent
    <2>1. JobInv(job[k], OneAttempt) /\ job[k].state # "failed"
      BY <1>5, Attempts DEF QueueOK, QueueInv
    <2> QED
      BY <1>5, <2>1 DEF JobInv, OneAttempt, Job, Absent
  <1>7. locals' = [locals EXCEPT ![w] = Blank]
    <2>1. locals[w] = Blank /\ locals \in [Workers -> Transaction]
      BY <1>5 DEF WorkersLocalsOK, StageOK, Outside
    <2>2. [Blank EXCEPT !.made = 0] = Blank
      BY DEF Blank
    <2> QED
      BY <1>2, <1>6, <2>1, <2>2
  <1>8. WorkersLocalsOK'
    BY <1>2, <1>3, <1>5, <1>7, NothingWritten
  <1>4. LatestRead'
    BY <1>2, <1>3, <1>5, <1>7, NothingRead DEF importVars
  <1>9. \A p \in Puts : CarriedOut(p)' => CarriedOut(p)
    <2> SUFFICES ASSUME NEW p \in Puts
                 PROVE  CarriedOut(p)' => CarriedOut(p)
      OBVIOUS
    <2>1. job'[p].state = "completed" => CarriedOut(p)
      BY <1>5 DEF CarriedOut, Keys
    <2> QED
      BY <1>3, <1>5, <2>1, NotCarriedOut
  <1>10. \A p \in Puts : job'[p] = Absent <=> job[p] = Absent
    BY <1>5, <1>6 DEF Keys
  <1> QED
    BY <1>2, <1>4, <1>5, <1>8, <1>9, <1>10, WorkerStep

\* Success or failure is reported, and what was not committed is forgotten.
LEMMA SettleKeeps ==
  ASSUME ContactsInv, NEW w \in Workers, worker[w].pc # "idle",
         (SucceedJob(w) /\ worker[w].pc = "return") \/ FailJob(w, OneAttempt),
         Forget(w), UNCHANGED <<tableVars, requestVars, importVars>>
  PROVE  StepKeeps
  <1> USE DEF ContactsInv
  <1> DEFINE k == worker[w].key
  <1>1. k \in Keys /\ AttemptsFn[k] = OneAttempt
    BY Attempts DEF QueueOK, QueueInv, WorkersOK
  <1>2. /\ QueueOK'
        /\ worker'[w].pc = "idle"
        /\ \A v \in Workers : v # w => worker'[v] = worker[v]
        /\ \A j \in Keys : Undisturbed(job'[j], job[j])
        /\ \A j \in Keys : j # k => job'[j] = job[j]
        /\ \/ job'[k] = job[k]
           \/ SucceedJob(w) \/ job'[k].state \in {"waiting", "failed"}
    BY <1>1, Attempts, SettleStep DEF QueueOK
  <1>3. WorkersLocalsOK' /\ LatestRead'
    <2>1. locals' = [locals EXCEPT ![w] = Blank]
      BY DEF Forget
    <2>2. worker'[w].pc \in Outside /\ import' = import
      BY <1>2 DEF Outside, importVars
    <2> QED
      BY <1>2, <2>1, <2>2, NothingWritten, NothingRead
  <1>4. \A p \in Puts : CarriedOut(p)' => CarriedOut(p)
    <2> SUFFICES ASSUME NEW p \in Puts
                 PROVE  CarriedOut(p)' => CarriedOut(p)
      OBVIOUS
    <2>1. CASE SucceedJob(w) /\ worker[w].pc = "return" /\ p = k
      BY <2>1 DEF CarriedOut
    <2>2. CASE p # k
      <3>1. job'[p].state = "completed" => CarriedOut(p)
        BY <1>2, <2>2 DEF CarriedOut, Keys
      <3> QED
        BY <1>2, <3>1, NotCarriedOut
    <2>3. CASE job'[k] = job[k] /\ p = k
      <3>1. job'[p].state = "completed" => CarriedOut(p)
        BY <2>3 DEF CarriedOut
      <3> QED
        BY <1>2, <3>1, NotCarriedOut
    <2>4. CASE job'[k].state \in {"waiting", "failed"} /\ p = k
      <3>1. job'[p].state = "completed" => CarriedOut(p)
        BY <2>4
      <3> QED
        BY <1>2, <3>1, NotCarriedOut
    <2>5. CASE worker[w].pc = "return" /\ p = k
      BY <2>5 DEF CarriedOut
    <2>6. CASE FailJob(w, OneAttempt) /\ SucceedJob(w) /\ p = k
      <3>1. job'[p] = job[p] \/ job'[p].state # "completed"
        <4>1. JobInv(job[k], OneAttempt) /\ k \in DOMAIN job /\ job \in [Keys -> Job]
          BY <1>1, Attempts DEF QueueOK, QueueInv, QueueTypes
        <4>2. job'[k] = job[k] \/ job'[k] = AttemptFailed(job[k], OneAttempt)
          BY <2>6, <4>1 DEF FailJob, Settle
        <4>3. AttemptFailed(job[k], OneAttempt).state # "completed"
          BY <4>1 DEF AttemptFailed, JobInv, Job
        <4> QED
          BY <2>6, <4>2, <4>3
      <3>2. job'[p].state = "completed" => CarriedOut(p)
        BY <3>1 DEF CarriedOut
      <3> QED
        BY <1>2, <3>2, NotCarriedOut
    <2> QED
      BY <1>2, <2>1, <2>2, <2>3, <2>4, <2>5, <2>6
  <1>5. \A p \in Puts : job'[p] = Absent <=> job[p] = Absent
    BY <1>2 DEF Undisturbed, Keys
  <1> QED
    BY <1>2, <1>3, <1>4, <1>5, WorkerStep

\* The hook of a failed import would need an attempt made before: there is none.
LEMMA FailsKeeps ==
  ASSUME ContactsInv, NEW w \in Workers, worker[w].pc # "idle", Fails(w)
  PROVE  StepKeeps
  <1>1. locals[w].made = 0
    BY DEF ContactsInv, WorkersLocalsOK, Transaction
  <1>2. ~HookRuns(locals[w].made)
    BY <1>1 DEF HookRuns, OneAttempt
  <1>3. FailJob(w, OneAttempt) /\ Forget(w) /\ UNCHANGED <<tableVars, requestVars, importVars>>
    BY <1>2 DEF Fails, importVars
  <1> QED
    BY <1>3, SettleKeeps

LEMMA EndingKeeps ==
  ASSUME ContactsInv, NEW w \in Workers, Succeed(w) \/ HandlerThrows(w)
  PROVE  StepKeeps
  <1>1. CASE Succeed(w)
    BY <1>1, SettleKeeps DEF Succeed
  <1>2. CASE HandlerThrows(w)
    BY <1>2, FailsKeeps DEF HandlerThrows
  <1> QED
    BY <1>1, <1>2

LEMMA LostLocksKeep ==
  ASSUME ContactsInv, NEW w \in Workers, Crash(w) \/ LoseLock(w)
  PROVE  StepKeeps
  <1> USE DEF ContactsInv
  <1>1. /\ UNCHANGED <<tableVars, requestVars, importVars>>
        /\ CrashWorker(w) \/ ExpireLock(w)
        /\ (CrashWorker(w) /\ Forget(w)) \/ (ExpireLock(w) /\ UNCHANGED locals)
    BY DEF Crash, LoseLock
  <1>2. /\ QueueOK'
        /\ CrashWorker(w) => worker'[w].pc = "idle"
        /\ ExpireLock(w) => worker' = worker
        /\ \A v \in Workers : v # w => worker'[v] = worker[v]
        /\ \A k \in Keys : Undisturbed(job'[k], job[k]) /\ job'[k].state = job[k].state
    BY <1>1, Attempts, ReleaseStep DEF QueueOK
  <1>3. WorkersLocalsOK' /\ LatestRead'
    <2>1. CASE CrashWorker(w) /\ Forget(w)
      <3>1. worker'[w].pc \in Outside /\ import' = import
        BY <1>1, <1>2, <2>1 DEF Outside, importVars
      <3> QED
        BY <1>1, <1>2, <2>1, <3>1, NothingWritten, NothingRead DEF Forget
    <2>2. CASE ExpireLock(w) /\ UNCHANGED locals
      BY <1>1, <1>2, <2>2, LocalsSame DEF tableVars, importVars, LatestRead
    <2> QED
      BY <1>1, <2>1, <2>2
  <1>4. \A p \in Puts : CarriedOut(p)' => CarriedOut(p)
    <2>1. worker'[w].pc = "return" => worker'[w] = worker[w]
      BY <1>1, <1>2
    <2> QED
      BY <1>2, <2>1 DEF CarriedOut, Keys
  <1>5. \A p \in Puts : job'[p] = Absent <=> job[p] = Absent
    BY <1>2 DEF Undisturbed, Keys
  <1> QED
    BY <1>1, <1>2, <1>3, <1>4, <1>5, WorkerStep

LEMMA RecoverKeeps ==
  ASSUME ContactsInv, NEW k \in Keys, Recover(k)
  PROVE  StepKeeps
  <1> USE DEF ContactsInv
  <1>1. UNCHANGED <<tableVars, requestVars, importVars, locals>> /\ RecoverJob(k)
    BY DEF Recover
  <1>2. /\ QueueOK'
        /\ worker' = worker
        /\ job'[k].state \in {"waiting", "failed"}
        /\ \A j \in Keys : Undisturbed(job'[j], job[j])
        /\ \A j \in Keys : j # k => job'[j] = job[j]
    BY <1>1, Attempts, RecoverStep DEF QueueOK
  <1>3. WorkersLocalsOK' /\ LatestRead'
    BY <1>1, <1>2, LocalsSame DEF tableVars, importVars, LatestRead
  <1>4. \A p \in Puts : CarriedOut(p)' => CarriedOut(p)
    BY <1>2 DEF CarriedOut, Keys
  <1>5. \A p \in Puts : job'[p] = Absent <=> job[p] = Absent
    BY <1>2 DEF Undisturbed, Keys
  <1> QED
    BY <1>1, <1>2, <1>3, <1>4, <1>5, WorkerStep

\* There is nothing to do for an export, whichever handler has it.
LEMMA ExportReturns ==
  ASSUME ContactsInv, NEW w \in Workers, worker[w].pc \in Handlers, worker[w].key \in Exports,
         Goto(w, "return"), UNCHANGED <<tableVars, requestVars, importVars, job, locals>>
  PROVE  StepKeeps
  <1> USE DEF ContactsInv
  <1>1. worker[w].pc # "idle"
    BY DEF Handlers
  <1>2. locals[w] = Blank /\ locals' = [locals EXCEPT ![w] = Blank]
    BY DEF WorkersLocalsOK, StageOK, Outside, Handlers
  <1>3. /\ worker'[w].pc = "return" /\ worker'[w].key = worker[w].key
        /\ \A v \in Workers : v # w => worker'[v] = worker[v]
    BY <1>1, GoneOn DEF QueueOK, QueueInv, Pcs
  <1>4. QueueOK'
    <2>1. {} \in SUBSET Keys /\ \A k \in {} : job[k] = Absent \/ (k \notin Keys /\ job[k].state = "completed")
      OBVIOUS
    <2>2. "return" \in Pcs \ {"idle"}
      BY DEF Pcs
    <2> QED
      BY <1>1, <2>1, <2>2, Attempts, MoveStep DEF QueueOK
  <1>5. WorkersLocalsOK' /\ LatestRead'
    <2>1. worker'[w].pc \in Outside /\ import' = import
      BY <1>3 DEF Outside, importVars
    <2> QED
      BY <1>2, <1>3, <2>1, NothingWritten, NothingRead
  <1>6. \A p \in Puts : CarriedOut(p)' => CarriedOut(p)
    <2> SUFFICES ASSUME NEW p \in Puts
                 PROVE  CarriedOut(p)' => CarriedOut(p)
      OBVIOUS
    <2>1. worker'[w].key # p
      BY <1>3, AudienceAssumption
    <2>2. job'[p].state = "completed" => CarriedOut(p)
      BY DEF CarriedOut
    <2> QED
      BY <1>3, <2>1, <2>2, NotCarriedOut
  <1> QED
    BY <1>4, <1>5, <1>6, WorkerStep

LEMMA SelectContactsKeeps ==
  ASSUME ContactsInv, NEW w \in Workers, SelectContacts(w)
  PROVE  StepKeeps
  <1>1. worker[w].pc = "selectContacts" /\ worker[w].pc \in Handlers /\ worker[w].pc # "idle"
    BY DEF SelectContacts, Handlers
  <1>2. CASE worker[w].key \in Exports /\ Goto(w, "return")
             /\ UNCHANGED <<tableVars, requestVars, importVars, job, locals>>
    BY <1>1, <1>2, ExportReturns
  <1>3. CASE Fails(w)
    BY <1>1, <1>3, FailsKeeps
  <1> QED
    BY <1>2, <1>3 DEF SelectContacts

-----------------------------------------------------------------------------
(* The handler of an import. *)

LEMMA FindImportKeeps ==
  ASSUME ContactsInv, NEW w \in Workers, FindImport(w)
  PROVE  StepKeeps
  <1> USE DEF ContactsInv
  <1>1. worker[w].pc = "findImport"
    BY DEF FindImport
  <1>2. CASE /\ worker[w].key \in Puts
             /\ locals' = [locals EXCEPT ![w].from = import.from]
             /\ Goto(w, "readFile")
    <2> DEFINE new == [Blank EXCEPT !.from = import.from]
    <2>1. /\ Goto(w, "readFile")
          /\ locals' = [locals EXCEPT ![w].from = import.from]
          /\ UNCHANGED <<tableVars, requestVars, importVars, job>>
      BY <1>2 DEF FindImport
    <2>2. locals[w] = Blank /\ worker[w].key \in Puts
      BY <1>1, <1>2 DEF WorkersLocalsOK, StageOK, Outside
    <2>3. import.from \in Puts
      BY <1>1, <2>2, RunTyped DEF ImportOK
    <2>4. /\ new \in Transaction /\ new.from \in Puts /\ new.from = import.from
          /\ \A e \in Emails : new.written[e] = NoRow
          /\ new.tags = {} /\ new.chunk = {} /\ new.tagged = {}
      BY <2>3 DEF Blank, Transaction
    <2>5. locals' = [locals EXCEPT ![w] = new]
      BY <2>1, <2>2 DEF WorkersLocalsOK
    <2> HIDE DEF new
    <2>6. locals'[w] = new
      BY <2>5 DEF WorkersLocalsOK
    <2>7. worker'[w].pc = "readFile"
      BY <1>1, <2>1, GoneOn DEF QueueOK, QueueInv, Pcs
    <2>8. TransactionOK(w)'
      BY <2>4, <2>6 DEF TransactionOK
    <2>9. worker'[w].key = worker[w].key => StageOK(w)'
      BY <2>2, <2>4, <2>6, <2>7 DEF StageOK, Outside, Reading, Writing
    <2>10. "readFile" \in Reading \cup Writing
      BY DEF Reading
    <2> QED
      BY <1>1, <2>1, <2>2, <2>4, <2>5, <2>8, <2>9, <2>10, HandlerGoesOn
  <1>3. CASE worker[w].key \in Exports /\ Goto(w, "return") /\ UNCHANGED locals
    BY <1>1, <1>3, ExportReturns DEF FindImport, Handlers
  <1> QED
    BY <1>2, <1>3 DEF FindImport

LEMMA ReadFileKeeps ==
  ASSUME ContactsInv, NEW w \in Workers, ReadFile(w)
  PROVE  StepKeeps
  <1> USE DEF ContactsInv
  <1>1. CASE ~import.csv
    BY <1>1, FailsKeeps DEF ReadFile
  <1>2. CASE import.csv
    <2> DEFINE old == locals[w]
               new == [old EXCEPT !.rows = FileRows]
    <2>1. /\ worker[w].pc = "readFile" /\ Goto(w, "insertTags")
          /\ locals' = [locals EXCEPT ![w].rows = FileRows]
          /\ UNCHANGED <<tableVars, requestVars, importVars, job>>
      BY <1>2 DEF ReadFile
    <2>2. /\ worker[w].key \in Puts /\ old.from \in Puts /\ TransactionOK(w) /\ old \in Transaction
          /\ old.tagged = {}
      BY <2>1 DEF WorkersLocalsOK, StageOK, Reading
    <2>3. /\ new \in Transaction /\ new.rows = FileRows /\ new.from = old.from
          /\ new.written = old.written /\ new.tags = old.tags /\ new.chunk = old.chunk
          /\ new.tagged = old.tagged /\ new.known = old.known
      BY <2>2 DEF Transaction
    <2>4. locals' = [locals EXCEPT ![w] = new]
      BY <2>1 DEF WorkersLocalsOK
    <2> HIDE DEF new
    <2>5. locals'[w] = new
      BY <2>4 DEF WorkersLocalsOK
    <2>6. worker'[w].pc = "insertTags"
      BY <2>1, GoneOn DEF QueueOK, QueueInv, Pcs
    <2>7. tags' = tags /\ contact' = contact
      BY <2>1 DEF tableVars
    <2>8. ASSUME worker'[w].key = worker[w].key, worker'[w].entry = worker[w].entry
          PROVE  TransactionOK(w)'
      <3>1. Run(w)' = Run(w)
        BY <2>8 DEF Run, Entry
      <3> QED
        BY <2>2, <2>3, <2>5, <2>7, <3>1 DEF TransactionOK, Exists
    <2>9. worker'[w].key = worker[w].key => StageOK(w)'
      BY <2>2, <2>3, <2>5, <2>6 DEF StageOK, Outside, Reading, Writing
    <2>10. "insertTags" \in Reading \cup Writing /\ worker[w].pc \in Reading
      BY <2>1 DEF Reading
    <2>11. \A e \in Emails, v \in Workers :
              v # w /\ locals[v].written[e] # NoRow => new.written[e] = NoRow
      BY <2>3 DEF WorkersLocalsOK, RowsLocked
    <2> QED
      BY <2>1, <2>2, <2>3, <2>4, <2>8, <2>9, <2>10, <2>11, HandlerGoesOn
  <1> QED
    BY <1>1, <1>2

LEMMA InsertTagsKeeps ==
  ASSUME ContactsInv, NEW w \in Workers, InsertTags(w)
  PROVE  StepKeeps
  <1> USE DEF ContactsInv
  <1> DEFINE names == Settings(w).names
  <1>1. worker[w].pc = "insertTags"
    BY DEF InsertTags
  <1>2. CASE \E n \in names : NameTaken(n)
    BY <1>1, <1>2, FailsKeeps DEF InsertTags
  <1>3. CASE ~\E n \in names : NameTaken(n)
    <2> DEFINE old   == locals[w]
               given == {[name |-> n, by |-> Run(w)] : n \in names}
               new   == [old EXCEPT !.tags = given]
    <2>1. /\ Goto(w, "upsert")
          /\ locals' = [locals EXCEPT ![w].tags = given]
          /\ UNCHANGED <<tableVars, requestVars, importVars, job>>
      BY <1>3 DEF InsertTags
    <2>2. /\ worker[w].key \in Puts /\ old.from \in Puts /\ TransactionOK(w) /\ old \in Transaction
          /\ \A e \in FileRows \ old.rows : old.written[e] # NoRow
      BY <1>1 DEF WorkersLocalsOK, StageOK, Writing
    <2>3. Run(w) \in Puts \X Runs
      BY <1>1, <2>2, RunTyped
    <2>4. given \subseteq Tag /\ \A t \in given : t.by = Run(w)
      <3>1. names \subseteq TagNames
        BY <2>2, AudienceAssumption DEF Settings
      <3> QED
        BY <2>3, <3>1 DEF Tag
    <2> HIDE DEF given
    <2>6. /\ new \in Transaction /\ new.tags = given /\ new.rows = old.rows /\ new.from = old.from
          /\ new.written = old.written /\ new.chunk = old.chunk
          /\ new.tagged = old.tagged /\ new.known = old.known
      BY <2>2, <2>4 DEF Transaction
    <2>7. locals' = [locals EXCEPT ![w] = new]
      BY <2>1 DEF WorkersLocalsOK
    <2> HIDE DEF new
    <2>8. locals'[w] = new
      BY <2>7 DEF WorkersLocalsOK
    <2>9. worker'[w].pc = "upsert"
      BY <2>1, GoneOn DEF QueueOK, QueueInv, Pcs
    <2>10. tags' = tags /\ contact' = contact
      BY <2>1 DEF tableVars
    <2>11. ASSUME worker'[w].key = worker[w].key, worker'[w].entry = worker[w].entry
           PROVE  TransactionOK(w)'
      <3>1. Run(w)' = Run(w)
        BY <2>11 DEF Run, Entry
      <3>2. old.tagged = {}
        BY <1>1 DEF WorkersLocalsOK, StageOK, Reading
      <3> QED
        BY <2>2, <2>4, <2>6, <2>8, <2>10, <3>1, <3>2 DEF TransactionOK, Exists
    <2>12. worker'[w].key = worker[w].key => StageOK(w)'
      BY <2>2, <2>6, <2>8, <2>9 DEF StageOK, Outside, Reading, Writing
    <2>13. "upsert" \in Reading \cup Writing /\ worker[w].pc \in Writing
      BY <1>1 DEF Writing
    <2>14. \A e \in Emails, v \in Workers :
              v # w /\ locals[v].written[e] # NoRow => new.written[e] = NoRow
      BY <2>6 DEF WorkersLocalsOK, RowsLocked
    <2> QED
      BY <1>1, <2>1, <2>2, <2>6, <2>7, <2>11, <2>12, <2>13, <2>14, HandlerGoesOn
  <1> QED
    BY <1>2, <1>3

LEMMA UpsertChunkKeeps ==
  ASSUME ContactsInv, NEW w \in Workers, NEW chunk \in SUBSET FileRows, UpsertChunk(w, chunk)
  PROVE  StepKeeps
  <1> USE DEF ContactsInv
  <1>1. worker[w].pc = "upsert"
    BY DEF UpsertChunk
  <1>2. CASE ~Settings(w).update
    BY <1>1, <1>2, FailsKeeps DEF UpsertChunk
  <1>3. CASE Settings(w).update
    <2> DEFINE old == locals[w]
               known == {e \in chunk : Exists(e)}
               RowFor(e) == IF Exists(e) THEN UpdatedRow(contact[e], Settings(w).subscribe)
                                         ELSE NewRow(Settings(w).subscribe)
               written == [e \in Emails |-> IF e \in chunk THEN RowFor(e) ELSE old.written[e]]
               new == [old EXCEPT !.rows = old.rows \ chunk, !.chunk = chunk,
                                  !.known = old.known \cup known, !.written = written]
    <2>1. /\ \A e \in chunk : ~Locked(e)
          /\ Goto(w, "attachTags")
          /\ locals' = [locals EXCEPT ![w].rows = old.rows \ chunk, ![w].chunk = chunk,
                                      ![w].known = old.known \cup known, ![w].written = written]
          /\ UNCHANGED <<tableVars, requestVars, importVars, job>>
      BY <1>3 DEF UpsertChunk
    <2>2. /\ worker[w].key \in Puts /\ old.from \in Puts /\ TransactionOK(w) /\ old \in Transaction
          /\ \A e \in FileRows \ old.rows : old.written[e] # NoRow
      BY <1>1 DEF WorkersLocalsOK, StageOK, Writing
    <2>3. chunk \subseteq Emails
      BY AudienceAssumption
    <2>4. Settings(w).subscribe \in BOOLEAN
      BY <2>2, AudienceAssumption DEF Settings
    <2>5. \A e \in chunk : /\ RowFor(e) \in Row /\ RowFor(e) # NoRow
                           /\ Exists(e) => RowFor(e).subscribed = contact[e].subscribed
      <3> SUFFICES ASSUME NEW e \in chunk
                   PROVE  /\ RowFor(e) \in Row
                          /\ Exists(e) => RowFor(e).subscribed = contact[e].subscribed
        BY RowAssumption
      <3>1. CASE Exists(e)
        <4>1. contact[e] \in Row
          BY <2>3, <3>1 DEF TablesOK, Exists
        <4>2. UpdatedRow(contact[e], Settings(w).subscribe) \in Row
          BY <4>1, AudienceAssumption DEF UpdatedRow, Row
        <4>3. UpdatedRow(contact[e], Settings(w).subscribe).subscribed = contact[e].subscribed
          BY <4>1 DEF UpdatedRow, Row
        <4> QED
          BY <3>1, <4>2, <4>3
      <3>2. CASE ~Exists(e)
        <4>1. NewRow(Settings(w).subscribe) \in Row
          BY <2>4, AudienceAssumption DEF NewRow, Row
        <4> QED
          BY <3>2, <4>1
      <3> QED
        BY <3>1, <3>2
    <2> HIDE DEF RowFor
    <2>6. /\ written \in [Emails -> Row \cup {NoRow}]
          /\ \A e \in chunk : written[e] = RowFor(e)
          /\ \A e \in Emails \ chunk : written[e] = old.written[e]
      BY <2>2, <2>3, <2>5 DEF Transaction
    <2> HIDE DEF written
    <2>7. known \subseteq Emails /\ \A e \in chunk : Exists(e) => e \in known
      BY <2>3
    <2> HIDE DEF known
    <2>8. /\ new \in Transaction /\ new.tags = old.tags /\ new.rows = old.rows \ chunk
          /\ new.from = old.from /\ new.written = written /\ new.chunk = chunk
          /\ new.tagged = old.tagged /\ new.known = old.known \cup known
      BY <2>2, <2>6, <2>7 DEF Transaction
    <2>9. locals' = [locals EXCEPT ![w] = new]
      BY <2>1 DEF WorkersLocalsOK
    <2> HIDE DEF new
    <2>10. locals'[w] = new
      BY <2>9 DEF WorkersLocalsOK
    <2>11. worker'[w].pc = "attachTags"
      BY <2>1, GoneOn DEF QueueOK, QueueInv, Pcs
    <2>12. tags' = tags /\ contact' = contact
      BY <2>1 DEF tableVars
    <2>13. \A e \in Emails : old.written[e] # NoRow => written[e] # NoRow
      BY <2>5, <2>6
    <2>14. ASSUME worker'[w].key = worker[w].key, worker'[w].entry = worker[w].entry
           PROVE  TransactionOK(w)'
      <3>1. Run(w)' = Run(w)
        BY <2>14 DEF Run, Entry
      <3>2. \A e \in Emails : new.written[e] # NoRow /\ contact[e] # NoRow =>
               e \in new.known /\ new.written[e].subscribed = contact[e].subscribed
        BY <2>2, <2>5, <2>6, <2>7, <2>8 DEF TransactionOK, Exists
      <3>3. \A e \in new.chunk : new.written[e] # NoRow
        BY <2>5, <2>6, <2>8
      <3>4. \A pair \in new.tagged : new.written[pair[1]] # NoRow /\ pair[2] \in tags \cup new.tags
        BY <2>2, <2>8, <2>13 DEF TransactionOK, Transaction
      <3> QED
        BY <2>2, <2>8, <2>10, <2>12, <3>1, <3>2, <3>3, <3>4 DEF TransactionOK, Exists
    <2>15. worker'[w].key = worker[w].key => StageOK(w)'
      <3>1. \A e \in FileRows \ new.rows : new.written[e] # NoRow
        BY <2>2, <2>3, <2>5, <2>6, <2>8, <2>13, AudienceAssumption
      <3> QED
        BY <2>2, <2>8, <2>10, <2>11, <3>1 DEF StageOK, Outside, Reading, Writing
    <2>16. "attachTags" \in Reading \cup Writing /\ worker[w].pc \in Writing
      BY <1>1 DEF Writing
    <2>17. \A e \in Emails, v \in Workers :
              v # w /\ locals[v].written[e] # NoRow => new.written[e] = NoRow
      BY <2>1, <2>6, <2>8 DEF WorkersLocalsOK, RowsLocked, Locked
    <2>18. Goto(w, "attachTags") /\ UNCHANGED <<tableVars, requestVars, importVars, job>>
      BY <2>1
    <2> QED
      BY <1>1, <2>2, <2>8, <2>9, <2>14, <2>15, <2>16, <2>17, <2>18, HandlerGoesOn
  <1> QED
    BY <1>2, <1>3

LEMMA AttachTagsKeeps ==
  ASSUME ContactsInv, NEW w \in Workers, AttachTags(w)
  PROVE  StepKeeps
  <1> USE DEF ContactsInv
  <1> DEFINE old == locals[w]
             given == RequestTags(Settings(w).ids)
             all == old.tags \cup given
             bad == all # {} /\ (old.known \cap old.chunk # {} \/ ~(given \subseteq tags))
  <1>1. worker[w].pc = "attachTags"
    BY DEF AttachTags
  <1>2. CASE bad
    BY <1>1, <1>2, FailsKeeps DEF AttachTags
  <1>3. CASE ~bad
    <2> DEFINE pairs == old.chunk \X all
               pc == AfterChunk(old.rows)
               new == [old EXCEPT !.tagged = old.tagged \cup pairs, !.chunk = {}]
    <2>1. /\ Goto(w, pc)
          /\ locals' = [locals EXCEPT ![w].tagged = old.tagged \cup pairs, ![w].chunk = {}]
          /\ UNCHANGED <<tableVars, requestVars, importVars, job>>
      BY <1>3 DEF AttachTags
    <2>2. /\ worker[w].key \in Puts /\ old.from \in Puts /\ TransactionOK(w) /\ old \in Transaction
          /\ \A e \in FileRows \ old.rows : old.written[e] # NoRow
      BY <1>1 DEF WorkersLocalsOK, StageOK, Writing
    <2>3. \A pair \in pairs : /\ pair \in Emails \X Tag
                              /\ pair[1] \in old.chunk /\ pair[2] \in tags \cup old.tags
      <3>1. pairs = {} \/ given \subseteq tags
        BY <1>3
      <3>2. old.chunk \subseteq Emails /\ old.tags \subseteq Tag /\ tags \subseteq Tag
        BY <2>2, AudienceAssumption DEF Transaction, TablesOK
      <3> HIDE DEF given
      <3> QED
        BY <3>1, <3>2
    <2>4. pairs \subseteq Emails \X Tag
      BY <2>3
    <2> HIDE DEF pairs
    <2>5. /\ new \in Transaction /\ new.tags = old.tags /\ new.rows = old.rows
          /\ new.from = old.from /\ new.written = old.written /\ new.chunk = {}
          /\ new.tagged = old.tagged \cup pairs /\ new.known = old.known
      BY <2>2, <2>4 DEF Transaction
    <2>6. locals' = [locals EXCEPT ![w] = new]
      BY <2>1 DEF WorkersLocalsOK
    <2> HIDE DEF new
    <2>7. locals'[w] = new
      BY <2>6 DEF WorkersLocalsOK
    <2>8. pc \in {"upsert", "commit"} /\ (pc = "commit" => old.rows = {})
      BY DEF AfterChunk
    <2> HIDE DEF pc
    <2>9. worker'[w].pc = pc
      BY <2>1, <2>8, GoneOn DEF QueueOK, QueueInv, Pcs
    <2>10. tags' = tags /\ contact' = contact
      BY <2>1 DEF tableVars
    <2>11. ASSUME worker'[w].key = worker[w].key, worker'[w].entry = worker[w].entry
           PROVE  TransactionOK(w)'
      <3>1. Run(w)' = Run(w)
        BY <2>11 DEF Run, Entry
      <3>2. \A pair \in new.tagged : new.written[pair[1]] # NoRow /\ pair[2] \in tags \cup new.tags
        BY <2>2, <2>3, <2>5 DEF TransactionOK
      <3> QED
        BY <2>2, <2>5, <2>7, <2>10, <3>1, <3>2 DEF TransactionOK, Exists
    <2>12. worker'[w].key = worker[w].key => StageOK(w)'
      BY <2>2, <2>5, <2>7, <2>8, <2>9 DEF StageOK, Outside, Reading, Writing
    <2>13. pc \in Reading \cup Writing /\ worker[w].pc \in Writing
      BY <1>1, <2>8 DEF Writing
    <2>14. \A e \in Emails, v \in Workers :
              v # w /\ locals[v].written[e] # NoRow => new.written[e] = NoRow
      BY <2>5 DEF WorkersLocalsOK, RowsLocked
    <2>15. Goto(w, pc) /\ UNCHANGED <<tableVars, requestVars, importVars, job>>
      BY <2>1
    <2> QED
      BY <1>1, <2>2, <2>5, <2>6, <2>11, <2>12, <2>13, <2>14, <2>15, HandlerGoesOn
  <1> QED
    BY <1>2, <1>3

\* Everything the transaction wrote becomes visible, with the status.
LEMMA CommitImportKeeps ==
  ASSUME ContactsInv, NEW w \in Workers, CommitImport(w)
  PROVE  StepKeeps
  <1> USE DEF ContactsInv
  <1> DEFINE mine == locals[w]
             entry == [run |-> Run(w), from |-> mine.from, known |-> mine.known]
  <1>1. /\ worker[w].pc = "commit"
        /\ contact' = [e \in Emails |-> IF mine.written[e] = NoRow THEN contact[e]
                                                               ELSE mine.written[e]]
        /\ tags' = tags \cup mine.tags
        /\ tagged' = tagged \cup mine.tagged
        /\ import' = [import EXCEPT !.status = "SUCCESS"]
        /\ committed' = committed \cup {entry}
        /\ Goto(w, "return")
        /\ Forget(w)
        /\ UNCHANGED <<requestVars, job>>
    BY DEF CommitImport, Succeeded
  <1>2. /\ worker[w].key \in Puts /\ mine.from \in Puts /\ mine \in Transaction
        /\ TransactionOK(w) /\ mine.rows = {}
        /\ \A e \in FileRows : mine.written[e] # NoRow
    BY <1>1 DEF WorkersLocalsOK, StageOK, Writing
  <1>3. Run(w) \in Puts \X Runs
    BY <1>1, <1>2, RunTyped
  <1>4. entry \in [run: Puts \X Runs, from: Puts, known: SUBSET Emails]
    BY <1>2, <1>3 DEF Transaction
  <1>5. /\ entry \in committed' /\ committed \subseteq committed' /\ entry.run = Run(w)
        /\ entry.from = mine.from /\ entry.known = mine.known
    BY <1>1
  <1> HIDE DEF entry
  <1>6. /\ contact' \in [Emails -> Row \cup {NoRow}]
        /\ \A e \in Emails : mine.written[e] # NoRow => contact'[e] = mine.written[e]
        /\ \A e \in Emails : mine.written[e] = NoRow => contact'[e] = contact[e]
    BY <1>1, <1>2 DEF TablesOK, Transaction
  <1>7. ContactsStay
    BY <1>2, <1>6 DEF ContactsStay, TransactionOK, Exists
  <1>8. TablesOK'
    <2>1. mine.tags \subseteq Tag /\ mine.tagged \subseteq Emails \X Tag
      BY <1>2 DEF Transaction
    <2>2. tags' \subseteq Tag /\ tagged' \subseteq Emails \X Tag
      BY <1>1, <2>1 DEF TablesOK
    <2>3. \A t \in tags' : t.by \in TagRequests \/ \E c \in committed' : c.run = t.by
      <3>1. \A t \in mine.tags : t.by = Run(w)
        BY <1>2 DEF TransactionOK
      <3>2. \A t \in tags : t.by \in TagRequests \/ \E c \in committed : c.run = t.by
        BY DEF TablesOK
      <3>3. \A t \in tags' : t \in tags \/ t \in mine.tags
        BY <1>1
      <3> QED
        BY <1>5, <3>1, <3>2, <3>3
    <2>4. \A pair \in tagged' : Exists(pair[1])' /\ pair[2] \in tags'
      <3>1. \A pair \in tagged : contact'[pair[1]] # NoRow /\ pair[2] \in tags'
        BY <1>1, <1>7 DEF TablesOK, ContactsStay
      <3>2. \A pair \in mine.tagged : contact'[pair[1]] # NoRow /\ pair[2] \in tags'
        BY <1>1, <1>2, <1>6, <2>1 DEF TransactionOK
      <3>3. \A pair \in tagged' : pair \in tagged \/ pair \in mine.tagged
        BY <1>1
      <3> QED
        BY <3>1, <3>2, <3>3 DEF Exists
    <2> QED
      BY <1>6, <2>2, <2>3, <2>4 DEF TablesOK
  <1>9. RequestsOK'
    BY <1>1, <1>7, RequestsSame DEF requestVars
  <1>10. AttributesKept'
    <2>1. \A p \in Patches : patch[p].pc = "done" =>
             \/ contact'[PatchOf[p].email] = contact[PatchOf[p].email]
             \/ \E c \in committed' : PatchOf[p].email \in c.known
      <3> SUFFICES ASSUME NEW p \in Patches, patch[p].pc = "done",
                          mine.written[PatchOf[p].email] # NoRow
                   PROVE  PatchOf[p].email \in mine.known
        BY <1>5, <1>6, AudienceAssumption
      <3>1. PatchOf[p].email \in Emails /\ Exists(PatchOf[p].email)
        BY AudienceAssumption DEF RequestsOK
      <3> QED
        BY <1>2, <3>1 DEF TransactionOK
    <2> QED
      BY <1>1, <1>5, <2>1, AttributesSame DEF requestVars
  <1>11. ImportOK'
    <2>1. /\ import'.status = "SUCCESS" /\ import'.from = import.from
          /\ import' \in [status: Statuses, csv: BOOLEAN, from: Puts \cup {NoPut}]
      BY <1>1 DEF ImportOK, Statuses
    <2>2. put' = put /\ job' = job
      BY <1>1 DEF requestVars
    <2>3. committed' # {} /\ committed' \subseteq [run: Puts \X Runs, from: Puts, known: SUBSET Emails]
      BY <1>1, <1>4 DEF ImportOK
    <2>4. \A e \in FileRows : contact'[e] # NoRow
      BY <1>2, <1>6, AudienceAssumption
    <2>5. ASSUME NEW p \in Puts, CarriedOut(p)', import'.from = p
          PROVE  Applied(p)'
      <3>1. CASE CarriedOut(p)
        <4>1. Applied(p)
          BY <2>1, <2>5, <3>1 DEF ImportOK
        <4> QED
          BY <1>5, <2>1, <4>1 DEF Applied
      <3>2. CASE worker[w].key = p
        <4>1. mine.from = p
          BY <1>1, <2>1, <2>5, <3>2 DEF LatestRead, Writing
        <4>2. entry.run[1] = p
          BY <1>5, <3>2 DEF Run
        <4> QED
          BY <1>5, <2>1, <4>1, <4>2 DEF Applied
      <3>3. CASE worker[w].key # p
        <4>1. worker'[w].key = worker[w].key /\ \A v \in Workers : v # w => worker'[v] = worker[v]
          BY <1>1, GoneOn DEF QueueOK, QueueInv, Pcs
        <4>2. CarriedOut(p)
          BY <2>2, <2>5, <3>3, <4>1 DEF CarriedOut
        <4> QED
          BY <3>1, <4>2
      <3> QED
        BY <3>2, <3>3
    <2> HIDE DEF CarriedOut, Applied
    <2>6. \A p \in Puts : /\ put'[p] # "absent" => import'.status # "none"
                         /\ put'[p] \in {"updated", "queued"} => import'.from \in Puts
                         /\ put'[p] = "queued" <=> job'[p] # Absent
      BY <2>1, <2>2 DEF ImportOK
    <2> QED
      BY <2>1, <2>2, <2>3, <2>4, <2>5, <2>6 DEF ImportOK, Exists
  <1>12. /\ worker'[w].pc = "return" /\ worker'[w].key = worker[w].key
         /\ \A v \in Workers : v # w => worker'[v] = worker[v]
    BY <1>1, GoneOn DEF QueueOK, QueueInv, Pcs
  <1>13. QueueOK'
    <2>1. {} \in SUBSET Keys /\ \A k \in {} : job[k] = Absent \/ (k \notin Keys /\ job[k].state = "completed")
      OBVIOUS
    <2>2. "return" \in Pcs \ {"idle"}
      BY DEF Pcs
    <2>3. UNCHANGED job
      BY <1>1
    <2>4. \E v \in Workers, pc \in Pcs \ {"idle"} : worker[v].pc # "idle" /\ Goto(v, pc)
      BY <1>1, <2>2
    <2> QED
      BY <2>1, <2>3, <2>4, Attempts, MoveStep DEF QueueOK
  <1>14. WorkersLocalsOK'
    <2>1. /\ locals' \in [Workers -> Transaction] /\ locals'[w] = Blank
          /\ \A v \in Workers : v # w => locals'[v] = locals[v]
      BY <1>1, BlankTransaction DEF WorkersLocalsOK, Forget
    <2>2. TransactionOK(w)'
      BY <2>1, BlankTransaction DEF TransactionOK
    <2>3. StageOK(w)'
      BY <1>12, <2>1 DEF StageOK, Outside, Reading, Writing
    <2>4. \A e \in Emails, v \in Workers : v # w /\ locals[v].written[e] # NoRow =>
             contact'[e] = contact[e] /\ locals'[w].written[e] = NoRow
      BY <1>6, <2>1, BlankTransaction DEF WorkersLocalsOK, RowsLocked
    <2>5. tags \subseteq tags'
      BY <1>1
    <2> QED
      BY <1>12, <2>1, <2>2, <2>3, <2>4, <2>5, OneWorkerMoves
  <1>15. LatestRead'
    <2>1. import'.from = import.from /\ \A v \in Workers : v # w => locals'[v] = locals[v]
      BY <1>1 DEF ImportOK, WorkersLocalsOK, Forget
    <2>2. worker'[w].pc \notin Reading \cup Writing
      BY <1>12 DEF Reading, Writing
    <2> QED
      BY <1>12, <2>1, <2>2 DEF LatestRead
  <1> QED
    BY <1>7, <1>8, <1>9, <1>10, <1>11, <1>13, <1>14, <1>15 DEF StepKeeps

-----------------------------------------------------------------------------
(* The theorems. *)

LEMMA InitContacts ==
  ASSUME Init
  PROVE  ContactsInv
  <1>1. QueueOK
    <2>1. job \in [Keys -> Job] /\ \A k \in Keys : JobInv(job[k], AttemptsFn[k]) /\ job[k] = Absent
      BY Attempts, FreshJobs DEF Init, JobInv
    <2>2. /\ worker \in [Workers -> [pc: Pcs, key: Keys \cup {NoKey}, entry: Nat]]
          /\ \A w \in Workers : worker[w] = Idle /\ worker[w].pc = "idle"
      BY Attempts, IdleWorker DEF Init
    <2>3. \A k \in Keys : job[k].lock \notin Workers
      BY <2>1, QueueAssumption DEF Absent
    <2> QED
      BY <2>1, <2>2, <2>3 DEF QueueOK, QueueInv, QueueTypes, WorkersOK, EntriesDiffer, LocksOK
  <1>2. TablesOK
    BY DEF Init, TablesOK
  <1>3. RequestsOK
    BY DEF Init, RequestsOK
  <1>4. AttributesKept
    BY DEF Init, AttributesKept
  <1>5. ImportOK
    BY AudienceAssumption DEF Init, ImportOK, CarriedOut, Statuses, Absent, Idle, Keys
  <1>6. WorkersLocalsOK
    <2>1. locals \in [Workers -> Transaction] /\ \A w \in Workers : locals[w] = Blank
      BY BlankTransaction DEF Init
    <2>2. \A w \in Workers : TransactionOK(w)
      BY <2>1, BlankTransaction DEF TransactionOK
    <2>3. \A w \in Workers : StageOK(w)
      BY <2>1 DEF StageOK, Init, Idle, Outside, Reading, Writing
    <2> QED
      BY <2>1, <2>2, <2>3, BlankTransaction DEF WorkersLocalsOK, RowsLocked
  <1>7. LatestRead
    BY DEF Init, LatestRead, Idle, Reading, Writing
  <1> QED
    BY <1>1, <1>2, <1>3, <1>4, <1>5, <1>6, <1>7 DEF ContactsInv

LEMMA NextContacts ==
  ASSUME ContactsInv, [Next]_vars
  PROVE  ContactsInv' /\ [ContactsStay]_vars
  <1>1. CASE Next
    <2>1. ASSUME NEW e \in Emails, CreateContact(e) \/ \E t \in tags : DetachTag(e, t)
          PROVE  StepKeeps
      BY <2>1, CreateContactKeeps, DetachKeeps
    <2>2. ASSUME NEW p \in Patches, ReadContact(p) \/ WriteContact(p)
          PROVE  StepKeeps
      BY <2>2, ReadContactKeeps, WriteContactKeeps
    <2>3. ASSUME NEW t \in TagRequests, CheckTag(t) \/ InsertTag(t)
          PROVE  StepKeeps
      BY <2>3, TagRequestsKeep
    <2>4. ASSUME NEW t \in tags, DeleteTag(t) \/ \E a \in Attaches : CheckAttach(a, t)
          PROVE  StepKeeps
      BY <2>4, DeleteTagKeeps, AttachKeeps
    <2>5. ASSUME NEW a \in Attaches, ReadTagged(a) \/ InsertTagged(a)
          PROVE  StepKeeps
      BY <2>5, AttachKeeps
    <2>6. ASSUME NEW csv \in BOOLEAN, Upload(csv)
          PROVE  StepKeeps
      BY <2>6, SettingsKeep
    <2>7. ASSUME NEW p \in Puts, CheckSettings(p) \/ UpdateSettings(p) \/ QueueImport(p)
          PROVE  StepKeeps
      BY <2>7, SettingsKeep, QueueingKeeps
    <2>8. ASSUME NEW x \in Exports, QueueExport(x)
          PROVE  StepKeeps
      BY <2>8, QueueingKeeps
    <2>9. ASSUME NEW w \in Workers, TakeAny(w)
          PROVE  StepKeeps
      BY <2>9, TakeKeeps DEF TakeAny
    <2>10. ASSUME NEW w \in Workers, UpsertAny(w)
           PROVE  StepKeeps
      BY <2>10, UpsertChunkKeeps DEF UpsertAny
    <2>11. ASSUME NEW w \in Workers,
                  FindImport(w) \/ ReadFile(w) \/ InsertTags(w) \/ AttachTags(w) \/ CommitImport(w)
           PROVE  StepKeeps
      BY <2>11, FindImportKeeps, ReadFileKeeps, InsertTagsKeeps, AttachTagsKeeps, CommitImportKeeps
    <2>12. ASSUME NEW w \in Workers,
                  SelectContacts(w) \/ Succeed(w) \/ HandlerThrows(w) \/ Crash(w) \/ LoseLock(w)
           PROVE  StepKeeps
      BY <2>12, SelectContactsKeeps, EndingKeeps, LostLocksKeep
    <2>13. ASSUME NEW k \in Keys, Recover(k)
           PROVE  StepKeeps
      BY <2>13, RecoverKeeps
    <2> HIDE DEF ContactsInv
    <2>14. ASSUME NEW w \in Workers,
                  \/ TakeAny(w) \/ FindImport(w) \/ ReadFile(w) \/ InsertTags(w) \/ UpsertAny(w)
                  \/ AttachTags(w) \/ CommitImport(w) \/ SelectContacts(w) \/ Succeed(w)
                  \/ HandlerThrows(w) \/ Crash(w) \/ LoseLock(w)
           PROVE  StepKeeps
      BY <2>9, <2>10, <2>11, <2>12, <2>14
    <2>15. StepKeeps
      BY <1>1, <2>1, <2>2, <2>3, <2>4, <2>5, <2>6, <2>7, <2>8, <2>13, <2>14, Zenon
         DEF Next, RecoverAny
    <2> QED
      BY <2>15 DEF StepKeeps
  <1>2. CASE UNCHANGED vars
    <2> USE DEF ContactsInv
    <2>1. ContactsStay /\ QueueOK'
      BY <1>2, QueueSame DEF ContactsStay, Exists, vars, queueVars
    <2>2. TablesOK'
      BY <1>2 DEF vars, TablesOK, Exists
    <2>3. RequestsOK' /\ AttributesKept'
      BY <1>2, <2>1, RequestsSame, AttributesSame DEF vars
    <2>4. \A p \in Puts : CarriedOut(p)' => CarriedOut(p)
      BY <1>2 DEF CarriedOut, vars
    <2>5. ImportOK' /\ WorkersLocalsOK' /\ LatestRead'
      BY <1>2, <2>1, <2>4, ImportSame, LocalsSame DEF vars, LatestRead
    <2> QED
      BY <1>2, <2>1, <2>2, <2>3, <2>5
  <1> QED
    BY <1>1, <1>2

\* What every step of Contacts keeps.
THEOREM ContactsInvariant == Spec => []ContactsInv
  <1>1. Init => ContactsInv
    BY InitContacts
  <1>2. ContactsInv /\ [Next]_vars => ContactsInv'
    BY NextContacts
  <1> QED
    BY <1>1, <1>2, PTL DEF Spec

\* Contacts, tags, requests, the import, its jobs and its workers are what they should be.
THEOREM ContactsTypeCorrect == Spec => []ContactsTypeOK
  <1>1. ContactsInv => ContactsTypeOK
    BY DEF ContactsInv, QueueOK, QueueInv, QueueTypes, TablesOK, RequestsOK, ImportOK, ContactsTypeOK
  <1> QED
    BY <1>1, ContactsInvariant, PTL

\* What an import writes is there as a whole: its rows once it says SUCCESS, its tags
\* once it committed, and every tag of a contact.
THEOREM ImportsAreWhole == Spec => []ImportIsWhole
  <1>1. ContactsInv => ImportIsWhole
    BY DEF ContactsInv, TablesOK, ImportOK, ImportIsWhole
  <1> QED
    BY <1>1, ContactsInvariant, PTL

\* Attributes that a PATCH set are lost only to a PATCH that overlapped it or to an import
\* that knew the contact.
THEOREM LossesOverlapped == Spec => []LostOnlyByOverlap
  <1>1. ContactsInv => LostOnlyByOverlap
    BY DEF ContactsInv, AttributesKept, Excused, LostOnlyByOverlap
  <1> QED
    BY <1>1, ContactsInvariant, PTL

\* When the job of the PUT that configured an import last is done, the import says SUCCESS
\* and that job committed the settings of that PUT, whatever other jobs ran with them.
THEOREM LastSettingsAreApplied == Spec => []LastSettingsApplied
  <1>1. ContactsInv => LastSettingsApplied
    BY DEF ContactsInv, ImportOK, CarriedOut, Applied, LastSettingsApplied
  <1> QED
    BY <1>1, ContactsInvariant, PTL

\* No PATCH and no import changes whether a contact is subscribed.
THEOREM SubscriptionsDecidedAtBirth == Spec => SubscribedAtBirth
  <1>1. ContactsInv /\ [Next]_vars => [ContactsStay]_vars
    BY NextContacts
  <1> QED
    BY <1>1, ContactsInvariant, PTL DEF Spec, SubscribedAtBirth, ContactsStay

-----------------------------------------------------------------------------
(* Segments. *)

\* A clause is true when all its parts are, or one of them is, also beside NULLs.
LEMMA ClauseOfTruths ==
  ASSUME NEW type \in {"AND", "OR"}, NEW parts, parts # {}, parts \subseteq {"true", "false", "null"}
  PROVE  /\ Clause(type, parts) \in {"true", "false", "null"}
         /\ type = "AND" => (Clause(type, parts) = "true" <=> \A x \in parts : x = "true")
         /\ type = "OR" => (Clause(type, parts) = "true" <=> \E x \in parts : x = "true")
  <1>1. CASE type = "AND"
    <2>1. CASE "false" \in parts
      BY <1>1, <2>1 DEF Clause, Truth
    <2>2. CASE "false" \notin parts /\ "null" \in parts
      BY <1>1, <2>2 DEF Clause, Truth
    <2>3. CASE "false" \notin parts /\ "null" \notin parts
      BY <1>1, <2>3 DEF Clause, Truth
    <2> QED
      BY <2>1, <2>2, <2>3
  <1>2. CASE type = "OR"
    <2>1. CASE "true" \in parts
      <3>1. type # "AND" /\ parts # {}
        BY <1>2, <2>1
      <3>2. Clause(type, parts) = "true"
        BY <1>2, <2>1, <3>1 DEF Clause, Truth
      <3> QED
        BY <1>2, <2>1, <3>2
    <2>2. CASE "true" \notin parts
      BY <1>2, <2>2 DEF Clause, Truth
    <2> QED
      BY <2>1, <2>2
  <1> QED
    BY <1>1, <1>2

\* A column has a value, or the condition is about the tags.
HasValue(condition, row) == condition.field = "tags" \/ row[condition.field] # NoText

\* A condition says only what holds, and of a column that has a value all that holds.
LEMMA ConditionTrue ==
  ASSUME NEW condition, NEW row
  PROVE  /\ Says(condition, row) \in {"true", "false", "null"}
         /\ Says(condition, row) = "true" => HoldsOf(condition, row)
         /\ HasValue(condition, row) /\ HoldsOf(condition, row) => Says(condition, row) = "true"
  <1>1. CASE condition.field = "tags"
    BY <1>1 DEF Says, HoldsOf, TagCondition, Truth
  <1>2. CASE condition.field # "tags" /\ row[condition.field] = NoText
    BY <1>2 DEF Says, TextCondition, HasValue
  <1>3. CASE condition.field # "tags" /\ row[condition.field] # NoText
    BY <1>3 DEF Says, HoldsOf, TextCondition, Truth
  <1> QED
    BY <1>1, <1>2, <1>3

LEMMA GroupTrue ==
  ASSUME NEW group, group.type \in {"AND", "OR"}, NEW row, group.conditions # {},
         \A c \in group.conditions : ~LeftOut(c)
  PROVE  /\ GroupClause(group, row) \in {"true", "false", "null"}
         /\ GroupClause(group, row) = "true" => GroupHolds(group, row)
         /\ (\A c \in group.conditions : HasValue(c, row)) /\ GroupHolds(group, row)
               => GroupClause(group, row) = "true"
  <1> DEFINE parts == {Says(c, row) : c \in {x \in group.conditions : ~LeftOut(x)}}
             filled == \A c \in group.conditions : HasValue(c, row)
  <1>1. \A x : x \in parts <=> \E c \in group.conditions : x = Says(c, row)
    OBVIOUS
  <1>2. \A c \in group.conditions :
           /\ Says(c, row) \in {"true", "false", "null"}
           /\ Says(c, row) = "true" => HoldsOf(c, row)
           /\ HasValue(c, row) /\ HoldsOf(c, row) => Says(c, row) = "true"
    BY ConditionTrue
  <1>3. parts # {} /\ parts \subseteq {"true", "false", "null"}
    BY <1>1, <1>2
  <1>4. GroupClause(group, row) = Clause(group.type, parts)
    BY DEF GroupClause
  <1> HIDE DEF parts
  <1>5. /\ (\A x \in parts : x = "true") <=> \A c \in group.conditions : Says(c, row) = "true"
        /\ (\E x \in parts : x = "true") <=> \E c \in group.conditions : Says(c, row) = "true"
    BY <1>1, Zenon
  <1>6. /\ Clause(group.type, parts) \in {"true", "false", "null"}
        /\ group.type = "AND" =>
              (Clause(group.type, parts) = "true" <=> \A x \in parts : x = "true")
        /\ group.type = "OR" =>
              (Clause(group.type, parts) = "true" <=> \E x \in parts : x = "true")
    BY <1>3, ClauseOfTruths
  <1>7. CASE group.type = "AND"
    <2>1. GroupHolds(group, row) <=> \A c \in group.conditions : HoldsOf(c, row)
      BY <1>7 DEF GroupHolds
    <2> QED
      BY <1>2, <1>4, <1>5, <1>6, <1>7, <2>1
  <1>8. CASE group.type = "OR"
    <2>1. GroupHolds(group, row) <=> \E c \in group.conditions : HoldsOf(c, row)
      <3>1. group.type # "AND"
        BY <1>8
      <3> QED
        BY <3>1 DEF GroupHolds
    <2> QED
      BY <1>2, <1>4, <1>5, <1>6, <1>8, <2>1
  <1> QED
    BY <1>7, <1>8

LEMMA FilterTrue ==
  ASSUME NEW filter \in SegmentFilters, NEW row, Known(filter)
  PROVE  /\ Selects(filter, row) => FilterHolds(filter, row)
         /\ Filled(filter, row) /\ FilterHolds(filter, row) => Selects(filter, row)
  <1> DEFINE parts == {GroupClause(group, row) : group \in filter.groups} \ {"noClause"}
             clause == Clause(filter.type, parts)
             filled(g) == \A c \in g.conditions : HasValue(c, row)
  <1>1. /\ filter.type \in {"AND", "OR"}
        /\ \A g \in filter.groups : g.type \in {"AND", "OR"}
    BY RowAssumption
  <1>2. \A g \in filter.groups :
           /\ GroupClause(g, row) \in {"true", "false", "null"}
           /\ GroupClause(g, row) = "true" => GroupHolds(g, row)
           /\ filled(g) /\ GroupHolds(g, row) => GroupClause(g, row) = "true"
    BY <1>1, GroupTrue DEF Known
  <1>3. \A x : x \in parts <=> \E g \in filter.groups : x = GroupClause(g, row)
    BY <1>2
  <1>4. parts # {} /\ parts \subseteq {"true", "false", "null"}
    BY <1>2, <1>3 DEF Known
  <1>5. Selects(filter, row) <=> clause \in {"true", "noClause"}
    BY DEF Selects, FilterClause
  <1>6. Filled(filter, row) => \A g \in filter.groups : filled(g)
    BY DEF Filled, HasValue
  <1> HIDE DEF parts, filled
  <1>7. /\ (\A x \in parts : x = "true") <=> \A g \in filter.groups : GroupClause(g, row) = "true"
        /\ (\E x \in parts : x = "true") <=> \E g \in filter.groups : GroupClause(g, row) = "true"
    BY <1>3, Zenon
  <1>8. /\ clause \in {"true", "false", "null"}
        /\ filter.type = "AND" => (clause = "true" <=> \A x \in parts : x = "true")
        /\ filter.type = "OR" => (clause = "true" <=> \E x \in parts : x = "true")
    BY <1>1, <1>4, ClauseOfTruths
  <1> HIDE DEF clause
  <1>9. Selects(filter, row) <=> clause = "true"
    BY <1>5, <1>8
  <1>10. CASE filter.type = "AND"
    <2>1. FilterHolds(filter, row) <=> \A g \in filter.groups : GroupHolds(g, row)
      BY <1>10 DEF FilterHolds
    <2> QED
      BY <1>2, <1>6, <1>7, <1>8, <1>9, <1>10, <2>1
  <1>11. CASE filter.type = "OR"
    <2>1. FilterHolds(filter, row) <=> \E g \in filter.groups : GroupHolds(g, row)
      <3>1. filter.type # "AND"
        BY <1>11
      <3> QED
        BY <3>1 DEF FilterHolds
    <2> QED
      BY <1>2, <1>6, <1>7, <1>8, <1>9, <1>11, <2>1
  <1> QED
    BY <1>1, <1>10, <1>11

\* Where the builder leaves nothing out, a segment selects only contacts its filter
\* describes, whatever columns are empty, and all of those whose columns have values.
THEOREM SegmentsSelect == Spec => []SegmentSelects
  <1>1. SegmentSelects
    BY FilterTrue DEF SegmentSelects
  <1> QED
    BY <1>1, PTL

=============================================================================
