------------------------------ MODULE Audiences ------------------------------
(***************************************************************************)
(* src/audiences: the contacts and tags of one audience and what requests  *)
(* do to them, with the state the imports of ContactImports share with     *)
(* them.  What the transaction of an import wrote is kept with its worker  *)
(* until it commits; its locks hold up those who would write the same rows.*)
(***************************************************************************)
EXTENDS JobWorkers, Segments

CONSTANTS
    Emails,        \* one contact each at most: the unique key of the table
    Attributes,
    NoRow, NoPut, NoTag,
    TagNames,
    TagRequests,   \* POSTs of a tag
    TagNameOf,     \* TagNameOf[t]
    Patches,       \* PATCHes of a contact
    PatchOf,       \* PatchOf[p]: the contact, and the attributes it sets
    Attaches,      \* POSTs that attach tags to a contact
    AttachTo,      \* AttachTo[a]: the contact
    FileRows,      \* the contacts in the uploaded file
    FileName,      \* the first name each of its rows has
    FileAttributes,
    Puts,          \* PUTs of the import's settings
    SettingsOf,    \* SettingsOf[p]
    ChunkSize,     \* 1000
    Exports,       \* POSTs that ask for an export
    SegmentFilters

OneAttempt == 1
Runs == 1 .. MaxStarts(OneAttempt)

\* Who inserted a tag: a request, or a run of an import job.
Tag == [name: TagNames, by: TagRequests \cup (Puts \X Runs)]

ASSUME AudienceAssumption ==
    /\ TagNameOf \in [TagRequests -> TagNames]
    /\ PatchOf \in [Patches -> [email: Emails, attrs: SUBSET Attributes]]
    /\ AttachTo \in [Attaches -> Emails]
    /\ FileRows \subseteq Emails /\ FileRows # {}
    /\ FileAttributes \subseteq Attributes
    /\ SettingsOf \in [Puts -> [update: BOOLEAN, subscribe: BOOLEAN,
                                names: SUBSET TagNames, ids: SUBSET TagRequests]]
    /\ ChunkSize \in Nat \ {0}
    /\ Puts \cap Exports = {}
    /\ NoPut \notin Puts

VARIABLES
    contact,   \* contact[e]: the row of the contact with this e-mail
    tags,      \* the rows of the tags table
    tagged,    \* the rows of tagsOnContacts
    maker,     \* maker[t]: a POST of a tag
    patch,     \* patch[p]: a PATCH
    attach,    \* attach[a]: a POST that attaches
    import,    \* the import: its status and the PUT its settings are from
    put,       \* put[p]: a PUT
    committed, \* the runs of import jobs that committed: the run, the PUT whose
               \* settings it used, the contacts it found there already
    locals     \* locals[w]: the transaction of w

tableVars   == <<contact, tags, tagged>>
requestVars == <<maker, patch, attach, put>>
importVars  == <<import, committed>>
queueVars   == <<job, worker>>
vars == <<contact, tags, tagged, maker, patch, attach, put, import, committed,
          job, worker, locals>>

-----------------------------------------------------------------------------
Keys == Puts \cup Exports

Row == [firstName: {NoText, FileName}, attrs: SUBSET Attributes, subscribed: BOOLEAN]

\* NoRow is no row; filters and their groups are joined by AND or by OR
\* (the picklists of create_segment_dto.ts).
ASSUME RowAssumption ==
    /\ NoRow \notin Row
    /\ \A filter \in SegmentFilters : \A part \in filter.groups \cup {filter} :
          part.type \in {"AND", "OR"}

Statuses == {"none", "PENDING", "PROCESSING", "FAILED", "SUCCESS"}

\* What an import job holds: the attempts made when it was taken, the settings it
\* read, and what its transaction wrote.
Blank == [made |-> 0, from |-> NoPut, tags |-> {}, rows |-> {}, chunk |-> {},
          known |-> {}, written |-> [e \in Emails |-> NoRow], tagged |-> {}]

Pcs == {"idle", "return", "findImport", "readFile", "insertTags", "upsert",
        "attachTags", "commit", "selectContacts"}

Exists(e) == contact[e] # NoRow

Locked(e) == \E w \in Workers : locals[w].written[e] # NoRow

NameLocked(n) == \E w \in Workers : \E t \in locals[w].tags : t.name = n

TagLocked(t) == \E w \in Workers : \E pair \in locals[w].tagged : pair[2] = t

NameTaken(n) == \E t \in tags : t.name = n

-----------------------------------------------------------------------------
(* Contacts *)

\* Mutant: the columns the payload does not give are not filled in.
CreateContactBare(e) ==
    /\ ~Exists(e) /\ ~Locked(e)
    /\ contact' = [contact EXCEPT ![e] = [attrs |-> {}, subscribed |-> FALSE]]
    /\ UNCHANGED <<tags, tagged, requestVars, importVars, queueVars, locals>>

\* POST /audiences/:audienceId/contacts.  For a known e-mail the insert fails.
CreateContact(e) ==
    /\ ~Exists(e) /\ ~Locked(e)
    /\ contact' = [contact EXCEPT ![e] =
           [firstName |-> NoText, attrs |-> {}, subscribed |-> FALSE]]
    /\ UNCHANGED <<tags, tagged, requestVars, importVars, queueVars, locals>>

\* PATCH .../contacts/:contactId reads the row, ...
ReadContact(p) ==
    LET e == PatchOf[p].email
    IN  /\ patch[p].pc = "absent" /\ Exists(e)
        /\ patch' = [patch EXCEPT ![p] =
               [pc   |-> "read",
                row  |-> contact[e],
                seen |-> {q \in Patches : patch[q].pc = "done" /\ PatchOf[q].email = e}]]
        /\ UNCHANGED <<tableVars, maker, attach, put, importVars, queueVars, locals>>

\* Mutant: the attributes of the payload replace those of the contact.
Overwritten(row, attrs) == [row EXCEPT !.attrs = attrs]

\* { ...contact, ...payload, attributes: { ...contact.attributes, ...payload.attributes } }
Merged(row, attrs) == [row EXCEPT !.attrs = @ \cup attrs]

\* ... and writes all of it back.
WriteContact(p) ==
    LET e == PatchOf[p].email
    IN  /\ patch[p].pc = "read" /\ ~Locked(e)
        /\ contact' = [contact EXCEPT ![e] = Merged(patch[p].row, PatchOf[p].attrs)]
        /\ patch' = [patch EXCEPT ![p].pc = "done"]
        /\ UNCHANGED <<tags, tagged, maker, attach, put, importVars, queueVars, locals>>

-----------------------------------------------------------------------------
(* Tags *)

\* CreateTagAction finds no tag of the name, ...
CheckTag(t) ==
    /\ maker[t] = "absent"
    /\ ~NameTaken(TagNameOf[t])
    /\ maker' = [maker EXCEPT ![t] = "checked"]
    /\ UNCHANGED <<tableVars, patch, attach, put, importVars, queueVars, locals>>

\* ... and inserts one; the unique key of the name may say no after all.
InsertTag(t) ==
    LET n == TagNameOf[t]
    IN  /\ maker[t] = "checked" /\ ~NameLocked(n)
        /\ maker' = [maker EXCEPT ![t] = IF NameTaken(n) THEN "failed" ELSE "done"]
        /\ tags' = IF NameTaken(n) THEN tags ELSE tags \cup {[name |-> n, by |-> t]}
        /\ UNCHANGED <<contact, tagged, patch, attach, put, importVars, queueVars, locals>>

\* DELETE .../tags/:tagId.  The foreign key keeps a tag that a contact has.
DeleteTag(t) ==
    /\ t \in tags /\ ~TagLocked(t)
    /\ \A pair \in tagged : pair[2] # t
    /\ tags' = tags \ {t}
    /\ UNCHANGED <<contact, tagged, requestVars, importVars, queueVars, locals>>

\* AttachTagsToContactDto: the tags are there.
CheckAttach(a, t) ==
    /\ attach[a].pc = "absent" /\ Exists(AttachTo[a])
    /\ t \in tags
    /\ attach' = [attach EXCEPT ![a] = [pc |-> "checked", tag |-> t]]
    /\ UNCHANGED <<tableVars, maker, patch, put, importVars, queueVars, locals>>

\* ContactRepository.attachTags: nothing to insert when the contact has the tag.
ReadTagged(a) ==
    /\ attach[a].pc = "checked"
    /\ attach' = [attach EXCEPT ![a].pc =
           IF <<AttachTo[a], attach[a].tag>> \in tagged THEN "done" ELSE "read"]
    /\ UNCHANGED <<tableVars, maker, patch, put, importVars, queueVars, locals>>

\* The unique key or the foreign key may refuse what was to be inserted.
InsertTagged(a) ==
    LET pair == <<AttachTo[a], attach[a].tag>>
        fits == pair \notin tagged /\ attach[a].tag \in tags
    IN  /\ attach[a].pc = "read"
        /\ attach' = [attach EXCEPT ![a].pc = IF fits THEN "done" ELSE "failed"]
        /\ tagged' = IF fits THEN tagged \cup {pair} ELSE tagged
        /\ UNCHANGED <<contact, tags, maker, patch, put, importVars, queueVars, locals>>

\* POST .../tags/detach
DetachTag(e, t) ==
    /\ <<e, t>> \in tagged
    /\ tagged' = tagged \ {<<e, t>>}
    /\ UNCHANGED <<contact, tags, requestVars, importVars, queueVars, locals>>
=============================================================================
