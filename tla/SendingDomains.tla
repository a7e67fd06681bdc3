--------------------------- MODULE SendingDomains ---------------------------
(***************************************************************************)
(* src/sending_domains, with the sending sources of src/settings and the   *)
(* "domains" namespace of src/shared/cache.  A team registers a domain: a  *)
(* transaction inserts its row while its DKIM key goes to Redis, and a     *)
(* chain of jobs checks the domain's DNS records until all are found.      *)
(* A check that finds the DKIM and return path records assigns sending     *)
(* sources.  The MTA asks for the domain through the cache.                *)
(***************************************************************************)
EXTENDS JobWorkers

CONSTANTS
    Names,            \* domain names
    Regs,             \* requests to register one; each inserts one row
    NoReg, NoName, NoSource, NoRow,
    Sources,          \* rows of sendingSources
    Pool,             \* Pool[s]: "send" or "engage"
    InitialSources,   \* what status[s] may be at first, set by a command
    Slots,            \* check jobs of one registration kept at a time
    RecheckAttempts,  \* 100
    Logs,             \* the log records the MTA posts, see MtaLogs
    SendIds,          \* the ids the MTA gives to messages
    Readers           \* requests that read a domain through the cache

Records == {"dkim", "returnPath", "tracking"}
Needed  == {"dkim", "returnPath"}
SourceColumns == {"sending", "secondary", "engage", "engageSec"}

ASSUME DomainAssumption ==
    /\ NoReg \notin Regs
    /\ NoSource \notin Sources
    /\ Pool \in [Sources -> {"send", "engage"}]
    /\ InitialSources \subseteq [Sources -> {"absent", "inactive", "active"}]
    /\ Slots \in Nat \ {0}
    /\ RecheckAttempts \in Nat \ {0}

VARIABLES
    reg,       \* reg[r]: the request, and the row it inserts
    dkimKey,   \* dkimKey[n]: the request whose key the Redis hash of the name holds
    marks,     \* marks[r]: which ...VerifiedAt columns of the row are set
    columns,   \* columns[r]: its four sending source columns
    status,    \* status[s]: the sending sources
    cache,     \* cache[n]: the row cached under domains:<name>
    reader,    \* reader[q]: a cache fill of a request
    sends,     \* sends[i]: the row of emailSends with this sendingId
    events,    \* events[l]: the rows of emailSendEvents made from log l
    locals     \* locals[w]: what the handler of w holds across its awaits

domainVars == <<reg, dkimKey, marks, columns>>
mtaVars    == <<sends, events>>
queueVars  == <<job, worker>>

-----------------------------------------------------------------------------
(* Jobs: slot 0 is the check the request queues, the others are rechecks. *)

Checks  == [kind: {"check"}, reg: Regs, slot: 0 .. Slots]
LogJobs == [kind: {"log"}, log: Logs]
Keys    == Checks \cup LogJobs

AttemptsOf(k) ==
    IF k.kind = "check" /\ k.slot > 0 THEN RecheckAttempts ELSE 1

CheckPcs == {"resolve", "mark", "readSources", "assign", "clear", "select", "recheck"}
LogPcs   == {"getDomain", "selectDomain", "storeDomain", "findSource", "findSend",
             "insertSend", "updateSend", "event"}
Pcs      == {"idle", "return"} \cup CheckPcs \cup LogPcs

NoSources == [c \in SourceColumns |-> NoSource]

Blank == [found |-> {}, todo |-> {}, pick |-> NoSources, row |-> NoRow,
          source |-> NoSource]

Forget(w) == locals' = [locals EXCEPT ![w] = Blank]

-----------------------------------------------------------------------------
(* POST /sending_domains *)

RegStates == {"absent", "checked", "committed", "queued", "aborted"}

\* The transaction of r committed.
Visible(r) == reg[r].pc \in {"committed", "queued"}

RowsOf(n) == {r \in Regs : Visible(r) /\ reg[r].name = n}

NoRequest == [pc |-> "absent", name |-> NoName, done |-> {}, seen |-> {}]

\* Mutant: whether the name is registered is not asked.
NameUnchecked(n) == TRUE

\* CreateSendingDomainSchema.
NameIsFree(n) == RowsOf(n) = {}

CheckName(r, n) ==
    /\ reg[r].pc = "absent"
    /\ NameIsFree(n)
    /\ reg' = [reg EXCEPT ![r] =
           [pc |-> "checked", name |-> n, done |-> {},
            seen |-> {q \in Regs : Visible(q)}]]
    /\ UNCHANGED <<dkimKey, marks, columns, status, cache, reader, mtaVars, queueVars, locals>>

\* The two calls under Promise.all end in either order.
InsertRow(r) ==
    /\ reg[r].pc = "checked" /\ "row" \notin reg[r].done
    /\ reg' = [reg EXCEPT ![r].done = @ \cup {"row"}]
    /\ UNCHANGED <<dkimKey, marks, columns, status, cache, reader, mtaVars, queueVars, locals>>

\* Mutant: the hash is saved under the request's name with the name for its key.
SaveDkimOfName(r) ==
    /\ reg[r].pc = "checked" /\ "key" \notin reg[r].done
    /\ reg' = [reg EXCEPT ![r].done = @ \cup {"key"}]
    /\ dkimKey' = [dkimKey EXCEPT ![reg[r].name] = reg[r].name]
    /\ UNCHANGED <<marks, columns, status, cache, reader, mtaVars, queueVars, locals>>

SaveDkim(r) ==
    /\ reg[r].pc = "checked" /\ "key" \notin reg[r].done
    /\ reg' = [reg EXCEPT ![r].done = @ \cup {"key"}]
    /\ dkimKey' = [dkimKey EXCEPT ![reg[r].name] = r]
    /\ UNCHANGED <<marks, columns, status, cache, reader, mtaVars, queueVars, locals>>

\* Mutant: the transaction does not wait for Redis.
CommitOnceInserted(r) ==
    /\ reg[r].pc = "checked" /\ "row" \in reg[r].done
    /\ reg' = [reg EXCEPT ![r].pc = "committed"]
    /\ UNCHANGED <<dkimKey, marks, columns, status, cache, reader, mtaVars, queueVars, locals>>

CommitRegistration(r) ==
    /\ reg[r].pc = "checked" /\ reg[r].done = {"row", "key"}
    /\ reg' = [reg EXCEPT ![r].pc = "committed"]
    /\ UNCHANGED <<dkimKey, marks, columns, status, cache, reader, mtaVars, queueVars, locals>>

\* One of the calls fails, or the process dies: the row is rolled back, what Redis
\* got stays.
AbortRegistration(r) ==
    /\ reg[r].pc = "checked"
    /\ reg' = [reg EXCEPT ![r].pc = "aborted"]
    /\ UNCHANGED <<dkimKey, marks, columns, status, cache, reader, mtaVars, queueVars, locals>>

\* A process that dies before this leaves a registered domain nobody checks.
QueueCheck(r) ==
    /\ reg[r].pc = "committed"
    /\ reg' = [reg EXCEPT ![r].pc = "queued"]
    /\ Add({[kind |-> "check", reg |-> r, slot |-> 0]})
    /\ UNCHANGED <<dkimKey, marks, columns, status, cache, reader, mtaVars, worker, locals>>

-----------------------------------------------------------------------------
(* Sending sources *)

\* The schema of the add command drops the status, so the row takes the default.
AddSource(s) ==
    /\ status[s] = "absent"
    /\ status' = [status EXCEPT ![s] = "inactive"]
    /\ UNCHANGED <<domainVars, cache, reader, mtaVars, queueVars, locals>>

Volume(s) == Cardinality({i \in SendIds : sends[i] # NoRow /\ sends[i].source = s})

\* findAllSendingSourcseWithSendingVolume, of one pool, busiest first: the sources
\* that may come out at the first two places.
Ranked(pool) ==
    LET active == {s \in Sources : status[s] = "active" /\ Pool[s] = pool}
        busiest(S) == {s \in S : \A t \in S : Volume(t) <= Volume(s)}
    IN  CASE active = {} -> {<<NoSource, NoSource>>}
          [] Cardinality(active) = 1 -> {<<s, NoSource>> : s \in active}
          [] OTHER -> UNION {{<<s, t>> : t \in busiest(active \ {s})} : s \in busiest(active)}

\* The action calls the "engage" sources sendPool and the "send" sources engagePool.
Picks ==
    {[sending |-> p[1], secondary |-> p[2], engage |-> q[1], engageSec |-> q[2]] :
        p \in Ranked("engage"), q \in Ranked("send")}

-----------------------------------------------------------------------------
(* CheckSendingDomainDnsConfigurationJob.handle *)

RegOf(w) == worker[w].key.reg

\* The handler fails or throws; nothing else of the step changes.
Fails(w) ==
    /\ FailJob(w, AttemptsOf(worker[w].key))
    /\ Forget(w)
    /\ UNCHANGED <<domainVars, status, cache, reader, mtaVars>>

\* findById, then DnsResolverTool.resolve: a record that is missing and a resolver
\* that fails look the same.
Resolve(w, found) ==
    /\ worker[w].pc = "resolve"
    /\ IF Visible(RegOf(w))
         THEN /\ locals' = [locals EXCEPT ![w].found = found, ![w].todo = found]
              /\ Goto(w, "mark")
         ELSE /\ Goto(w, "return")
              /\ UNCHANGED locals
    /\ UNCHANGED <<domainVars, status, cache, reader, mtaVars, job>>

\* One of the updates under Promise.all.  It has no WHERE: it sets the column of
\* every row.
MarkRows(w, record) ==
    /\ worker[w].pc = "mark" /\ record \in locals[w].todo
    /\ marks' = [r \in Regs |-> IF Visible(r) THEN marks[r] \cup {record} ELSE marks[r]]
    /\ locals' = [locals EXCEPT ![w].todo = @ \ {record}]
    /\ UNCHANGED <<reg, dkimKey, columns, status, cache, reader, mtaVars, queueVars>>

\* Mutant: one of the two records is enough.
SendsWithEither(found) == Needed \cap found # {}

SendsWith(found) == Needed \subseteq found

Marked(w) ==
    /\ worker[w].pc = "mark" /\ locals[w].todo = {}
    /\ Goto(w, IF SendsWith(locals[w].found) THEN "readSources" ELSE "recheck")
    /\ UNCHANGED <<domainVars, status, cache, reader, mtaVars, job, locals>>

\* AssignSendingSourceToSendingDomainAction.
ReadSources(w) ==
    /\ worker[w].pc = "readSources"
    /\ \E pick \in Picks : locals' = [locals EXCEPT ![w].pick = pick]
    /\ Goto(w, "assign")
    /\ UNCHANGED <<domainVars, status, cache, reader, mtaVars, job>>

\* SendingDomainRepository.update: an undefined value leaves its column alone, and
\* an update of nothing throws.
AssignSources(w) ==
    LET pick == locals[w].pick
    IN  /\ worker[w].pc = "assign"
        /\ IF pick = NoSources
             THEN Fails(w)
             ELSE /\ columns' = [columns EXCEPT ![RegOf(w)] =
                         [c \in SourceColumns |-> IF pick[c] = NoSource THEN @[c] ELSE pick[c]]]
                  /\ Goto(w, "clear")
                  /\ locals' = [locals EXCEPT ![w].pick = NoSources]
                  /\ UNCHANGED <<reg, dkimKey, marks, status, cache, reader, mtaVars, job>>

\* getDomainWithDkim clears the cache, whether asked to or not.
ClearDomain(w) ==
    /\ worker[w].pc = "clear"
    /\ cache' = [cache EXCEPT ![reg[RegOf(w)].name] = NoRow]
    /\ Goto(w, "select")
    /\ UNCHANGED <<domainVars, status, reader, mtaVars, job, locals>>

\* A row of the name without one of its four sources makes it throw.
HasSources(r) == \A c \in SourceColumns : columns[r][c] # NoSource

SelectDomainWithDkim(w) ==
    /\ worker[w].pc = "select"
    /\ \E r \in RowsOf(reg[RegOf(w)].name) :
          IF HasSources(r)
            THEN /\ Goto(w, "recheck")
                 /\ UNCHANGED <<domainVars, status, cache, reader, mtaVars, job, locals>>
            ELSE Fails(w)

\* Mutant: the chain goes on only while nothing was found.
NotAllFoundYetNone(found) == found = {}

NotAllFound(found) == found # Records

\* A settled job makes room for another; one that failed stays.
Free(k) == job[k].state \in {"absent", "completed"}

Recheck(w) ==
    /\ worker[w].pc = "recheck"
    /\ IF NotAllFound(locals[w].found)
         THEN \E i \in 1 .. Slots :
                  LET next == [kind |-> "check", reg |-> RegOf(w), slot |-> i]
                  IN  Free(next) /\ Add({next})
         ELSE UNCHANGED job
    /\ Goto(w, "return")
    /\ UNCHANGED <<domainVars, status, cache, reader, mtaVars, locals>>

-----------------------------------------------------------------------------
(* What the MTA asks for *)

\* POST /mta/dkim: all it changes is the cache it clears.
DkimRequest(n) ==
    /\ cache[n] # NoRow
    /\ cache' = [cache EXCEPT ![n] = NoRow]
    /\ UNCHANGED <<domainVars, status, reader, mtaVars, queueVars, locals>>

CachedRow(r) == [reg |-> r, marks |-> marks[r]]

\* What selecting the row of a name may answer.
RowFound(n) ==
    IF RowsOf(n) = {} THEN {NoRow} ELSE {CachedRow(r) : r \in RowsOf(n)}

\* Mutant: the key is the namespace alone.
CachedInNamespace(n, row) == [m \in Names |-> row]

\* Cache.get stores what it selected; undefined is stored as "", a miss next time.
Cached(n, row) == [cache EXCEPT ![n] = row]

NotReading == [pc |-> "idle", name |-> NoName, row |-> NoRow]

\* POST /mta/smtp/message: findByDomain missed the cache.  (A hit changes nothing:
\* nothing sets trackingDomainSslVerifiedAt, so the message goes back as it came.)
MissDomain(q, n) ==
    /\ reader[q].pc = "idle"
    /\ cache[n] = NoRow
    /\ reader' = [reader EXCEPT ![q] = [pc |-> "missed", name |-> n, row |-> NoRow]]
    /\ UNCHANGED <<domainVars, status, cache, mtaVars, queueVars, locals>>

ReadDomain(q) ==
    /\ reader[q].pc = "missed"
    /\ \E row \in RowFound(reader[q].name) :
          reader' = [reader EXCEPT ![q].pc = "read", ![q].row = row]
    /\ UNCHANGED <<domainVars, status, cache, mtaVars, queueVars, locals>>

StoreDomain(q) ==
    /\ reader[q].pc = "read"
    /\ cache' = Cached(reader[q].name, reader[q].row)
    /\ reader' = [reader EXCEPT ![q] = NotReading]
    /\ UNCHANGED <<domainVars, status, mtaVars, queueVars, locals>>
=============================================================================
