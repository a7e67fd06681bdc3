--------------------------- MODULE Deliverability ---------------------------
(***************************************************************************)
(* Sending domains and MTA logs together: they share the workers, the      *)
(* cached rows of domains, and the counts of sends by which sources are    *)
(* ranked.                                                                 *)
(***************************************************************************)
EXTENDS MtaLogs

vars == <<domainVars, status, cache, reader, mtaVars, queueVars, locals>>

Row == [reg: Regs, marks: SUBSET Records]

DeliverabilityTypeOK ==
    /\ reg \in [Regs -> [pc: RegStates, name: Names \cup {NoName},
                         done: SUBSET {"row", "key"}, seen: SUBSET Regs]]
    /\ dkimKey \in [Names -> Regs \cup {NoReg}]
    /\ marks \in [Regs -> SUBSET Records]
    /\ columns \in [Regs -> [SourceColumns -> Sources \cup {NoSource}]]
    /\ status \in [Sources -> {"absent", "inactive", "active"}]
    /\ cache \in [Names -> Row \cup {NoRow}]
    /\ reader \in [Readers -> [pc: {"idle", "missed", "read"},
                               name: Names \cup {NoName}, row: Row \cup {NoRow}]]
    /\ sends \in [SendIds -> [domain: Regs, source: Sources \cup {NoSource}] \cup {NoRow}]
    /\ events \in [Logs -> Nat]
    /\ job \in [Keys -> Job]
    /\ worker \in [Workers -> [pc: Pcs, key: Keys \cup {NoKey}, entry: Nat]]
    /\ locals \in [Workers -> [found: SUBSET Records, todo: SUBSET Records,
                               pick: [SourceColumns -> Sources \cup {NoSource}],
                               row: Row \cup {NoRow}, source: Sources \cup {NoSource}]]

Init ==
    /\ reg = [r \in Regs |-> NoRequest]
    /\ dkimKey = [n \in Names |-> NoReg]
    /\ marks = [r \in Regs |-> {}]
    /\ columns = [r \in Regs |-> NoSources]
    /\ status \in InitialSources
    /\ cache = [n \in Names |-> NoRow]
    /\ reader = [q \in Readers |-> NotReading]
    /\ sends = [i \in SendIds |-> NoRow]
    /\ events = [l \in Logs |-> 0]
    /\ job = [k \in Keys |-> Absent]
    /\ worker = [w \in Workers |-> Idle]
    /\ locals = [w \in Workers |-> Blank]

-----------------------------------------------------------------------------
FirstPc(k) == IF k.kind = "check" THEN "resolve" ELSE "getDomain"

TakeAny(w) ==
    /\ \E k \in Keys : TakeJob(w, k, FirstPc(k))
    /\ UNCHANGED <<domainVars, status, cache, reader, mtaVars, locals>>

Succeed(w) ==
    /\ worker[w].pc = "return"
    /\ SucceedJob(w)
    /\ Forget(w)
    /\ UNCHANGED <<domainVars, status, cache, reader, mtaVars>>

\* Any await of a handler may reject.
HandlerThrows(w) ==
    /\ worker[w].pc \notin {"idle", "return"}
    /\ Fails(w)

Crash(w) ==
    /\ CrashWorker(w)
    /\ Forget(w)
    /\ UNCHANGED <<domainVars, status, cache, reader, mtaVars>>

LoseLock(w) ==
    /\ ExpireLock(w)
    /\ UNCHANGED <<domainVars, status, cache, reader, mtaVars, locals>>

RecoverAny ==
    /\ \E k \in Keys : RecoverJob(k)
    /\ UNCHANGED <<domainVars, status, cache, reader, mtaVars, locals>>

Registration(r) ==
    \/ \E n \in Names : CheckName(r, n)
    \/ InsertRow(r) \/ SaveDkim(r)
    \/ CommitRegistration(r) \/ AbortRegistration(r) \/ QueueCheck(r)

CheckStep(w) ==
    \/ \E found \in SUBSET Records : Resolve(w, found)
    \/ \E record \in Records : MarkRows(w, record)
    \/ Marked(w) \/ ReadSources(w) \/ AssignSources(w)
    \/ ClearDomain(w) \/ SelectDomainWithDkim(w) \/ Recheck(w)

LogStep(w) ==
    \/ GetDomain(w) \/ SelectDomain(w) \/ CacheDomain(w) \/ FindSource(w)
    \/ FindSend(w) \/ InsertSend(w) \/ UpdateSend(w) \/ CreateEvent(w)

Next ==
    \/ \E r \in Regs : Registration(r)
    \/ \E s \in Sources : AddSource(s)
    \/ \E l \in Logs : PostLog(l)
    \/ \E n \in Names : DkimRequest(n)
    \/ \E q \in Readers :
          (\E n \in Names : MissDomain(q, n)) \/ ReadDomain(q) \/ StoreDomain(q)
    \/ \E w \in Workers :
          \/ TakeAny(w) \/ CheckStep(w) \/ LogStep(w) \/ Succeed(w)
          \/ HandlerThrows(w) \/ Crash(w) \/ LoseLock(w)
    \/ RecoverAny

Spec == Init /\ [][Next]_vars

-----------------------------------------------------------------------------
(* Properties *)

(***************************************************************************)
(* A registered domain has its DKIM key in Redis, and it is the row's own  *)
(* unless another request for the name got as far as saving one: the       *)
(* transaction waits for both, though it cannot take the key back.         *)
(***************************************************************************)
RegisteredHasKey ==
    \A r \in Regs : Visible(r) =>
        \/ dkimKey[reg[r].name] = r
        \/ \E q \in Regs \ {r} :
              /\ dkimKey[reg[r].name] = q
              /\ reg[q].name = reg[r].name /\ "key" \in reg[q].done

(***************************************************************************)
(* Two rows have one name only if both requests looked before either was   *)
(* committed; nothing but the schema of the request looks.                 *)
(***************************************************************************)
NamesOverlapped ==
    \A q, r \in Regs :
        (q # r /\ Visible(q) /\ Visible(r) /\ reg[q].name = reg[r].name) =>
            q \notin reg[r].seen

(***************************************************************************)
(* A domain has sending sources only when its row says that its DKIM and   *)
(* return path records were found, whichever check, run or rerun, wrote    *)
(* them.                                                                   *)
(***************************************************************************)
SourcesOnlyWhenVerified ==
    \A r \in Regs : columns[r] # NoSources => Needed \subseteq marks[r]

(***************************************************************************)
(* While a record of a domain is missing the domain is being checked: a    *)
(* check waits or runs, unless one failed for good.  So the chain survives *)
(* a check that stalls, is rerun or runs twice.                            *)
(***************************************************************************)
VerificationGoesOn ==
    \A r \in Regs :
        LET states == {job[[kind |-> "check", reg |-> r, slot |-> i]].state : i \in 0 .. Slots}
        IN  (reg[r].pc = "queued" /\ marks[r] # Records) =>
                states \cap {"waiting", "active", "failed"} # {}

(***************************************************************************)
(* A cached row is a row of that name as it was at some time: it may lag   *)
(* behind (a fill may store what it read before the cache was cleared),    *)
(* but it never says that a record was found which the row does not.       *)
(***************************************************************************)
CachedRowIsOlder ==
    \A n \in Names : cache[n] # NoRow =>
        /\ cache[n].reg \in RowsOf(n)
        /\ cache[n].marks \subseteq marks[cache[n].reg]

(***************************************************************************)
(* A record that comes late (the Reception after the Delivery) does not    *)
(* take away the source the message was delivered by.                      *)
(***************************************************************************)
SourceNeverForgotten ==
    [][\A i \in SendIds :
          (sends[i] # NoRow /\ sends[i].source # NoSource) =>
              (sends'[i] # NoRow /\ sends'[i].source # NoSource)]_vars

(***************************************************************************)
(* A completed job of a record with an id left the row of its message and  *)
(* at least one event; a rerun may add another, as often as the job can    *)
(* start.                                                                  *)
(***************************************************************************)
CompletedLogHasEvent ==
    \A l \in Logs :
        /\ (job[[kind |-> "log", log |-> l]].state = "completed" /\ SendIdOf[l] # NoSend) =>
               events[l] >= 1 /\ sends[SendIdOf[l]] # NoRow
        /\ events[l] <= MaxStarts(1)
=============================================================================
