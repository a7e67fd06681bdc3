------------------------ MODULE Deliverability_proofs ------------------------
(***************************************************************************)
(* The safety properties of Deliverability for any names, registrations,   *)
(* sources, log records, workers, attempts and tolerated stalls.           *)
(***************************************************************************)
EXTENDS Deliverability, JobWorkers_proofs, FiniteSetTheorems

-----------------------------------------------------------------------------
(* The inductive invariant. *)

CheckJob(r, i) == [kind |-> "check", reg |-> r, slot |-> i]
LogJob(l)      == [kind |-> "log", log |-> l]

AttemptsFn == [k \in Keys |-> AttemptsOf(k)]

\* The job of a log record is added once; a recheck is added again when it is done.
QueueOK == QueueInv(Keys, AttemptsFn, Pcs, LogJobs)

\* What a request did, and the rows it saw when its name was free.
RegOK ==
    \A r \in Regs :
        /\ reg[r].pc # "absent" => reg[r].name \in Names
        /\ reg[r].pc = "absent" => reg[r].done = {}
        /\ Visible(r) => reg[r].done = {"row", "key"}
        /\ \A q \in reg[r].seen : Visible(q) /\ reg[q].name # reg[r].name

\* The hash of a name was saved last by some request for it.
KeysOK ==
    \A r \in Regs : "key" \in reg[r].done =>
        \E q \in Regs :
            /\ dkimKey[reg[r].name] = q
            /\ reg[q].name = reg[r].name /\ "key" \in reg[q].done

\* Only registrations that came to the queue are checked.
ChecksOK == \A k \in Checks : job[k] # Absent => reg[k.reg].pc = "queued"

\* A check that has yet to return, and to queue the next one.
Fresh(k) ==
    /\ job[k].state \in {"waiting", "active", "failed"}
    /\ \A w \in Workers : job[k].lock = w => worker[w].pc # "return"

\* There is one for every domain of which a record is missing.
ChainOK ==
    \A r \in Regs : reg[r].pc = "queued" /\ marks[r] # Records =>
        \E i \in 0 .. Slots : Fresh(CheckJob(r, i))

\* A row of the name, as it was at some time, or none.
Older(row, n) ==
    row # NoRow => row.reg \in RowsOf(n) /\ row.marks \subseteq marks[row.reg]

CacheOK == \A n \in Names : Older(cache[n], n)

ReadersOK ==
    \A q \in Readers :
        /\ reader[q].pc # "idle" => reader[q].name \in Names
        /\ reader[q].pc = "read" => Older(reader[q].row, reader[q].name)

\* Entries that may still insert the event of l.
Runners(l) == {w \in Workers : worker[w].pc \in LogPcs /\ worker[w].key = LogJob(l)}

EventsOK == \A l \in Logs : events[l] + Cardinality(Runners(l)) <= Starts(job[LogJob(l)])

\* A record whose job is done, or about to be.
LogDone(l) == SendIdOf[l] # NoSend => events[l] >= 1 /\ sends[SendIdOf[l]] # NoRow

LogsOK == \A l \in Logs : job[LogJob(l)].state = "completed" => LogDone(l)

\* What all workers share.
SharedInv ==
    /\ DeliverabilityTypeOK
    /\ QueueOK
    /\ RegOK
    /\ KeysOK
    /\ ChecksOK
    /\ ChainOK
    /\ SourcesOnlyWhenVerified
    /\ CacheOK
    /\ ReadersOK
    /\ EventsOK
    /\ LogsOK

\* A check knows a queued domain, and the records it found are marked or to be marked.
CheckerOK(w) ==
    LET at == worker[w].pc
    IN  /\ at \in CheckPcs => worker[w].key \in Checks
        /\ at # "idle" /\ worker[w].key \in Checks => reg[RegOf(w)].pc = "queued"
        /\ at \in CheckPcs \ {"resolve"} =>
              locals[w].found \ locals[w].todo \subseteq marks[RegOf(w)]
        /\ at \in CheckPcs \ {"resolve", "mark"} => locals[w].todo = {}
        /\ at \in {"readSources", "assign"} => Needed \subseteq locals[w].found

\* A log record holds the row of its sender's domain, and finds the send it found.
LoggerOK(w) ==
    LET at == worker[w].pc
    IN  /\ at \in LogPcs => worker[w].key \in LogJobs
        /\ at \in LogPcs \ {"getDomain"} => SendOf(w) # NoSend
        /\ at \in LogPcs \ {"getDomain", "selectDomain"} => Older(locals[w].row, DomainOf(w))
        /\ at \in {"findSource", "findSend", "insertSend", "updateSend", "event"} =>
              locals[w].row # NoRow
        /\ at \in {"updateSend", "event"} => sends[SendOf(w)] # NoRow
        /\ at = "return" /\ worker[w].key \in LogJobs => LogDone(LogOf(w))

WorkerInv(w) == CheckerOK(w) /\ LoggerOK(w)

DeliverabilityInv == SharedInv /\ \A w \in Workers : WorkerInv(w)

-----------------------------------------------------------------------------
(* What the records of the model are. *)

\* Jobs are told apart by their kind, and known by what they are about.
LEMMA JobKinds ==
  /\ \A k \in Checks : k.kind = "check" /\ k.reg \in Regs /\ k.slot \in 0 .. Slots
                       /\ k = CheckJob(k.reg, k.slot)
  /\ \A k \in LogJobs : k.kind = "log" /\ k.log \in Logs /\ k = LogJob(k.log)
  /\ \A r \in Regs, i \in 0 .. Slots : CheckJob(r, i) \in Checks /\ CheckJob(r, i).reg = r
  /\ \A l \in Logs : LogJob(l) \in LogJobs /\ LogJob(l).log = l
  /\ Checks \subseteq Keys /\ LogJobs \subseteq Keys /\ Checks \cap LogJobs = {}
  /\ \A k \in Keys : k \in Checks \/ k \in LogJobs
  BY DEF Checks, LogJobs, Keys, CheckJob, LogJob

\* Every job has an attempt to make; that of a log record has one.
LEMMA AttemptsPositive ==
  /\ AttemptsFn \in [Keys -> Nat \ {0}]
  /\ \A k \in Keys : AttemptsFn[k] = AttemptsOf(k) /\ AttemptsOf(k) \in Nat \ {0}
  /\ \A k \in LogJobs : AttemptsFn[k] = 1
  BY DomainAssumption, JobKinds DEF AttemptsFn, AttemptsOf

\* Handlers stand at places of their own.
LEMMA PcSets ==
  /\ "idle" \in Pcs /\ "return" \in Pcs
  /\ CheckPcs \subseteq Pcs \ {"idle", "return"} /\ LogPcs \subseteq Pcs \ {"idle", "return"}
  /\ CheckPcs \cap LogPcs = {}
  BY DEF Pcs, CheckPcs, LogPcs

\* What the locals of workers are.
Locals == [found: SUBSET Records, todo: SUBSET Records,
           pick: [SourceColumns -> Sources \cup {NoSource}],
           row: Row \cup {NoRow}, source: Sources \cup {NoSource}]

\* A worker that has nothing to do.
LEMMA IdleRecord ==
  Idle.pc = "idle" /\ Idle.key = NoKey /\ Blank \in Locals
  BY DEF Idle, Blank, Locals, NoSources

\* An idle worker is subject to nothing.
LEMMA IdleWorkerInv ==
  ASSUME NEW w \in Workers, worker'[w] = Idle
  PROVE  WorkerInv(w)'
  BY IdleRecord DEF WorkerInv, CheckerOK, LoggerOK, CheckPcs, LogPcs

\* The jobs, as the queue's invariant has them.
LEMMA JobsOf ==
  ASSUME QueueOK
  PROVE  /\ job \in [Keys -> Job]
         /\ worker \in [Workers -> [pc: Pcs, key: Keys \cup {NoKey}, entry: Nat]]
         /\ \A k \in Keys : JobInv(job[k], AttemptsFn[k]) /\ Starts(job[k]) \in Nat
                            /\ Starts(job[k]) <= MaxStarts(AttemptsFn[k])
                            /\ (job[k].state = "absent" <=> job[k] = Absent)
         /\ \A k \in Keys, w \in Workers : job[k].lock = w =>
               worker[w].pc # "idle" /\ worker[w].key = k /\ job[k].state = "active"
         /\ \A w \in Workers : worker[w].pc # "idle" => worker[w].key \in Keys
  <1>1. QueueTypes(Keys, Pcs) /\ LocksOK(Keys) /\ WorkersOK(Keys, LogJobs)
        /\ \A k \in Keys : JobInv(job[k], AttemptsFn[k])
    BY DEF QueueOK, QueueInv
  <1>2. \A k \in Keys : Starts(job[k]) \in Nat /\ Starts(job[k]) <= MaxStarts(AttemptsFn[k])
    BY <1>1, StartsBounded, AttemptsPositive
  <1>3. \A k \in Keys : job[k].state = "absent" <=> job[k] = Absent
    BY <1>1, AddedOnce
  <1>4. \A k \in Keys, w \in Workers : job[k].lock = w => job[k].state = "active"
    BY <1>1, QueueAssumption DEF JobInv
  <1> QED
    BY <1>1, <1>2, <1>3, <1>4 DEF QueueTypes, LocksOK, WorkersOK

-----------------------------------------------------------------------------
(* What stays true of what the others hold. *)

\* Rows stay visible, keep their names, and are only ever marked; sends and events
\* only come.
Later ==
    /\ \A r \in Regs :
          /\ Visible(r) => Visible(r)'
          /\ reg[r].pc # "absent" => reg'[r].name = reg[r].name
          /\ reg[r].pc = "queued" => reg'[r].pc = "queued"
          /\ marks[r] \subseteq marks'[r]
    /\ \A i \in SendIds : sends[i] # NoRow => sends'[i] # NoRow
    /\ \A l \in Logs : events'[l] \in Nat /\ events'[l] >= events[l]

\* A row read at some time stays an older one.
LEMMA OlderKept ==
  ASSUME Later, NEW row, NEW n, Older(row, n)
  PROVE  row # NoRow => row.reg \in RowsOf(n)' /\ row.marks \subseteq marks'[row.reg]
  BY DEF Later, Older, RowsOf, Visible

\* The ids of sends and the domains that a log job names.
LEMMA LogIds ==
  ASSUME NEW l \in Logs
  PROVE  /\ SendIdOf[l] # NoSend => SendIdOf[l] \in SendIds
         /\ SenderName[l] \in Names
         /\ DeliveredBy[l] \in Sources \cup {NoSource}
  BY LogAssumption

\* What is done stays done.
LEMMA DoneKept ==
  ASSUME Later, NEW l \in Logs, LogDone(l), events[l] \in Nat
  PROVE  LogDone(l)'
  BY LogIds DEF Later, LogDone

\* A worker that does not move stands as it stood.
LEMMA OthersStep ==
  ASSUME DeliverabilityInv, Later, NEW v \in Workers,
         worker'[v] = worker[v], locals'[v] = locals[v]
  PROVE  WorkerInv(v)'
  <1>1. /\ CheckerOK(v) /\ LoggerOK(v) /\ events \in [Logs -> Nat]
        /\ RegOf(v)' = RegOf(v) /\ SendOf(v)' = SendOf(v) /\ DomainOf(v)' = DomainOf(v)
        /\ LogOf(v)' = LogOf(v)
    BY DEF DeliverabilityInv, WorkerInv, SharedInv, DeliverabilityTypeOK, RegOf, SendOf, DomainOf, LogOf
  <1>2. CheckerOK(v)'
    <2>1. worker[v].key \in Checks => RegOf(v) \in Regs
      BY JobKinds DEF RegOf
    <2> QED
      BY <1>1, <2>1 DEF CheckerOK, Later
  <1>3. LoggerOK(v)'
    <2>1. worker[v].key \in LogJobs =>
             /\ LogOf(v) \in Logs
             /\ SendOf(v) # NoSend => SendOf(v) \in SendIds
      BY JobKinds, LogIds DEF LogOf, SendOf
    <2>2. Older(locals[v].row, DomainOf(v)) => Older(locals[v].row, DomainOf(v))'
      BY <1>1, OlderKept DEF Older
    <2>3. worker[v].key \in LogJobs /\ LogDone(LogOf(v)) => LogDone(LogOf(v))'
      <3> SUFFICES ASSUME worker[v].key \in LogJobs, LogDone(LogOf(v)) PROVE LogDone(LogOf(v))'
        OBVIOUS
      <3>1. LogDone(LogOf(v)) /\ LogOf(v) \in Logs /\ events[LogOf(v)] \in Nat
        BY <1>1, <2>1
      <3>2. SendIdOf[LogOf(v)] # NoSend => SendIdOf[LogOf(v)] \in SendIds
        BY <3>1, LogIds
      <3> QED
        BY <1>1, <3>1, <3>2 DEF LogDone, Later
    <2>4. worker[v].pc \in {"updateSend", "event"} => worker[v].key \in LogJobs
      BY <1>1 DEF LoggerOK, LogPcs
    <2>5. worker[v].pc \in {"updateSend", "event"} => SendOf(v) # NoSend
      BY <1>1 DEF LoggerOK, LogPcs
    <2>6. worker[v].pc \in {"updateSend", "event"} => sends'[SendOf(v)] # NoRow
      BY <1>1, <2>1, <2>4, <2>5 DEF LoggerOK, Later
    <2> QED
      BY <1>1, <2>2, <2>3, <2>6 DEF LoggerOK
  <1> QED
    BY <1>2, <1>3 DEF WorkerInv

-----------------------------------------------------------------------------
(* Requests. *)

\* The queue and its handlers are left alone.
LEMMA QueueKept ==
  ASSUME QueueOK, UNCHANGED queueVars
  PROVE  QueueOK'
  BY DEF QueueOK, QueueInv, queueVars, QueueTypes, WorkersOK, EntriesDiffer, LocksOK

\* Steps of requests that add no job.
LEMMA RequestStep ==
  ASSUME DeliverabilityInv, UNCHANGED <<marks, columns, mtaVars, queueVars, locals>>,
         DeliverabilityTypeOK', RegOK', KeysOK', CacheOK', ReadersOK',
         \A r \in Regs :
            /\ Visible(r) => Visible(r)'
            /\ reg[r].pc # "absent" => reg'[r].name = reg[r].name
            /\ reg'[r].pc = "queued" <=> reg[r].pc = "queued"
  PROVE  DeliverabilityInv'
  <1> USE DEF DeliverabilityInv, SharedInv
  <1>1. UNCHANGED <<marks, columns, sends, events, job, worker, locals>>
    BY DEF mtaVars, queueVars
  <1>2. Later
    BY <1>1 DEF Later, DeliverabilityTypeOK
  <1>3. \A v \in Workers : WorkerInv(v)'
    BY <1>1, <1>2, OthersStep
  <1>4. QueueOK'
    BY QueueKept
  <1>5. ChecksOK'
    BY <1>1, JobKinds DEF ChecksOK
  <1>6. ChainOK'
    BY <1>1 DEF ChainOK, Fresh
  <1>7. SourcesOnlyWhenVerified'
    BY <1>1 DEF SourcesOnlyWhenVerified
  <1>8. EventsOK' /\ LogsOK'
    BY <1>1 DEF EventsOK, LogsOK, Runners, LogDone
  <1> QED
    BY <1>3, <1>4, <1>5, <1>6, <1>7, <1>8

\* What was read or cached stays older, whatever requests and handlers do.
LEMMA RowsStayOlder ==
  ASSUME Later, CacheOK, ReadersOK
  PROVE  /\ \A n \in Names : cache'[n] = cache[n] => Older(cache[n], n)'
         /\ \A q \in Readers : reader'[q] = reader[q] =>
               /\ reader'[q].pc # "idle" => reader'[q].name \in Names
               /\ reader'[q].pc = "read" => Older(reader[q].row, reader[q].name)'
  <1>1. \A n \in Names : Older(cache[n], n) /\ (cache'[n] = cache[n] => Older(cache[n], n)')
    BY OlderKept DEF CacheOK, Older
  <1>2. ASSUME NEW q \in Readers, reader'[q] = reader[q]
        PROVE  /\ reader'[q].pc # "idle" => reader'[q].name \in Names
               /\ reader'[q].pc = "read" => Older(reader[q].row, reader[q].name)'
    BY <1>2, OlderKept DEF ReadersOK, Older
  <1> QED
    BY <1>1, <1>2

\* POST /sending_domains up to the commit.
LEMMA RegistrationStep ==
  ASSUME DeliverabilityInv, NEW r \in Regs,
         \/ \E n \in Names : CheckName(r, n)
         \/ InsertRow(r) \/ SaveDkim(r) \/ CommitRegistration(r) \/ AbortRegistration(r)
  PROVE  DeliverabilityInv'
  <1> USE DEF DeliverabilityInv, SharedInv
  <1>1. /\ UNCHANGED <<marks, columns, status, cache, reader, mtaVars, queueVars, locals>>
        /\ reg[r].pc \in {"absent", "checked"}
    BY DEF CheckName, InsertRow, SaveDkim, CommitRegistration, AbortRegistration
  <1>2. reg \in [Regs -> [pc: RegStates, name: Names \cup {NoName},
                          done: SUBSET {"row", "key"}, seen: SUBSET Regs]]
        /\ dkimKey \in [Names -> Regs \cup {NoReg}]
    BY DEF DeliverabilityTypeOK
  <1>3. /\ reg' \in [Regs -> [pc: RegStates, name: Names \cup {NoName},
                              done: SUBSET {"row", "key"}, seen: SUBSET Regs]]
        /\ \A q \in Regs : q # r => reg'[q] = reg[q]
        /\ reg'[r].pc \in {"checked", "committed", "aborted"}
        /\ reg[r].pc = "checked" =>
              /\ reg'[r].name = reg[r].name /\ reg'[r].seen = reg[r].seen
              /\ reg[r].done \subseteq reg'[r].done
        /\ reg'[r].name \in Names
        /\ reg'[r].pc = "committed" => reg'[r].done = {"row", "key"}
    <2>1. CASE \E n \in Names : CheckName(r, n)
      BY <1>2, <2>1 DEF CheckName, RegStates
    <2>2. CASE InsertRow(r)
      BY <1>2, <2>2 DEF InsertRow, RegStates, RegOK
    <2>3. CASE SaveDkim(r)
      BY <1>2, <2>3 DEF SaveDkim, RegStates, RegOK
    <2>4. CASE CommitRegistration(r)
      BY <1>2, <2>4 DEF CommitRegistration, RegStates, RegOK
    <2>5. CASE AbortRegistration(r)
      BY <1>2, <2>5 DEF AbortRegistration, RegStates, RegOK
    <2> QED
      BY <2>1, <2>2, <2>3, <2>4, <2>5
  <1>4. \A q \in Regs :
           /\ Visible(q) => Visible(q)' /\ q # r
           /\ reg[q].pc # "absent" => reg'[q].name = reg[q].name
           /\ reg'[q].pc = "queued" <=> reg[q].pc = "queued"
    BY <1>1, <1>3 DEF Visible
  <1>5. Later
    BY <1>1, <1>4 DEF Later, DeliverabilityTypeOK, mtaVars
  <1>6. RegOK'
    <2>1. \A q \in reg'[r].seen : Visible(q) /\ reg[q].name # reg'[r].name /\ q \in Regs
      <3>1. ASSUME NEW n \in Names, CheckName(r, n)
            PROVE  <2>1
        <4>1. reg'[r].seen = {q \in Regs : Visible(q)} /\ reg'[r].name = n /\ RowsOf(n) = {}
          BY <1>2, <3>1 DEF CheckName, NameIsFree
        <4> QED
          BY <4>1 DEF RowsOf
      <3>2. CASE reg[r].pc = "checked"
        BY <1>2, <1>3, <3>2 DEF RegOK
      <3> QED
        BY <3>1, <3>2 DEF InsertRow, SaveDkim, CommitRegistration, AbortRegistration
    <2>2. \A q \in reg'[r].seen : Visible(q)' /\ reg'[q].name # reg'[r].name
      BY <1>3, <1>4, <2>1
    <2>3. /\ reg'[r].pc # "absent" /\ reg'[r].name \in Names
          /\ Visible(r)' => reg'[r].done = {"row", "key"}
      BY <1>3 DEF Visible
    <2> SUFFICES ASSUME NEW q \in Regs
                 PROVE  /\ reg'[q].pc # "absent" => reg'[q].name \in Names
                        /\ reg'[q].pc = "absent" => reg'[q].done = {}
                        /\ Visible(q)' => reg'[q].done = {"row", "key"}
                        /\ \A p \in reg'[q].seen : Visible(p)' /\ reg'[p].name # reg'[q].name
      BY DEF RegOK
    <2>4. CASE q = r
      BY <2>2, <2>3, <2>4
    <2>5. CASE q # r
      <3>1. \A p \in reg[q].seen : p \in Regs /\ Visible(p) /\ reg[p].name # reg[q].name
        BY <1>2 DEF RegOK
      <3>2. \A p \in reg[q].seen : Visible(p)' /\ reg'[p].name = reg[p].name
        BY <1>3, <1>4, <3>1
      <3> QED
        BY <1>3, <2>5, <3>1, <3>2 DEF RegOK, Visible
    <2> QED
      BY <2>4, <2>5
  <1>7. KeysOK' /\ dkimKey' \in [Names -> Regs \cup {NoReg}]
    <2>1. CASE SaveDkim(r)
      <3>1. /\ dkimKey' = [dkimKey EXCEPT ![reg[r].name] = r] /\ reg'[r].name = reg[r].name
            /\ reg'[r].done = reg[r].done \cup {"key"} /\ reg[r].name \in Names
        BY <1>2, <2>1 DEF SaveDkim, RegOK
      <3>2. \A q \in Regs : "key" \in reg'[q].done =>
               \E p \in Regs : /\ dkimKey'[reg'[q].name] = p
                               /\ reg'[p].name = reg'[q].name /\ "key" \in reg'[p].done
        <4> SUFFICES ASSUME NEW q \in Regs, "key" \in reg'[q].done
                     PROVE  \E p \in Regs : /\ dkimKey'[reg'[q].name] = p
                                            /\ reg'[p].name = reg'[q].name /\ "key" \in reg'[p].done
          OBVIOUS
        <4>1. CASE reg'[q].name = reg[r].name
          BY <1>2, <3>1, <4>1
        <4>2. CASE reg'[q].name # reg[r].name
          <5>1. q # r /\ reg'[q] = reg[q] /\ reg[q].name \in Names
            BY <1>3, <3>1, <4>2 DEF RegOK
          <5>2. PICK p \in Regs : /\ dkimKey[reg[q].name] = p
                                  /\ reg[p].name = reg[q].name /\ "key" \in reg[p].done
            BY <5>1 DEF KeysOK
          <5>3. p # r /\ reg'[p] = reg[p] /\ dkimKey'[reg[q].name] = dkimKey[reg[q].name]
            BY <1>2, <1>3, <3>1, <4>2, <5>1, <5>2
          <5> QED
            BY <5>1, <5>2, <5>3
        <4> QED
          BY <4>1, <4>2
      <3> QED
        BY <1>2, <3>1, <3>2 DEF KeysOK
    <2>2. CASE ~SaveDkim(r)
      <3>1. UNCHANGED dkimKey /\ ("key" \in reg'[r].done => "key" \in reg[r].done)
        BY <1>2, <2>2 DEF CheckName, InsertRow, CommitRegistration, AbortRegistration
      <3>2. \A q \in Regs : "key" \in reg[q].done =>
               reg[q].pc # "absent" /\ reg'[q].name = reg[q].name /\ "key" \in reg'[q].done
        BY <1>1, <1>3 DEF RegOK
      <3> QED
        BY <1>2, <1>3, <3>1, <3>2 DEF KeysOK
    <2> QED
      BY <2>1, <2>2
  <1>8. CacheOK' /\ ReadersOK'
    BY <1>1, <1>5, RowsStayOlder DEF CacheOK, ReadersOK
  <1>9. DeliverabilityTypeOK'
    BY <1>1, <1>3, <1>7 DEF DeliverabilityTypeOK, mtaVars, queueVars
  <1> QED
    BY <1>1, <1>4, <1>6, <1>7, <1>8, <1>9, RequestStep

\* The MTA's requests and the settings command.
LEMMA CacheStep ==
  ASSUME DeliverabilityInv,
         \/ \E s \in Sources : AddSource(s)
         \/ \E n \in Names : DkimRequest(n)
         \/ \E q \in Readers :
               (\E n \in Names : MissDomain(q, n)) \/ ReadDomain(q) \/ StoreDomain(q)
  PROVE  DeliverabilityInv'
  <1> USE DEF DeliverabilityInv, SharedInv
  <1>1. UNCHANGED <<reg, dkimKey, marks, columns, mtaVars, queueVars, locals>>
    BY DEF AddSource, DkimRequest, MissDomain, ReadDomain, StoreDomain, domainVars
  <1>2. Later
    BY <1>1 DEF Later, Visible, mtaVars, DeliverabilityTypeOK
  <1>3. RegOK' /\ KeysOK'
    BY <1>1 DEF RegOK, KeysOK, Visible
  <1>4. /\ status \in [Sources -> {"absent", "inactive", "active"}]
        /\ cache \in [Names -> Row \cup {NoRow}]
        /\ reader \in [Readers -> [pc: {"idle", "missed", "read"},
                                   name: Names \cup {NoName}, row: Row \cup {NoRow}]]
        /\ marks \in [Regs -> SUBSET Records]
    BY DEF DeliverabilityTypeOK
  <1>5. \A n \in Names : \A row \in RowFound(n) : row \in Row \cup {NoRow} /\ Older(row, n)
    BY <1>4 DEF RowFound, RowsOf, CachedRow, Older, Row
  <1>6. \A n \in Names : RowsOf(n)' = RowsOf(n)
    BY <1>1 DEF RowsOf, Visible
  <1>7. /\ status' \in [Sources -> {"absent", "inactive", "active"}]
        /\ cache' \in [Names -> Row \cup {NoRow}] /\ CacheOK'
        /\ reader' \in [Readers -> [pc: {"idle", "missed", "read"},
                                    name: Names \cup {NoName}, row: Row \cup {NoRow}]]
        /\ ReadersOK'
    <2>1. ASSUME NEW s \in Sources, AddSource(s)
          PROVE  <1>7
      BY <1>1, <1>2, <1>4, <2>1, RowsStayOlder DEF AddSource, CacheOK, ReadersOK
    <2>2. ASSUME NEW n \in Names, DkimRequest(n)
          PROVE  <1>7
      <3>1. cache' = [cache EXCEPT ![n] = NoRow] /\ UNCHANGED <<status, reader>>
        BY <2>2 DEF DkimRequest
      <3>2. CacheOK'
        BY <1>2, <1>4, <3>1, RowsStayOlder DEF CacheOK, Older
      <3>3. ReadersOK'
        BY <1>2, <3>1, RowsStayOlder DEF ReadersOK
      <3> QED
        BY <1>4, <3>1, <3>2, <3>3
    <2>3. ASSUME NEW q \in Readers, NEW n \in Names, MissDomain(q, n)
          PROVE  <1>7
      <3>1. /\ reader' = [reader EXCEPT ![q] = [pc |-> "missed", name |-> n, row |-> NoRow]]
            /\ UNCHANGED <<status, cache>>
        BY <2>3 DEF MissDomain
      <3>2. ReadersOK'
        BY <1>2, <1>4, <3>1, RowsStayOlder DEF ReadersOK
      <3> QED
        BY <1>2, <1>4, <3>1, <3>2, RowsStayOlder DEF CacheOK
    <2>4. ASSUME NEW q \in Readers, ReadDomain(q)
          PROVE  <1>7
      <3>1. PICK row \in RowFound(reader[q].name) :
               reader' = [reader EXCEPT ![q].pc = "read", ![q].row = row]
        BY <2>4 DEF ReadDomain
      <3>2. reader[q].pc = "missed" /\ reader[q].name \in Names /\ UNCHANGED <<status, cache>>
        BY <2>4 DEF ReadDomain, ReadersOK
      <3>3. row \in Row \cup {NoRow} /\ Older(row, reader[q].name)
        BY <1>5, <3>2
      <3>4. /\ reader'[q].pc = "read" /\ reader'[q].row = row /\ reader'[q].name = reader[q].name
            /\ \A p \in Readers : p # q => reader'[p] = reader[p]
            /\ reader' \in [Readers -> [pc: {"idle", "missed", "read"},
                                        name: Names \cup {NoName}, row: Row \cup {NoRow}]]
        BY <1>4, <3>1, <3>3
      <3>5. ReadersOK'
        <4>1. /\ reader'[q].name \in Names /\ Older(row, reader'[q].name)
              /\ \A p \in Readers : p # q => reader'[p] = reader[p]
          BY <3>2, <3>3, <3>4
        <4> QED
          BY <1>1, <1>6, <3>4, <4>1 DEF ReadersOK, Older
      <3> QED
        BY <1>2, <1>4, <3>2, <3>4, <3>5, RowsStayOlder DEF CacheOK
    <2>5. ASSUME NEW q \in Readers, StoreDomain(q)
          PROVE  <1>7
      <3>1. /\ reader[q].name \in Names /\ Older(reader[q].row, reader[q].name)
            /\ cache' = [cache EXCEPT ![reader[q].name] = reader[q].row]
            /\ reader' = [reader EXCEPT ![q] = NotReading]
            /\ UNCHANGED status
        BY <2>5 DEF StoreDomain, Cached, ReadersOK
      <3>2. /\ NotReading.pc = "idle"
            /\ NotReading \in [pc: {"idle", "missed", "read"},
                               name: Names \cup {NoName}, row: Row \cup {NoRow}]
        BY DEF NotReading
      <3>3. CacheOK'
        BY <1>1, <1>4, <1>6, <3>1 DEF CacheOK, Older
      <3>4. ReadersOK'
        BY <1>2, <1>4, <3>1, <3>2, RowsStayOlder DEF ReadersOK
      <3> QED
        BY <1>4, <3>1, <3>2, <3>3, <3>4
    <2> QED
      BY <2>1, <2>2, <2>3, <2>4, <2>5
  <1>8. DeliverabilityTypeOK'
    BY <1>1, <1>7 DEF DeliverabilityTypeOK, mtaVars, queueVars
  <1> QED
    BY <1>1, <1>3, <1>7, <1>8, RequestStep DEF Visible

-----------------------------------------------------------------------------
(* Requests that add a job. *)

\* A job that is added waits, and nobody holds its lock.
LEMMA AddedJob ==
  ASSUME QueueOK, NEW added \in SUBSET Keys, Add(added)
  PROVE  /\ job' \in [Keys -> Job]
         /\ \A k \in added : job'[k].state = "waiting" /\ job'[k].lock \notin Workers
                             /\ Starts(job'[k]) = 0 /\ job'[k] # Absent
         /\ \A k \in Keys \ added : job'[k] = job[k]
  <1>1. /\ Added \in Job /\ Added.state = "waiting" /\ Added.lock = NoWorker
        /\ Added # Absent /\ Starts(Added) = 0
    BY FreshJobs DEF Added, Absent, Job, JobStates, Starts
  <1> QED
    BY <1>1, JobsOf, QueueAssumption DEF Add

\* The checks of the other domains go on when jobs of the queue are added.
LEMMA FreshKept ==
  ASSUME QueueOK, NEW added \in SUBSET Keys, Add(added) \/ UNCHANGED job, UNCHANGED worker,
         NEW k \in Keys, Fresh(k)
  PROVE  Fresh(k)'
  <1>1. CASE UNCHANGED job
    BY <1>1 DEF Fresh
  <1>2. CASE Add(added)
    BY <1>2, AddedJob DEF Fresh
  <1> QED
    BY <1>1, <1>2

\* The first check of a domain is queued.
LEMMA QueueCheckStep ==
  ASSUME DeliverabilityInv, NEW r \in Regs, QueueCheck(r)
  PROVE  DeliverabilityInv'
  <1> USE DEF DeliverabilityInv, SharedInv
  <1> DEFINE k == CheckJob(r, 0)
  <1>1. /\ k \in Checks /\ k \in Keys /\ k.reg = r /\ k \notin LogJobs /\ 0 \in 0 .. Slots
    BY JobKinds, DomainAssumption
  <1>2. /\ reg[r].pc = "committed" /\ reg' = [reg EXCEPT ![r].pc = "queued"] /\ Add({k})
        /\ UNCHANGED <<dkimKey, marks, columns, status, cache, reader, sends, events, worker, locals>>
    BY DEF QueueCheck, CheckJob, mtaVars
  <1>3. job[k] = Absent
    BY <1>1, <1>2 DEF ChecksOK
  <1>4. reg \in [Regs -> [pc: RegStates, name: Names \cup {NoName},
                          done: SUBSET {"row", "key"}, seen: SUBSET Regs]]
    BY DEF DeliverabilityTypeOK
  <1>5. /\ reg' \in [Regs -> [pc: RegStates, name: Names \cup {NoName},
                              done: SUBSET {"row", "key"}, seen: SUBSET Regs]]
        /\ \A q \in Regs : /\ q # r => reg'[q] = reg[q]
                           /\ reg'[q].name = reg[q].name /\ reg'[q].done = reg[q].done
                           /\ reg'[q].seen = reg[q].seen
                           /\ Visible(q)' <=> Visible(q)
                           /\ reg'[q].pc = "absent" <=> reg[q].pc = "absent"
                           /\ reg[q].pc = "queued" => reg'[q].pc = "queued"
        /\ reg'[r].pc = "queued"
    BY <1>2, <1>4 DEF RegStates, Visible
  <1>6. /\ job' \in [Keys -> Job] /\ Fresh(k)' /\ job'[k] # Absent /\ Starts(job'[k]) = 0
        /\ \A j \in Keys : j # k => job'[j] = job[j]
    BY <1>1, <1>2, AddedJob DEF Fresh
  <1>7. QueueOK'
    BY <1>1, <1>2, <1>3, MoveStep, AttemptsPositive DEF QueueOK
  <1>8. Later
    BY <1>2, <1>5 DEF Later, DeliverabilityTypeOK
  <1>9. \A v \in Workers : WorkerInv(v)'
    BY <1>2, <1>8, OthersStep
  <1>10. DeliverabilityTypeOK'
    BY <1>2, <1>5, <1>6 DEF DeliverabilityTypeOK
  <1>11. RegOK'
    BY <1>4, <1>5 DEF RegOK
  <1>12. KeysOK'
    BY <1>2, <1>5 DEF KeysOK
  <1>13. ChecksOK'
    BY <1>1, <1>5, <1>6, JobKinds DEF ChecksOK
  <1>14. ChainOK'
    <2> SUFFICES ASSUME NEW q \in Regs, reg'[q].pc = "queued", marks[q] # Records
                 PROVE  \E i \in 0 .. Slots : Fresh(CheckJob(q, i))'
      BY <1>2 DEF ChainOK
    <2>1. CASE q = r
      BY <1>1, <1>6, <2>1
    <2>2. CASE q # r
      <3>1. PICK i \in 0 .. Slots : Fresh(CheckJob(q, i))
        BY <1>5, <2>2 DEF ChainOK
      <3>2. CheckJob(q, i) \in Keys
        BY JobKinds
      <3> QED
        BY <1>1, <1>2, <3>1, <3>2, FreshKept
    <2> QED
      BY <2>1, <2>2
  <1>15. CacheOK' /\ ReadersOK' /\ SourcesOnlyWhenVerified'
    BY <1>2, <1>8, RowsStayOlder DEF CacheOK, ReadersOK, SourcesOnlyWhenVerified
  <1>16. \A l \in Logs : job'[LogJob(l)] = job[LogJob(l)]
    BY <1>1, <1>6, JobKinds
  <1>17. EventsOK' /\ LogsOK'
    BY <1>2, <1>16 DEF EventsOK, LogsOK, Runners, LogDone
  <1> QED
    BY <1>7, <1>9, <1>10, <1>11, <1>12, <1>13, <1>14, <1>15, <1>17

\* A log record arrives.
LEMMA PostLogStep ==
  ASSUME DeliverabilityInv, NEW l \in Logs, PostLog(l)
  PROVE  DeliverabilityInv'
  <1> USE DEF DeliverabilityInv, SharedInv
  <1> DEFINE k == LogJob(l)
  <1>1. k \in LogJobs /\ k \in Keys /\ k \notin Checks
    BY JobKinds
  <1>2. /\ job[k] = Absent /\ Add({k})
        /\ UNCHANGED <<reg, dkimKey, marks, columns, status, cache, reader, sends, events,
                       worker, locals>>
    BY DEF PostLog, LogJob, domainVars, mtaVars
  <1>3. /\ job' \in [Keys -> Job] /\ job'[k].state = "waiting" /\ Starts(job'[k]) = 0
        /\ \A j \in Keys : j # k => job'[j] = job[j]
    BY <1>1, <1>2, AddedJob
  <1>4. QueueOK'
    BY <1>1, <1>2, MoveStep, AttemptsPositive DEF QueueOK
  <1>5. Later
    BY <1>2 DEF Later, Visible, DeliverabilityTypeOK
  <1>6. \A v \in Workers : WorkerInv(v)'
    BY <1>2, <1>5, OthersStep
  <1>7. DeliverabilityTypeOK'
    BY <1>2, <1>3 DEF DeliverabilityTypeOK
  <1>8. RegOK' /\ KeysOK' /\ SourcesOnlyWhenVerified' /\ CacheOK' /\ ReadersOK'
    BY <1>2, <1>5, RowsStayOlder
       DEF RegOK, KeysOK, Visible, SourcesOnlyWhenVerified, CacheOK, ReadersOK
  <1>9. ChecksOK'
    BY <1>1, <1>2, <1>3, JobKinds DEF ChecksOK
  <1>10. ChainOK'
    <2> SUFFICES ASSUME NEW q \in Regs, reg[q].pc = "queued", marks[q] # Records
                 PROVE  \E i \in 0 .. Slots : Fresh(CheckJob(q, i))'
      BY <1>2 DEF ChainOK
    <2>1. PICK i \in 0 .. Slots : Fresh(CheckJob(q, i))
      BY DEF ChainOK
    <2>2. CheckJob(q, i) \in Keys
      BY JobKinds
    <2> QED
      BY <1>1, <1>2, <2>1, <2>2, FreshKept
  <1>11. \A m \in Logs : m # l => job'[LogJob(m)] = job[LogJob(m)]
    BY <1>3, JobKinds
  <1>12. EventsOK'
    <2>1. Starts(job[k]) = 0
      BY <1>2 DEF Absent, Starts
    <2> QED
      BY <1>2, <1>3, <1>11, <2>1 DEF EventsOK, Runners
  <1>13. LogsOK'
    BY <1>2, <1>3, <1>11 DEF LogsOK, LogDone
  <1> QED
    BY <1>4, <1>6, <1>7, <1>8, <1>9, <1>10, <1>12, <1>13

-----------------------------------------------------------------------------
(* Steps of a handler. *)

\* The entries that may still insert an event are finitely many.
LEMMA RunnersFinite ==
  ASSUME NEW l \in Logs
  PROVE  IsFiniteSet(Runners(l)) /\ Cardinality(Runners(l)) \in Nat
  <1>1. IsFiniteSet(Workers) /\ Runners(l) \subseteq Workers
    BY QueueAssumption DEF Runners
  <1> QED
    BY <1>1, FS_Subset, FS_CardinalityType

\* Fewer of them leave the bound on events.
LEMMA EventsKept ==
  ASSUME EventsOK, events' = events, events \in [Logs -> Nat],
         \A l \in Logs : Starts(job'[LogJob(l)]) = Starts(job[LogJob(l)])
                         /\ Starts(job[LogJob(l)]) \in Nat,
         \A l \in Logs : Runners(l)' \subseteq Runners(l)
  PROVE  EventsOK'
  <1> SUFFICES ASSUME NEW l \in Logs
               PROVE  events[l] + Cardinality(Runners(l)') <= Starts(job[LogJob(l)])
    BY DEF EventsOK
  <1>1. Cardinality(Runners(l)') <= Cardinality(Runners(l)) /\ Cardinality(Runners(l)') \in Nat
    BY RunnersFinite, FS_Subset, FS_CardinalityType
  <1>2. Cardinality(Runners(l)) \in Nat /\ events[l] \in Nat
    BY RunnersFinite
  <1> QED
    BY <1>1, <1>2 DEF EventsOK

\* A handler that goes on.
LEMMA Moved ==
  ASSUME QueueOK, NEW w \in Workers, NEW pc \in Pcs, Goto(w, pc)
  PROVE  /\ worker' \in [Workers -> [pc: Pcs, key: Keys \cup {NoKey}, entry: Nat]]
         /\ worker'[w].pc = pc /\ worker'[w].key = worker[w].key
         /\ \A v \in Workers : v # w => worker'[v] = worker[v]
         /\ RegOf(w)' = RegOf(w) /\ LogOf(w)' = LogOf(w) /\ SendOf(w)' = SendOf(w)
         /\ DomainOf(w)' = DomainOf(w)
  BY GoneOn DEF QueueOK, QueueInv, RegOf, LogOf, SendOf, DomainOf

\* The runners are no more when a handler does not start at a record's first step.
LEMMA RunnersGoOn ==
  ASSUME QueueOK, NEW w \in Workers, NEW pc \in Pcs, Goto(w, pc),
         pc \in LogPcs => worker[w].pc \in LogPcs, NEW l \in Logs
  PROVE  Runners(l)' \subseteq Runners(l)
  BY Moved DEF Runners

\* A handler goes on, may mark rows, set columns, cache a row, write a send, and
\* queue the next check.
LEMMA HandlerStepKeeps ==
  ASSUME DeliverabilityInv, NEW w \in Workers, NEW pc \in Pcs \ {"idle"},
         worker[w].pc # "idle", Goto(w, pc),
         UNCHANGED <<reg, dkimKey, status, reader>>, Later,
         locals' \in [Workers -> Locals], \A v \in Workers : v # w => locals'[v] = locals[v],
         marks' \in [Regs -> SUBSET Records],
         columns' \in [Regs -> [SourceColumns -> Sources \cup {NoSource}]],
         cache' \in [Names -> Row \cup {NoRow}],
         sends' \in [SendIds -> [domain: Regs, source: Sources \cup {NoSource}] \cup {NoRow}],
         events' \in [Logs -> Nat],
         SourcesOnlyWhenVerified', CacheOK', EventsOK',
         NEW added \in SUBSET {k \in Checks : k.reg = RegOf(w)},
         UNCHANGED job \/ Add(added),
         \A k \in added : job[k] = Absent \/ job[k].state = "completed",
         added # {} => worker[w].key \in Checks,
         \/ pc # "return"
         \/ worker[w].key \in LogJobs
         \/ marks[RegOf(w)] = Records
         \/ Add(added) /\ \E i \in 0 .. Slots : CheckJob(RegOf(w), i) \in added,
         WorkerInv(w)'
  PROVE  DeliverabilityInv'
  <1> USE DEF DeliverabilityInv, SharedInv
  <1>1. /\ added \subseteq Keys /\ added \subseteq Checks
        /\ \A k \in added : k \notin LogJobs /\ k.reg = RegOf(w)
    BY JobKinds
  <1>2. /\ worker' \in [Workers -> [pc: Pcs, key: Keys \cup {NoKey}, entry: Nat]]
        /\ worker'[w].pc = pc /\ worker'[w].key = worker[w].key
        /\ \A v \in Workers : v # w => worker'[v] = worker[v]
    BY Moved
  <1>3. QueueOK'
    BY <1>1, MoveStep, AttemptsPositive DEF QueueOK
  <1>4. /\ job' \in [Keys -> Job]
        /\ \A k \in added : job'[k] # job[k] => job'[k].state = "waiting" /\ job'[k].lock \notin Workers
        /\ \A k \in Keys \ added : job'[k] = job[k]
    BY <1>1, AddedJob, JobsOf
  <1>5. DeliverabilityTypeOK'
    BY <1>2, <1>4 DEF DeliverabilityTypeOK, Locals
  <1>6. \A v \in Workers : WorkerInv(v)'
    BY <1>2, OthersStep
  <1>7. RegOK' /\ KeysOK' /\ ReadersOK'
    BY RowsStayOlder DEF RegOK, KeysOK, ReadersOK, Visible
  <1>8. ChecksOK'
    <2>1. worker[w].key \in Checks => reg[RegOf(w)].pc = "queued"
      BY DEF WorkerInv, CheckerOK
    <2> QED
      BY <1>1, <1>4, <2>1, JobKinds DEF ChecksOK
  <1>9. ChainOK'
    <2>1. ASSUME NEW k \in Keys, Fresh(k), pc # "return" \/ worker[w].key # k
          PROVE  Fresh(k)'
      <3>1. CASE job'[k] = job[k]
        BY <1>2, <2>1, <3>1, JobsOf DEF Fresh
      <3>2. CASE job'[k] # job[k]
        BY <1>1, <1>4, <2>1, <3>2 DEF Fresh
      <3> QED
        BY <3>1, <3>2
    <2> SUFFICES ASSUME NEW q \in Regs, reg[q].pc = "queued", marks'[q] # Records
                 PROVE  \E i \in 0 .. Slots : Fresh(CheckJob(q, i))'
      BY DEF ChainOK
    <2>2. marks[q] # Records
      <3>1. marks'[q] \subseteq Records /\ marks[q] \subseteq marks'[q]
        BY DEF Later
      <3> QED
        BY <3>1
    <2>3. PICK i \in 0 .. Slots : Fresh(CheckJob(q, i))
      BY <2>2 DEF ChainOK
    <2>4. CheckJob(q, i) \in Checks /\ CheckJob(q, i) \in Keys /\ CheckJob(q, i).reg = q
      BY JobKinds
    <2>5. CASE pc # "return" \/ worker[w].key # CheckJob(q, i)
      BY <2>1, <2>3, <2>4, <2>5
    <2>6. CASE pc = "return" /\ worker[w].key = CheckJob(q, i)
      <3>1. RegOf(w) = q /\ worker[w].key \notin LogJobs
        BY <2>4, <2>6, JobKinds DEF RegOf
      <3>2. PICK j \in 0 .. Slots : CheckJob(q, j) \in added /\ Add(added)
        BY <2>2, <2>6, <3>1
      <3>3. Fresh(CheckJob(q, j))'
        BY <1>1, <3>2, AddedJob DEF Fresh
      <3> QED
        BY <3>3
    <2> QED
      BY <2>5, <2>6
  <1>10. LogsOK'
    <2> SUFFICES ASSUME NEW l \in Logs, job'[LogJob(l)].state = "completed"
                 PROVE  LogDone(l)'
      BY DEF LogsOK
    <2>1. job'[LogJob(l)] = job[LogJob(l)]
      BY <1>1, <1>4, JobKinds
    <2> QED
      BY <2>1, DoneKept DEF LogsOK, DeliverabilityTypeOK
  <1> QED
    BY <1>3, <1>5, <1>6, <1>7, <1>8, <1>9, <1>10

-----------------------------------------------------------------------------
(* Steps that take jobs and leave them. *)

\* The cache is left alone, or one of its entries is emptied.
CacheKept ==
    \/ cache' = cache
    \/ \E n \in Names : cache' = [cache EXCEPT ![n] = NoRow]

\* Workers leave their job or stay as they are, no job is started or added, a
\* record's job completes when its handler returned, and a fresh check stays fresh.
LEMMA LeaveStepKeeps ==
  ASSUME DeliverabilityInv, UNCHANGED <<domainVars, status, reader, mtaVars>>, CacheKept, QueueOK',
         locals' \in [Workers -> Locals],
         \A v \in Workers :
            \/ worker'[v] = worker[v] /\ locals'[v] = locals[v]
            \/ worker'[v] = Idle,
         \A k \in Keys : Undisturbed(job'[k], job[k]),
         \A k \in LogJobs : job'[k].state = "completed" /\ job[k].state # "completed" =>
            \E w \in Workers : worker[w].pc = "return" /\ worker[w].key = k,
         \A k \in Checks : Fresh(k) => Fresh(k)'
  PROVE  DeliverabilityInv'
  <1> USE DEF DeliverabilityInv, SharedInv
  <1>1. /\ UNCHANGED <<reg, dkimKey, marks, columns, status, reader, sends, events>>
        /\ cache' \in [Names -> Row \cup {NoRow}]
        /\ \A n \in Names : cache'[n] \in {cache[n], NoRow}
    BY DEF domainVars, mtaVars, CacheKept, DeliverabilityTypeOK
  <1>2. Later
    BY <1>1 DEF Later, Visible, DeliverabilityTypeOK
  <1>3. \A v \in Workers : WorkerInv(v)'
    BY <1>2, OthersStep, IdleWorkerInv
  <1>4. DeliverabilityTypeOK'
    BY <1>1 DEF DeliverabilityTypeOK, QueueOK, QueueInv, QueueTypes, Locals
  <1>5. RegOK' /\ KeysOK' /\ SourcesOnlyWhenVerified'
    BY <1>1 DEF RegOK, KeysOK, Visible, SourcesOnlyWhenVerified
  <1>6. CacheOK' /\ ReadersOK'
    <2>1. \A n \in Names : cache'[n] = NoRow => Older(cache[n], n)'
      BY DEF Older
    <2> QED
      BY <1>1, <1>2, <2>1, RowsStayOlder DEF CacheOK, ReadersOK
  <1>7. ChecksOK'
    BY <1>1, JobKinds DEF ChecksOK, Undisturbed
  <1>8. ChainOK'
    BY <1>1, JobKinds DEF ChainOK
  <1>9. EventsOK'
    <2>1. \A l \in Logs : Starts(job'[LogJob(l)]) = Starts(job[LogJob(l)])
                          /\ Starts(job[LogJob(l)]) \in Nat
      BY JobKinds, JobsOf DEF Undisturbed
    <2>2. \A l \in Logs : Runners(l)' \subseteq Runners(l)
      BY IdleRecord, PcSets DEF Runners
    <2> QED
      BY <1>1, <2>1, <2>2, EventsKept DEF DeliverabilityTypeOK
  <1>10. LogsOK'
    <2> SUFFICES ASSUME NEW l \in Logs, job'[LogJob(l)].state = "completed"
                 PROVE  LogDone(l)'
      BY DEF LogsOK
    <2>1. LogJob(l) \in LogJobs /\ LogJob(l).log = l
      BY JobKinds
    <2>2. LogDone(l)
      BY <2>1 DEF LogsOK, WorkerInv, LoggerOK, LogOf
    <2> QED
      BY <1>1, <2>2 DEF LogDone
  <1> QED
    BY <1>3, <1>4, <1>5, <1>6, <1>7, <1>8, <1>9, <1>10

\* What Forget leaves in the locals.
LEMMA Forgotten ==
  ASSUME DeliverabilityInv, NEW w \in Workers, Forget(w)
  PROVE  /\ locals' \in [Workers -> Locals]
         /\ \A v \in Workers : v # w => locals'[v] = locals[v]
  BY IdleRecord DEF Forget, DeliverabilityInv, SharedInv, DeliverabilityTypeOK, Locals

\* A job that lost no lock to a worker, or was taken from it, is as fresh as before.
LEMMA StaysFresh ==
  ASSUME NEW k \in Keys, Fresh(k), job'[k].state \in {"waiting", "active", "failed"},
         \A v \in Workers : job'[k].lock = v => job[k].lock = v /\ worker'[v].pc = worker[v].pc
  PROVE  Fresh(k)'
  BY DEF Fresh

\* A handler that returned is done with its job; a check has queued another, or
\* found all records.
LEMMA SucceedKeeps ==
  ASSUME DeliverabilityInv, NEW w \in Workers, Succeed(w)
  PROVE  DeliverabilityInv'
  <1> USE DEF DeliverabilityInv, SharedInv
  <1> DEFINE k == worker[w].key
  <1>1. worker[w].pc = "return" /\ SucceedJob(w) /\ Forget(w)
        /\ UNCHANGED <<domainVars, status, cache, reader, mtaVars>>
    BY DEF Succeed
  <1>2. /\ QueueOK' /\ worker'[w] = Idle /\ k \in Keys
        /\ \A v \in Workers : v # w => worker'[v] = worker[v]
        /\ \A j \in Keys : Undisturbed(job'[j], job[j])
        /\ \A j \in Keys : j # k => job'[j] = job[j]
    BY <1>1, SettleStep, AttemptsPositive, PcSets DEF QueueOK
  <1>3. job'[k] = IF job[k].lock = w THEN Completed(job[k]) ELSE job[k]
    BY <1>1, <1>2, JobsOf DEF SucceedJob, Settle
  <1>4. \A j \in Checks : Fresh(j) => Fresh(j)'
    <2> SUFFICES ASSUME NEW j \in Checks, Fresh(j) PROVE Fresh(j)'
      OBVIOUS
    <2>1. j \in Keys
      BY JobKinds
    <2>2. job'[j] = job[j] /\ job[j].lock # w
      BY <1>1, <1>2, <1>3, <2>1, JobsOf DEF Fresh
    <2> QED
      BY <1>2, <2>1, <2>2, StaysFresh DEF Fresh
  <1>5. \A j \in LogJobs : job'[j].state = "completed" /\ job[j].state # "completed" => j = k
    BY <1>2, JobKinds
  <1> QED
    BY <1>1, <1>2, <1>4, <1>5, Forgotten, LeaveStepKeeps DEF CacheKept

\* A failed attempt leaves the job to be retried, or failed.
LEMMA FailStepKeeps ==
  ASSUME DeliverabilityInv, NEW w \in Workers, worker[w].pc # "idle",
         FailJob(w, AttemptsOf(worker[w].key)), Forget(w),
         UNCHANGED <<domainVars, status, reader, mtaVars>>, CacheKept
  PROVE  DeliverabilityInv'
  <1> USE DEF DeliverabilityInv, SharedInv
  <1> DEFINE k == worker[w].key
  <1>1. k \in Keys /\ AttemptsFn[k] = AttemptsOf(k) /\ AttemptsFn[k] \in Nat \ {0}
        /\ job \in [Keys -> Job] /\ JobInv(job[k], AttemptsFn[k])
        /\ (job[k].lock = w => job[k].state = "active")
    BY JobsOf, AttemptsPositive
  <1>2. FailJob(w, AttemptsFn[k]) /\ Forget(w)
        /\ UNCHANGED <<domainVars, status, reader, mtaVars>>
    BY <1>1
  <1>3. /\ QueueOK' /\ worker'[w] = Idle
        /\ \A v \in Workers : v # w => worker'[v] = worker[v]
        /\ \A j \in Keys : Undisturbed(job'[j], job[j])
        /\ \A j \in Keys : j # k => job'[j] = job[j]
    BY <1>2, SettleStep, AttemptsPositive, PcSets DEF QueueOK
  <1>4. job'[k] = IF job[k].lock = w THEN AttemptFailed(job[k], AttemptsFn[k]) ELSE job[k]
    BY <1>1, <1>2 DEF FailJob, Settle
  <1>5. job[k].lock = w => job'[k].state \in {"waiting", "failed"} /\ job'[k].lock = NoWorker
    <2>1. AttemptFailed(job[k], AttemptsFn[k]).lock = NoWorker
      BY <1>1 DEF AttemptFailed, Job
    <2> QED
      BY <1>1, <1>4, <2>1, AttemptFailedJob
  <1>6. \A j \in Checks : Fresh(j) => Fresh(j)'
    <2> SUFFICES ASSUME NEW j \in Checks, Fresh(j) PROVE Fresh(j)'
      OBVIOUS
    <2>1. j \in Keys
      BY JobKinds
    <2>2. CASE j = k /\ job[k].lock = w
      BY <1>5, <2>1, <2>2, StaysFresh, QueueAssumption
    <2>3. CASE j # k \/ job[k].lock # w
      <3>1. job'[j] = job[j] /\ job[j].lock # w
        BY <1>3, <1>4, <2>1, <2>3, JobsOf
      <3> QED
        BY <1>3, <2>1, <3>1, StaysFresh DEF Fresh
    <2> QED
      BY <2>2, <2>3
  <1>7. \A j \in LogJobs : job'[j].state = "completed" => job[j].state = "completed"
    BY <1>3, <1>4, <1>5, JobKinds
  <1> QED
    BY <1>2, <1>3, <1>6, <1>7, Forgotten, LeaveStepKeeps

\* So does one that changes nothing else.
LEMMA FailsKeeps ==
  ASSUME DeliverabilityInv, NEW w \in Workers, worker[w].pc # "idle", Fails(w)
  PROVE  DeliverabilityInv'
  BY FailStepKeeps DEF Fails, CacheKept

\* Locks are released by a crash or run out.
LEMMA ReleaseKeeps ==
  ASSUME DeliverabilityInv, NEW w \in Workers, Crash(w) \/ LoseLock(w)
  PROVE  DeliverabilityInv'
  <1> USE DEF DeliverabilityInv, SharedInv
  <1>1. (CrashWorker(w) /\ Forget(w)) \/ (ExpireLock(w) /\ UNCHANGED locals)
    BY DEF Crash, LoseLock
  <1>2. CrashWorker(w) \/ ExpireLock(w)
    BY <1>1
  <1>3. UNCHANGED <<domainVars, status, cache, reader, mtaVars>>
    BY DEF Crash, LoseLock
  <1>4. /\ QueueOK'
        /\ worker'[w] = Idle \/ worker' = worker
        /\ \A v \in Workers : v # w => worker'[v] = worker[v]
        /\ \A k \in Keys : Undisturbed(job'[k], job[k]) /\ job'[k].state = job[k].state
    BY <1>2, ReleaseStep, AttemptsPositive, PcSets DEF QueueOK
  <1>5. \A k \in Keys : job'[k].lock \in Workers => job'[k].lock = job[k].lock /\ job[k].lock # w
    <2>1. \A k \in Keys : job'[k] = IF job[k].lock = w THEN Unlocked(job[k]) ELSE job[k]
      BY <1>2, JobsOf DEF CrashWorker, ExpireLock, ReleaseLocks
    <2>2. \A k \in Keys : Unlocked(job[k]).lock = NoWorker
      BY JobsOf DEF Unlocked, Job
    <2> QED
      BY <2>1, <2>2, QueueAssumption
  <1>6. \A k \in Checks : Fresh(k) => Fresh(k)'
    <2> SUFFICES ASSUME NEW k \in Checks, Fresh(k) PROVE Fresh(k)'
      OBVIOUS
    <2>1. k \in Keys /\ job'[k].state \in {"waiting", "active", "failed"}
      BY <1>4, JobKinds DEF Fresh
    <2>2. \A v \in Workers : job'[k].lock = v => job[k].lock = v /\ v # w
      BY <1>5, <2>1
    <2> QED
      BY <1>4, <2>1, <2>2, StaysFresh
  <1>7. /\ locals' \in [Workers -> Locals]
        /\ \A v \in Workers : (worker'[v] = worker[v] /\ locals'[v] = locals[v]) \/ worker'[v] = Idle
    <2>1. CASE CrashWorker(w) /\ Forget(w)
      <3>1. worker'[w] = Idle
        BY <2>1, ReleaseStep, AttemptsPositive, PcSets DEF QueueOK
      <3> QED
        BY <1>4, <2>1, <3>1, Forgotten
    <2>2. CASE ExpireLock(w) /\ UNCHANGED locals
      BY <2>2 DEF ExpireLock, DeliverabilityTypeOK, Locals
    <2> QED
      BY <1>1, <2>1, <2>2
  <1> QED
    BY <1>3, <1>4, <1>6, <1>7, JobKinds, LeaveStepKeeps DEF CacheKept

\* A stalled job is queued again, or failed.
LEMMA RecoverKeeps ==
  ASSUME DeliverabilityInv, RecoverAny
  PROVE  DeliverabilityInv'
  <1> USE DEF DeliverabilityInv, SharedInv
  <1>1. PICK k \in Keys : RecoverJob(k)
    BY DEF RecoverAny
  <1>2. UNCHANGED <<domainVars, status, cache, reader, mtaVars, locals>>
    BY DEF RecoverAny
  <1>3. /\ QueueOK' /\ worker' = worker
        /\ job'[k].state \in {"waiting", "failed"}
        /\ \A j \in Keys : Undisturbed(job'[j], job[j])
        /\ \A j \in Keys : j # k => job'[j] = job[j]
    BY <1>1, RecoverStep, AttemptsPositive, PcSets DEF QueueOK
  <1>4. \A j \in Keys : job'[j].state # "active" => job'[j].lock \notin Workers
    BY <1>3, JobsOf, QueueAssumption DEF QueueOK, QueueInv, JobInv
  <1>5. \A j \in Checks : Fresh(j) => Fresh(j)'
    <2> SUFFICES ASSUME NEW j \in Checks, Fresh(j) PROVE Fresh(j)'
      OBVIOUS
    <2>1. j \in Keys
      BY JobKinds
    <2>2. CASE j = k
      BY <1>3, <1>4, <2>1, <2>2, StaysFresh
    <2>3. CASE j # k
      BY <1>3, <2>1, <2>3, StaysFresh DEF Fresh
    <2> QED
      BY <2>2, <2>3
  <1>6. \A j \in LogJobs : job'[j].state = "completed" => job[j].state = "completed"
    BY <1>3, JobKinds
  <1>7. locals' \in [Workers -> Locals] /\ UNCHANGED locals
    BY <1>2 DEF DeliverabilityTypeOK, Locals
  <1> QED
    BY <1>2, <1>3, <1>5, <1>6, <1>7, LeaveStepKeeps DEF CacheKept

\* A taken job starts at the first step of its handler.
LEMMA TakeKeeps ==
  ASSUME DeliverabilityInv, NEW w \in Workers, TakeAny(w)
  PROVE  DeliverabilityInv'
  <1> USE DEF DeliverabilityInv, SharedInv
  <1>1. PICK k \in Keys : TakeJob(w, k, FirstPc(k))
    BY DEF TakeAny
  <1>2. UNCHANGED <<reg, dkimKey, marks, columns, status, cache, reader, sends, events, locals>>
    BY DEF TakeAny, domainVars, mtaVars
  <1>3. /\ FirstPc(k) \in Pcs \ {"idle"} /\ FirstPc(k) # "return"
        /\ k \in Checks => FirstPc(k) = "resolve"
        /\ k \in LogJobs => FirstPc(k) = "getDomain"
    BY JobKinds, PcSets DEF FirstPc, CheckPcs, LogPcs
  <1>4. /\ QueueOK'
        /\ worker[w].pc = "idle"
        /\ worker'[w] = [pc |-> FirstPc(k), key |-> k, entry |-> Starts(job[k]) + 1]
        /\ \A v \in Workers : v # w => worker'[v] = worker[v]
        /\ Starts(job[k]) \in Nat /\ Starts(job'[k]) = Starts(job[k]) + 1
        /\ job[k].state = "waiting" /\ job'[k].state = "active" /\ job'[k] # Absent
        /\ \A j \in Keys : j # k => job'[j] = job[j]
    BY <1>1, <1>3, TakeStep, AttemptsPositive DEF QueueOK
  <1>5. job[k] # Absent
    BY <1>4 DEF Absent
  <1>6. Later
    BY <1>2 DEF Later, Visible, DeliverabilityTypeOK
  <1>7. DeliverabilityTypeOK'
    BY <1>2, <1>4 DEF DeliverabilityTypeOK, QueueOK, QueueInv, QueueTypes
  <1>8. RegOK' /\ KeysOK' /\ SourcesOnlyWhenVerified' /\ CacheOK' /\ ReadersOK'
    BY <1>2, <1>6, RowsStayOlder
       DEF RegOK, KeysOK, Visible, SourcesOnlyWhenVerified, CacheOK, ReadersOK
  <1>9. ChecksOK'
    BY <1>2, <1>4, <1>5, JobKinds DEF ChecksOK
  <1>10. \A j \in Keys : Fresh(j) => Fresh(j)'
    <2> SUFFICES ASSUME NEW j \in Keys, Fresh(j) PROVE Fresh(j)'
      OBVIOUS
    <2>1. CASE j = k
      <3>1. \A v \in Workers : job'[k].lock = v => worker'[v].pc # "idle" /\ worker'[v].key = k
        BY <1>4 DEF QueueOK, QueueInv, LocksOK
      <3>2. job'[k].lock = w
        BY <1>1, JobsOf DEF TakeJob, Taken, Job
      <3> QED
        BY <1>3, <1>4, <2>1, <3>2 DEF Fresh
    <2>2. CASE j # k
      <3>1. job'[j] = job[j] /\ job[j].lock # w
        BY <1>4, <2>2, JobsOf
      <3> QED
        BY <1>4, <3>1, StaysFresh DEF Fresh
    <2> QED
      BY <2>1, <2>2
  <1>11. ChainOK'
    BY <1>2, <1>10, JobKinds DEF ChainOK
  <1>12. EventsOK'
    <2> SUFFICES ASSUME NEW l \in Logs
                 PROVE  events[l] + Cardinality(Runners(l)') <= Starts(job'[LogJob(l)])
      BY <1>2 DEF EventsOK
    <2>1. /\ events[l] \in Nat /\ IsFiniteSet(Runners(l)) /\ Cardinality(Runners(l)) \in Nat
          /\ events[l] + Cardinality(Runners(l)) <= Starts(job[LogJob(l)])
          /\ LogJob(l) \in Keys
      BY RunnersFinite, JobKinds DEF DeliverabilityTypeOK, EventsOK
    <2>2. w \notin Runners(l)
      BY <1>4, PcSets DEF Runners
    <2>3. CASE LogJob(l) = k
      <3>1. Runners(l)' \subseteq Runners(l) \cup {w}
        BY <1>4 DEF Runners
      <3>2. /\ IsFiniteSet(Runners(l) \cup {w})
            /\ Cardinality(Runners(l) \cup {w}) = Cardinality(Runners(l)) + 1
        BY <2>1, <2>2, FS_AddElement
      <3>3. Cardinality(Runners(l)') <= Cardinality(Runners(l)) + 1
            /\ Cardinality(Runners(l)') \in Nat
        BY <3>1, <3>2, FS_Subset, FS_CardinalityType
      <3> QED
        BY <1>4, <2>1, <2>3, <3>3
    <2>4. CASE LogJob(l) # k
      <3>1. Runners(l)' \subseteq Runners(l)
        BY <1>4, <2>4 DEF Runners
      <3>2. Cardinality(Runners(l)') <= Cardinality(Runners(l))
            /\ Cardinality(Runners(l)') \in Nat
        BY <2>1, <3>1, FS_Subset, FS_CardinalityType
      <3>3. job'[LogJob(l)] = job[LogJob(l)] /\ Starts(job[LogJob(l)]) \in Nat
        BY <1>4, <2>1, <2>4, JobsOf
      <3> QED
        BY <2>1, <3>2, <3>3
    <2> QED
      BY <2>3, <2>4
  <1>13. LogsOK'
    BY <1>2, <1>4, JobKinds DEF LogsOK, LogDone
  <1>14. WorkerInv(w)'
    <2>1. worker'[w].pc = FirstPc(k) /\ worker'[w].key = k /\ RegOf(w)' = k.reg
      BY <1>4 DEF RegOf
    <2>2. CASE k \in Checks
      <3>1. k \notin LogJobs /\ worker'[w].pc = "resolve" /\ reg[k.reg].pc = "queued"
        BY <1>3, <1>5, <2>1, <2>2, JobKinds DEF ChecksOK
      <3> QED
        BY <1>2, <2>1, <2>2, <3>1 DEF WorkerInv, CheckerOK, LoggerOK, CheckPcs, LogPcs
    <2>3. CASE k \in LogJobs
      <3>1. k \notin Checks /\ worker'[w].pc = "getDomain"
        BY <1>3, <2>1, <2>3, JobKinds
      <3> QED
        BY <2>1, <2>3, <3>1 DEF WorkerInv, CheckerOK, LoggerOK, CheckPcs, LogPcs
    <2> QED
      BY <2>2, <2>3, JobKinds
  <1>15. \A v \in Workers : WorkerInv(v)'
    BY <1>2, <1>4, <1>6, <1>14, OthersStep
  <1> QED
    BY <1>4, <1>7, <1>8, <1>9, <1>11, <1>12, <1>13, <1>15

-----------------------------------------------------------------------------
(* The steps of a check. *)

\* A worker in a check knows its domain.
LEMMA CheckerKnows ==
  ASSUME DeliverabilityInv, NEW w \in Workers, worker[w].pc \in CheckPcs
  PROVE  /\ worker[w].key \in Checks /\ worker[w].key \in Keys /\ worker[w].key \notin LogJobs
         /\ RegOf(w) \in Regs /\ reg[RegOf(w)].pc = "queued" /\ Visible(RegOf(w))
         /\ worker[w].pc # "idle" /\ worker[w].pc \notin LogPcs
         /\ locals[w] \in Locals /\ CheckerOK(w)
  <1>1. worker[w].key \in Checks /\ worker[w].pc # "idle" /\ CheckerOK(w)
    BY PcSets DEF DeliverabilityInv, WorkerInv, CheckerOK
  <1>2. reg[RegOf(w)].pc = "queued"
    BY <1>1 DEF CheckerOK
  <1>3. locals[w] \in Locals
    BY DEF DeliverabilityInv, SharedInv, DeliverabilityTypeOK, Locals
  <1> QED
    BY <1>1, <1>2, <1>3, JobKinds, PcSets DEF RegOf, Visible

\* A step of a check that leaves sends and events alone leaves their bound.
LEMMA CheckEvents ==
  ASSUME DeliverabilityInv, NEW w \in Workers, NEW pc \in Pcs, Goto(w, pc), pc \notin LogPcs,
         UNCHANGED events, \A k \in LogJobs : job'[k] = job[k]
  PROVE  EventsOK'
  <1>1. QueueOK /\ EventsOK /\ events \in [Logs -> Nat]
    BY DEF DeliverabilityInv, SharedInv, DeliverabilityTypeOK
  <1>2. \A l \in Logs : LogJob(l) \in LogJobs /\ LogJob(l) \in Keys
    BY JobKinds
  <1>3. \A l \in Logs : Starts(job'[LogJob(l)]) = Starts(job[LogJob(l)])
                        /\ Starts(job[LogJob(l)]) \in Nat
    BY <1>1, <1>2, JobsOf
  <1>4. \A l \in Logs : Runners(l)' \subseteq Runners(l)
    BY <1>1, RunnersGoOn
  <1> QED
    BY <1>1, <1>3, <1>4, EventsKept

\* A step of a check, where it goes, and what it may write.
LEMMA CheckStepKeeps ==
  ASSUME DeliverabilityInv, NEW w \in Workers, worker[w].pc \in CheckPcs,
         NEW pc \in CheckPcs \cup {"return"}, Goto(w, pc),
         UNCHANGED <<reg, dkimKey, status, reader, sends, events>>,
         \A r \in Regs : marks[r] \subseteq marks'[r],
         locals' \in [Workers -> Locals], \A v \in Workers : v # w => locals'[v] = locals[v],
         marks' \in [Regs -> SUBSET Records],
         columns' \in [Regs -> [SourceColumns -> Sources \cup {NoSource}]],
         cache' \in [Names -> Row \cup {NoRow}],
         \A n \in Names : cache'[n] \in {cache[n], NoRow},
         SourcesOnlyWhenVerified',
         NEW added \in SUBSET {k \in Checks : k.reg = RegOf(w)},
         UNCHANGED job \/ Add(added),
         \A k \in added : job[k] = Absent \/ job[k].state = "completed",
         \/ pc # "return"
         \/ marks[RegOf(w)] = Records
         \/ Add(added) /\ \E i \in 0 .. Slots : CheckJob(RegOf(w), i) \in added,
         /\ pc \in CheckPcs \ {"resolve"} =>
               locals'[w].found \ locals'[w].todo \subseteq marks'[RegOf(w)]
         /\ pc \in CheckPcs \ {"resolve", "mark"} => locals'[w].todo = {}
         /\ pc \in {"readSources", "assign"} => Needed \subseteq locals'[w].found
  PROVE  DeliverabilityInv'
  <1> USE DEF DeliverabilityInv, SharedInv
  <1>1. /\ worker[w].key \in Checks /\ worker[w].key \notin LogJobs
        /\ reg[RegOf(w)].pc = "queued" /\ worker[w].pc # "idle"
    BY CheckerKnows
  <1>2. pc \in Pcs \ {"idle"} /\ pc \notin LogPcs
    BY PcSets
  <1>3. Later
    BY DEF Later, Visible, DeliverabilityTypeOK
  <1>4. /\ worker'[w].pc = pc /\ worker'[w].key = worker[w].key /\ RegOf(w)' = RegOf(w)
    BY <1>2, Moved
  <1>5. WorkerInv(w)'
    <2>1. CheckerOK(w)'
      BY <1>1, <1>4 DEF CheckerOK
    <2>2. pc \notin {"findSource", "findSend", "insertSend", "updateSend", "event"}
      BY <1>2 DEF LogPcs
    <2>3. LoggerOK(w)'
      BY <1>1, <1>2, <1>4, <2>2 DEF LoggerOK
    <2> QED
      BY <2>1, <2>3 DEF WorkerInv
  <1>6. CacheOK'
    <2>1. \A n \in Names : cache'[n] = NoRow \/ (cache'[n] = cache[n] /\ Older(cache[n], n)')
      BY <1>3, RowsStayOlder
    <2> QED
      BY <2>1 DEF CacheOK, Older
  <1>7. \A k \in LogJobs : job'[k] = job[k]
    <2>1. CASE Add(added)
      BY <2>1, AddedJob, JobKinds
    <2> QED
      BY <2>1
  <1>8. EventsOK'
    BY <1>2, <1>7, CheckEvents
  <1>9. sends' \in [SendIds -> [domain: Regs, source: Sources \cup {NoSource}] \cup {NoRow}]
        /\ events' \in [Logs -> Nat]
    BY DEF DeliverabilityTypeOK
  <1> QED
    BY <1>1, <1>2, <1>3, <1>5, <1>6, <1>8, <1>9, HandlerStepKeeps

\* The types a step of a handler relies on.
LEMMA HandlerTypes ==
  ASSUME DeliverabilityInv
  PROVE  /\ QueueOK
         /\ marks \in [Regs -> SUBSET Records]
         /\ columns \in [Regs -> [SourceColumns -> Sources \cup {NoSource}]]
         /\ cache \in [Names -> Row \cup {NoRow}]
         /\ sends \in [SendIds -> [domain: Regs, source: Sources \cup {NoSource}] \cup {NoRow}]
         /\ events \in [Logs -> Nat]
         /\ locals \in [Workers -> Locals]
         /\ SourcesOnlyWhenVerified /\ CacheOK /\ EventsOK
  BY DEF DeliverabilityInv, SharedInv, DeliverabilityTypeOK, Locals

\* A check that goes on with its own domain.
LEMMA CheckGoesOn ==
  ASSUME DeliverabilityInv, NEW w \in Workers, worker[w].pc \in CheckPcs,
         NEW pc \in CheckPcs, Goto(w, pc),
         UNCHANGED <<reg, dkimKey, status, reader, sends, events, job>>,
         \A r \in Regs : marks[r] \subseteq marks'[r],
         locals' \in [Workers -> Locals], \A v \in Workers : v # w => locals'[v] = locals[v],
         marks' \in [Regs -> SUBSET Records],
         columns' \in [Regs -> [SourceColumns -> Sources \cup {NoSource}]],
         cache' \in [Names -> Row \cup {NoRow}],
         \A n \in Names : cache'[n] \in {cache[n], NoRow},
         SourcesOnlyWhenVerified',
         pc \in CheckPcs \ {"resolve"} =>
            locals'[w].found \ locals'[w].todo \subseteq marks'[RegOf(w)],
         pc \in CheckPcs \ {"resolve", "mark"} => locals'[w].todo = {},
         pc \in {"readSources", "assign"} => Needed \subseteq locals'[w].found
  PROVE  DeliverabilityInv'
  <1> DEFINE added == {}
  <1>1. /\ added \in SUBSET {k \in Checks : k.reg = RegOf(w)}
        /\ \A k \in added : job[k] = Absent \/ job[k].state = "completed"
    OBVIOUS
  <1>2. pc \in CheckPcs \cup {"return"} /\ pc # "return"
    BY PcSets
  <1>3. UNCHANGED job \/ Add(added)
    OBVIOUS
  <1> HIDE DEF added
  <1> QED
    BY <1>1, <1>2, <1>3, CheckStepKeeps

\* A domain that is found is resolved.
LEMMA ResolveKeeps ==
  ASSUME DeliverabilityInv, NEW w \in Workers, NEW found \in SUBSET Records, Resolve(w, found)
  PROVE  DeliverabilityInv'
  <1>1. worker[w].pc = "resolve" /\ worker[w].pc \in CheckPcs /\ "mark" \in CheckPcs
    BY DEF Resolve, CheckPcs
  <1>2. Visible(RegOf(w))
    BY <1>1, CheckerKnows
  <1>3. /\ locals' = [locals EXCEPT ![w].found = found, ![w].todo = found]
        /\ Goto(w, "mark")
    BY <1>2 DEF Resolve
  <1>4. UNCHANGED <<reg, dkimKey, marks, columns, status, cache, reader, sends, events, job>>
    BY DEF Resolve, domainVars, mtaVars
  <1>5. /\ locals' \in [Workers -> Locals] /\ \A v \in Workers : v # w => locals'[v] = locals[v]
        /\ locals'[w].found = found /\ locals'[w].todo = found
    BY <1>3, HandlerTypes DEF Locals
  <1>6. SourcesOnlyWhenVerified'
    BY <1>4, HandlerTypes DEF SourcesOnlyWhenVerified
  <1>7. locals'[w].found \ locals'[w].todo \subseteq marks'[RegOf(w)]
    BY <1>5
  <1> QED
    BY <1>1, <1>3, <1>4, <1>5, <1>6, <1>7, HandlerTypes, CheckGoesOn

\* The record found is marked in every row.
LEMMA MarkRowsKeeps ==
  ASSUME DeliverabilityInv, NEW w \in Workers, NEW record \in Records, MarkRows(w, record)
  PROVE  DeliverabilityInv'
  <1>1. /\ worker[w].pc = "mark" /\ worker[w].pc \in CheckPcs /\ "mark" \in CheckPcs
        /\ record \in locals[w].todo
    BY DEF MarkRows, CheckPcs
  <1>2. /\ marks' = [r \in Regs |-> IF Visible(r) THEN marks[r] \cup {record} ELSE marks[r]]
        /\ locals' = [locals EXCEPT ![w].todo = @ \ {record}]
    BY DEF MarkRows
  <1>3. UNCHANGED <<reg, dkimKey, columns, status, cache, reader, sends, events, job, worker>>
    BY DEF MarkRows, mtaVars, queueVars
  <1>4. Goto(w, "mark")
    BY <1>1, <1>3, HandlerTypes, JobsOf DEF Goto
  <1>5. /\ locals' \in [Workers -> Locals] /\ \A v \in Workers : v # w => locals'[v] = locals[v]
        /\ locals'[w].found = locals[w].found /\ locals'[w].todo = locals[w].todo \ {record}
    BY <1>2, HandlerTypes DEF Locals
  <1>6. /\ marks' \in [Regs -> SUBSET Records] /\ \A r \in Regs : marks[r] \subseteq marks'[r]
        /\ marks'[RegOf(w)] = marks[RegOf(w)] \cup {record}
    BY <1>1, <1>2, HandlerTypes, CheckerKnows
  <1>7. locals[w].found \ locals[w].todo \subseteq marks[RegOf(w)]
    BY <1>1, CheckerKnows DEF CheckerOK
  <1>8. locals'[w].found \ locals'[w].todo \subseteq marks'[RegOf(w)]
    BY <1>5, <1>6, <1>7
  <1>9. SourcesOnlyWhenVerified'
    BY <1>3, <1>6, HandlerTypes DEF SourcesOnlyWhenVerified
  <1> QED
    BY <1>1, <1>3, <1>4, <1>5, <1>6, <1>8, <1>9, HandlerTypes, CheckGoesOn

\* All that was found is marked.
LEMMA MarkedKeeps ==
  ASSUME DeliverabilityInv, NEW w \in Workers, Marked(w)
  PROVE  DeliverabilityInv'
  <1> DEFINE pc == IF SendsWith(locals[w].found) THEN "readSources" ELSE "recheck"
  <1>1. /\ worker[w].pc = "mark" /\ worker[w].pc \in CheckPcs /\ locals[w].todo = {}
        /\ pc \in CheckPcs /\ pc \in {"readSources", "recheck"} /\ Goto(w, pc)
    BY DEF Marked, CheckPcs
  <1>2. UNCHANGED <<reg, dkimKey, marks, columns, status, cache, reader, sends, events, job, locals>>
    BY DEF Marked, domainVars, mtaVars
  <1>3. locals[w].found \ locals[w].todo \subseteq marks[RegOf(w)]
    BY <1>1, CheckerKnows DEF CheckerOK
  <1>4. pc \in {"readSources", "assign"} => Needed \subseteq locals[w].found
    BY DEF SendsWith
  <1>5. SourcesOnlyWhenVerified'
    BY <1>2, HandlerTypes DEF SourcesOnlyWhenVerified
  <1>6. {} \in SUBSET {k \in Checks : k.reg = RegOf(w)}
    OBVIOUS
  <1> HIDE DEF pc
  <1> QED
    BY <1>1, <1>2, <1>3, <1>4, <1>5, HandlerTypes, CheckGoesOn

\* What a pick of sources is.
LEMMA PicksTyped ==
  \A pick \in Picks : pick \in [SourceColumns -> Sources \cup {NoSource}]
  <1>1. ASSUME NEW pool, NEW p \in Ranked(pool)
        PROVE  p[1] \in Sources \cup {NoSource} /\ p[2] \in Sources \cup {NoSource}
    <2> DEFINE active == {s \in Sources : status[s] = "active" /\ Pool[s] = pool}
               busiest(S) == {s \in S : \A t \in S : Volume(t) <= Volume(s)}
    <2>1. p \in Ranked(pool) => \/ p = <<NoSource, NoSource>>
                                \/ \E s \in active : p = <<s, NoSource>>
                                \/ \E s \in active, t \in active : p = <<s, t>>
      BY DEF Ranked
    <2> QED
      BY <1>1, <2>1
  <1>2. ASSUME NEW pick \in Picks
        PROVE  pick \in [SourceColumns -> Sources \cup {NoSource}]
    <2>1. PICK p \in Ranked("engage"), q \in Ranked("send") :
             pick = [sending |-> p[1], secondary |-> p[2], engage |-> q[1], engageSec |-> q[2]]
      BY DEF Picks
    <2> QED
      BY <1>1, <2>1 DEF SourceColumns
  <1> QED
    BY <1>2

\* The sources are read.
LEMMA ReadSourcesKeeps ==
  ASSUME DeliverabilityInv, NEW w \in Workers, ReadSources(w)
  PROVE  DeliverabilityInv'
  <1>1. /\ worker[w].pc = "readSources" /\ worker[w].pc \in CheckPcs /\ "assign" \in CheckPcs
        /\ Goto(w, "assign")
    BY DEF ReadSources, CheckPcs
  <1>2. PICK pick \in Picks : locals' = [locals EXCEPT ![w].pick = pick]
    BY DEF ReadSources
  <1>3. UNCHANGED <<reg, dkimKey, marks, columns, status, cache, reader, sends, events, job>>
    BY DEF ReadSources, domainVars, mtaVars
  <1>4. /\ locals[w].found \ locals[w].todo \subseteq marks[RegOf(w)] /\ locals[w].todo = {}
        /\ Needed \subseteq locals[w].found
    BY <1>1, CheckerKnows DEF CheckerOK
  <1>5. pick \in [SourceColumns -> Sources \cup {NoSource}]
    BY PicksTyped
  <1>6. /\ locals' \in [Workers -> Locals] /\ \A v \in Workers : v # w => locals'[v] = locals[v]
        /\ locals'[w].found = locals[w].found /\ locals'[w].todo = locals[w].todo
    BY <1>2, <1>5, HandlerTypes DEF Locals
  <1>7. SourcesOnlyWhenVerified'
    BY <1>3, HandlerTypes DEF SourcesOnlyWhenVerified
  <1> QED
    BY <1>1, <1>3, <1>4, <1>6, <1>7, HandlerTypes, CheckGoesOn

\* The sources are written, or the check fails for want of any.
LEMMA AssignSourcesKeeps ==
  ASSUME DeliverabilityInv, NEW w \in Workers, AssignSources(w)
  PROVE  DeliverabilityInv'
  <1> DEFINE pick == locals[w].pick
  <1>1. worker[w].pc = "assign" /\ worker[w].pc \in CheckPcs /\ "clear" \in CheckPcs
    BY DEF AssignSources, CheckPcs
  <1>2. CASE pick = NoSources
    <2>1. Fails(w)
      BY <1>2 DEF AssignSources
    <2> QED
      BY <1>1, <2>1, CheckerKnows, FailsKeeps
  <1>3. CASE pick # NoSources
    <2>1. /\ columns' = [columns EXCEPT ![RegOf(w)] =
                  [c \in SourceColumns |-> IF pick[c] = NoSource THEN @[c] ELSE pick[c]]]
          /\ Goto(w, "clear")
          /\ locals' = [locals EXCEPT ![w].pick = NoSources]
      BY <1>3 DEF AssignSources
    <2>2. UNCHANGED <<reg, dkimKey, marks, status, cache, reader, sends, events, job>>
      BY <1>3 DEF AssignSources, mtaVars
    <2>3. /\ RegOf(w) \in Regs /\ locals[w] \in Locals
          /\ locals[w].found \ locals[w].todo \subseteq marks[RegOf(w)]
          /\ locals[w].todo = {} /\ Needed \subseteq locals[w].found
      BY <1>1, CheckerKnows DEF CheckerOK
    <2>4. NoSources \in [SourceColumns -> Sources \cup {NoSource}]
      BY DEF NoSources
    <2>5. /\ locals' \in [Workers -> Locals] /\ \A v \in Workers : v # w => locals'[v] = locals[v]
          /\ locals'[w].found = locals[w].found /\ locals'[w].todo = locals[w].todo
      BY <2>1, <2>4, HandlerTypes DEF Locals
    <2>6. pick \in [SourceColumns -> Sources \cup {NoSource}]
      BY <2>3 DEF Locals
    <2>7. /\ columns' \in [Regs -> [SourceColumns -> Sources \cup {NoSource}]]
          /\ \A r \in Regs : r # RegOf(w) => columns'[r] = columns[r]
      <3>1. [c \in SourceColumns |->
                 IF pick[c] = NoSource THEN columns[RegOf(w)][c] ELSE pick[c]]
               \in [SourceColumns -> Sources \cup {NoSource}]
        BY <2>3, <2>6, HandlerTypes
      <3> QED
        BY <2>1, <2>3, <3>1, HandlerTypes
    <2>8. SourcesOnlyWhenVerified'
      BY <2>2, <2>3, <2>7, HandlerTypes DEF SourcesOnlyWhenVerified
    <2> QED
      BY <1>1, <2>1, <2>2, <2>3, <2>5, <2>7, <2>8, HandlerTypes, CheckGoesOn
  <1> QED
    BY <1>2, <1>3

\* The cached row of the domain is forgotten.
LEMMA ClearDomainKeeps ==
  ASSUME DeliverabilityInv, NEW w \in Workers, ClearDomain(w)
  PROVE  DeliverabilityInv'
  <1>1. /\ worker[w].pc = "clear" /\ worker[w].pc \in CheckPcs /\ "select" \in CheckPcs
        /\ Goto(w, "select")
        /\ cache' = [cache EXCEPT ![reg[RegOf(w)].name] = NoRow]
    BY DEF ClearDomain, CheckPcs
  <1>2. UNCHANGED <<reg, dkimKey, marks, columns, status, reader, sends, events, job, locals>>
    BY DEF ClearDomain, domainVars, mtaVars
  <1>3. locals[w].found \ locals[w].todo \subseteq marks[RegOf(w)] /\ locals[w].todo = {}
    BY <1>1, CheckerKnows DEF CheckerOK
  <1>4. cache' \in [Names -> Row \cup {NoRow}] /\ \A n \in Names : cache'[n] \in {cache[n], NoRow}
    BY <1>1, HandlerTypes
  <1>5. SourcesOnlyWhenVerified'
    BY <1>2, HandlerTypes DEF SourcesOnlyWhenVerified
  <1> QED
    BY <1>1, <1>2, <1>3, <1>4, <1>5, HandlerTypes, CheckGoesOn

\* A row of the name has its sources, or the check fails.
LEMMA SelectDomainWithDkimKeeps ==
  ASSUME DeliverabilityInv, NEW w \in Workers, SelectDomainWithDkim(w)
  PROVE  DeliverabilityInv'
  <1>1. worker[w].pc = "select" /\ worker[w].pc \in CheckPcs /\ "recheck" \in CheckPcs
    BY DEF SelectDomainWithDkim, CheckPcs
  <1>2. \/ Fails(w)
        \/ /\ Goto(w, "recheck")
           /\ UNCHANGED <<domainVars, status, cache, reader, mtaVars, job, locals>>
    BY DEF SelectDomainWithDkim
  <1>3. CASE Fails(w)
    BY <1>1, <1>3, CheckerKnows, FailsKeeps
  <1>4. CASE /\ Goto(w, "recheck")
             /\ UNCHANGED <<domainVars, status, cache, reader, mtaVars, job, locals>>
    <2>1. UNCHANGED <<reg, dkimKey, marks, columns, status, cache, reader, sends, events, job, locals>>
      BY <1>4 DEF domainVars, mtaVars
    <2>2. locals[w].found \ locals[w].todo \subseteq marks[RegOf(w)] /\ locals[w].todo = {}
      BY <1>1, CheckerKnows DEF CheckerOK
    <2>3. SourcesOnlyWhenVerified'
      BY <2>1, HandlerTypes DEF SourcesOnlyWhenVerified
    <2> QED
      BY <1>1, <1>4, <2>1, <2>2, <2>3, HandlerTypes, CheckGoesOn
  <1> QED
    BY <1>2, <1>3, <1>4

\* A check that returns, having found all records or queued another check.
LEMMA CheckReturns ==
  ASSUME DeliverabilityInv, NEW w \in Workers, worker[w].pc \in CheckPcs, Goto(w, "return"),
         UNCHANGED <<reg, dkimKey, marks, columns, status, cache, reader, sends, events, locals>>,
         NEW added \in SUBSET {k \in Checks : k.reg = RegOf(w)},
         UNCHANGED job \/ Add(added),
         \A k \in added : job[k] = Absent \/ job[k].state = "completed",
         \/ marks[RegOf(w)] = Records
         \/ Add(added) /\ \E i \in 0 .. Slots : CheckJob(RegOf(w), i) \in added
  PROVE  DeliverabilityInv'
  <1> DEFINE pc == "return"
  <1>1. pc \in CheckPcs \cup {"return"} /\ pc \notin CheckPcs /\ Goto(w, pc)
        /\ pc \notin {"readSources", "assign"}
    BY PcSets
  <1>2. SourcesOnlyWhenVerified'
    BY HandlerTypes DEF SourcesOnlyWhenVerified
  <1>3. marks' \in [Regs -> SUBSET Records]
        /\ columns' \in [Regs -> [SourceColumns -> Sources \cup {NoSource}]]
        /\ cache' \in [Names -> Row \cup {NoRow}]
        /\ locals' \in [Workers -> Locals]
        /\ \A v \in Workers : v # w => locals'[v] = locals[v]
        /\ \A n \in Names : cache'[n] \in {cache[n], NoRow}
        /\ \A r \in Regs : marks[r] \subseteq marks'[r]
    BY HandlerTypes
  <1> HIDE DEF pc
  <1> QED
    BY <1>1, <1>2, <1>3, CheckStepKeeps

\* All records were found, or the next check is queued.
LEMMA RecheckKeeps ==
  ASSUME DeliverabilityInv, NEW w \in Workers, Recheck(w)
  PROVE  DeliverabilityInv'
  <1>1. worker[w].pc = "recheck" /\ worker[w].pc \in CheckPcs /\ Goto(w, "return")
    BY DEF Recheck, CheckPcs
  <1>2. UNCHANGED <<reg, dkimKey, marks, columns, status, cache, reader, sends, events, locals>>
    BY DEF Recheck, domainVars, mtaVars
  <1>3. /\ locals[w].found \ locals[w].todo \subseteq marks[RegOf(w)] /\ locals[w].todo = {}
        /\ RegOf(w) \in Regs /\ locals[w] \in Locals
    BY <1>1, CheckerKnows DEF CheckerOK
  <1>4. CASE NotAllFound(locals[w].found)
    <2>1. PICK i \in 1 .. Slots : /\ Free(CheckJob(RegOf(w), i))
                                  /\ Add({CheckJob(RegOf(w), i)})
      BY <1>4 DEF Recheck, CheckJob
    <2>2. /\ i \in 0 .. Slots
          /\ CheckJob(RegOf(w), i) \in Checks /\ CheckJob(RegOf(w), i) \in Keys
          /\ CheckJob(RegOf(w), i).reg = RegOf(w)
      BY <1>3, JobKinds, DomainAssumption
    <2>3. job[CheckJob(RegOf(w), i)] = Absent \/ job[CheckJob(RegOf(w), i)].state = "completed"
      BY <2>1, <2>2, HandlerTypes, JobsOf DEF Free
    <2>4. {CheckJob(RegOf(w), i)} \in SUBSET {k \in Checks : k.reg = RegOf(w)}
      BY <2>2
    <2> QED
      BY <1>1, <1>2, <2>1, <2>2, <2>3, <2>4, CheckReturns
  <1>5. CASE ~NotAllFound(locals[w].found)
    <2>1. UNCHANGED job /\ locals[w].found = Records
      BY <1>5 DEF Recheck, NotAllFound
    <2>2. marks[RegOf(w)] = Records
      <3>1. Records \subseteq marks[RegOf(w)] /\ marks[RegOf(w)] \subseteq Records
        BY <1>3, <2>1, HandlerTypes
      <3> QED
        BY <3>1
    <2>3. {} \in SUBSET {k \in Checks : k.reg = RegOf(w)}
      OBVIOUS
    <2> QED
      BY <1>1, <1>2, <2>1, <2>2, <2>3, CheckReturns
  <1> QED
    BY <1>4, <1>5

-----------------------------------------------------------------------------
(* The steps of a log record. *)

\* A worker in a record's job.
LEMMA LoggerKnows ==
  ASSUME DeliverabilityInv, NEW w \in Workers, worker[w].pc \in LogPcs
  PROVE  /\ worker[w].key \in LogJobs /\ worker[w].key \notin Checks
         /\ worker[w].key = LogJob(LogOf(w)) /\ LogOf(w) \in Logs /\ DomainOf(w) \in Names
         /\ SendOf(w) # NoSend => SendOf(w) \in SendIds
         /\ DeliveredBy[LogOf(w)] \in Sources \cup {NoSource}
         /\ worker[w].pc # "idle" /\ worker[w].pc \notin CheckPcs
         /\ locals[w] \in Locals /\ LoggerOK(w)
  <1>1. worker[w].key \in LogJobs /\ worker[w].pc # "idle" /\ LoggerOK(w)
    BY PcSets DEF DeliverabilityInv, WorkerInv, LoggerOK
  <1>2. worker[w].key = LogJob(LogOf(w)) /\ LogOf(w) \in Logs /\ worker[w].key \notin Checks
    BY <1>1, JobKinds DEF LogOf
  <1> QED
    BY <1>1, <1>2, LogIds, HandlerTypes, PcSets DEF SendOf, DomainOf

\* A step of a record's job, where it goes, and what it may write.
LEMMA LogGoesOn ==
  ASSUME DeliverabilityInv, NEW w \in Workers, worker[w].pc \in LogPcs,
         NEW pc \in LogPcs \cup {"return"}, Goto(w, pc),
         UNCHANGED <<reg, dkimKey, marks, columns, status, reader, job>>,
         locals' \in [Workers -> Locals], \A v \in Workers : v # w => locals'[v] = locals[v],
         cache' \in [Names -> Row \cup {NoRow}], CacheOK',
         sends' \in [SendIds -> [domain: Regs, source: Sources \cup {NoSource}] \cup {NoRow}],
         \A i \in SendIds : sends[i] # NoRow => sends'[i] # NoRow,
         events' \in [Logs -> Nat], \A l \in Logs : events'[l] >= events[l], EventsOK',
         LoggerOK(w)'
  PROVE  DeliverabilityInv'
  <1> DEFINE added == {}
  <1>1. /\ added \in SUBSET {k \in Checks : k.reg = RegOf(w)}
        /\ \A k \in added : job[k] = Absent \/ job[k].state = "completed"
        /\ added = {}
    OBVIOUS
  <1>2. pc \in Pcs \ {"idle"} /\ pc \notin CheckPcs
    BY PcSets
  <1>3. Later
    BY DEF Later, Visible
  <1>4. /\ worker[w].key \in LogJobs /\ worker[w].key \notin Checks /\ worker[w].pc # "idle"
        /\ worker'[w].pc = pc /\ worker'[w].key = worker[w].key
    BY <1>2, LoggerKnows, Moved, HandlerTypes
  <1>5. WorkerInv(w)'
    <2>1. pc \notin {"readSources", "assign"}
      BY <1>2 DEF CheckPcs
    <2>2. CheckerOK(w)'
      BY <1>2, <1>4, <2>1 DEF CheckerOK
    <2> QED
      BY <2>2 DEF WorkerInv
  <1>6. /\ marks' \in [Regs -> SUBSET Records] /\ SourcesOnlyWhenVerified'
        /\ columns' \in [Regs -> [SourceColumns -> Sources \cup {NoSource}]]
    BY HandlerTypes DEF SourcesOnlyWhenVerified
  <1> HIDE DEF added
  <1> QED
    BY <1>1, <1>2, <1>3, <1>4, <1>5, <1>6, HandlerStepKeeps

\* A step that inserts no event leaves their bound.
LEMMA LogEvents ==
  ASSUME DeliverabilityInv, NEW w \in Workers, worker[w].pc \in LogPcs,
         NEW pc \in LogPcs \cup {"return"}, Goto(w, pc), UNCHANGED <<events, job>>
  PROVE  EventsOK'
  <1>1. pc \in Pcs
    BY PcSets
  <1>2. \A l \in Logs : Runners(l)' \subseteq Runners(l)
    BY <1>1, HandlerTypes, RunnersGoOn
  <1>3. \A l \in Logs : Starts(job'[LogJob(l)]) = Starts(job[LogJob(l)])
                        /\ Starts(job[LogJob(l)]) \in Nat
    BY HandlerTypes, JobsOf, JobKinds
  <1> QED
    BY <1>2, <1>3, HandlerTypes, EventsKept

\* A step that writes nothing but what its worker holds.
LEMMA LogReads ==
  ASSUME DeliverabilityInv, NEW w \in Workers, worker[w].pc \in LogPcs,
         NEW pc \in LogPcs \cup {"return"}, Goto(w, pc),
         UNCHANGED <<reg, dkimKey, marks, columns, status, cache, reader, sends, events, job>>,
         locals' \in [Workers -> Locals], \A v \in Workers : v # w => locals'[v] = locals[v],
         LoggerOK(w)'
  PROVE  DeliverabilityInv'
  <1>1. EventsOK'
    BY LogEvents
  <1>2. CacheOK'
    BY HandlerTypes DEF CacheOK, Older, RowsOf, Visible
  <1>3. /\ cache' \in [Names -> Row \cup {NoRow}]
        /\ sends' \in [SendIds -> [domain: Regs, source: Sources \cup {NoSource}] \cup {NoRow}]
        /\ events' \in [Logs -> Nat] /\ \A l \in Logs : events'[l] >= events[l]
        /\ \A i \in SendIds : sends[i] # NoRow => sends'[i] # NoRow
    BY HandlerTypes
  <1> QED
    BY <1>1, <1>2, <1>3, LogGoesOn

\* What holds of a worker in a record's job, from where it goes and what it holds.
LEMMA LoggerAt ==
  ASSUME DeliverabilityInv, NEW w \in Workers, worker[w].pc \in LogPcs,
         NEW pc \in LogPcs \cup {"return"}, Goto(w, pc), UNCHANGED <<reg, marks>>,
         pc \in LogPcs \ {"getDomain"} => SendOf(w) # NoSend,
         pc \in LogPcs \ {"getDomain", "selectDomain"} => Older(locals'[w].row, DomainOf(w)),
         pc \in {"findSource", "findSend", "insertSend", "updateSend", "event"} =>
            locals'[w].row # NoRow,
         pc \in {"updateSend", "event"} => sends'[SendOf(w)] # NoRow,
         pc = "return" => (SendOf(w) # NoSend =>
                              events'[LogOf(w)] >= 1 /\ sends'[SendOf(w)] # NoRow)
  PROVE  LoggerOK(w)'
  <1>1. pc \in Pcs /\ worker[w].key \in LogJobs
    BY PcSets, LoggerKnows
  <1>2. /\ worker'[w].pc = pc /\ worker'[w].key = worker[w].key /\ LogOf(w)' = LogOf(w)
        /\ SendOf(w)' = SendOf(w) /\ DomainOf(w)' = DomainOf(w)
    BY <1>1, Moved, HandlerTypes
  <1>3. Older(locals'[w].row, DomainOf(w)) => Older(locals[w].row, DomainOf(w))'
    BY <1>2 DEF Older, RowsOf, Visible
  <1>4. (SendOf(w) # NoSend => events'[LogOf(w)] >= 1 /\ sends'[SendOf(w)] # NoRow)
           => LogDone(LogOf(w))'
    BY <1>2 DEF LogDone, SendOf
  <1>5. pc \in LogPcs => pc # "return"
    BY PcSets
  <1> QED
    BY <1>1, <1>2, <1>3, <1>4, <1>5 DEF LoggerOK

\* Where a record's job goes when it has its domain.
LEMMA AfterDomainPc ==
  ASSUME NEW w
  PROVE  AfterDomain(w) \in {"findSource", "findSend"} /\ AfterDomain(w) \in LogPcs
  BY DEF AfterDomain, LogPcs

\* The domain is looked up in the cache.
LEMMA GetDomainKeeps ==
  ASSUME DeliverabilityInv, NEW w \in Workers, GetDomain(w)
  PROVE  DeliverabilityInv'
  <1> DEFINE row == cache[DomainOf(w)]
             kept == IF SendOf(w) = NoSend THEN NoRow ELSE row
             pc == CASE SendOf(w) = NoSend -> "return"
                     [] SendOf(w) # NoSend /\ row # NoRow -> AfterDomain(w)
                     [] SendOf(w) # NoSend /\ row = NoRow -> "selectDomain"
  <1>1. /\ worker[w].pc = "getDomain" /\ worker[w].pc \in LogPcs
        /\ Goto(w, pc) /\ locals' = [locals EXCEPT ![w].row = kept]
    BY DEF GetDomain, LogPcs
  <1>2. UNCHANGED <<reg, dkimKey, marks, columns, status, cache, reader, sends, events, job>>
    BY DEF GetDomain, domainVars, mtaVars
  <1>3. /\ DomainOf(w) \in Names /\ row \in Row \cup {NoRow} /\ Older(row, DomainOf(w))
        /\ kept \in Row \cup {NoRow}
    BY <1>1, LoggerKnows, HandlerTypes DEF CacheOK
  <1>4. /\ locals' \in [Workers -> Locals] /\ \A v \in Workers : v # w => locals'[v] = locals[v]
        /\ locals'[w].row = kept
    <2> HIDE DEF kept
    <2> QED
      BY <1>1, <1>3, HandlerTypes DEF Locals
  <1>5. \/ pc = "return" /\ SendOf(w) = NoSend
        \/ pc = "selectDomain" /\ SendOf(w) # NoSend
        \/ pc = AfterDomain(w) /\ SendOf(w) # NoSend /\ row # NoRow
    OBVIOUS
  <1>6. /\ pc \in LogPcs \cup {"return"} /\ "return" \notin LogPcs
        /\ pc \in LogPcs => SendOf(w) # NoSend
        /\ pc = "return" => SendOf(w) = NoSend
        /\ pc \notin {"updateSend", "event", "getDomain"}
        /\ pc \in LogPcs \ {"getDomain", "selectDomain"} =>
              row # NoRow /\ kept = row
    BY <1>5, AfterDomainPc, PcSets DEF LogPcs
  <1>7. Older(kept, DomainOf(w))
    BY <1>3 DEF Older
  <1> HIDE DEF pc, row, kept
  <1>8. pc \in {"findSource", "findSend", "insertSend"} => pc \in LogPcs \ {"getDomain", "selectDomain"}
    BY DEF LogPcs
  <1>9. LoggerOK(w)'
    BY <1>1, <1>2, <1>4, <1>6, <1>7, <1>8, LoggerAt
  <1> QED
    BY <1>1, <1>2, <1>4, <1>6, <1>9, LogReads

\* A selected row is typed, and older.
LEMMA RowFoundOlder ==
  ASSUME DeliverabilityInv, NEW n \in Names, NEW row \in RowFound(n)
  PROVE  row \in Row \cup {NoRow} /\ Older(row, n)
  BY HandlerTypes DEF RowFound, RowsOf, CachedRow, Older, Row

\* The domain is selected.
LEMMA SelectDomainKeeps ==
  ASSUME DeliverabilityInv, NEW w \in Workers, SelectDomain(w)
  PROVE  DeliverabilityInv'
  <1> DEFINE pc == "storeDomain"
  <1>1. /\ worker[w].pc = "selectDomain" /\ worker[w].pc \in LogPcs /\ pc \in LogPcs
        /\ Goto(w, pc)
    BY DEF SelectDomain, LogPcs
  <1>2. PICK row \in RowFound(DomainOf(w)) : locals' = [locals EXCEPT ![w].row = row]
    BY DEF SelectDomain
  <1>3. UNCHANGED <<reg, dkimKey, marks, columns, status, cache, reader, sends, events, job>>
    BY DEF SelectDomain, domainVars, mtaVars
  <1>4. row \in Row \cup {NoRow} /\ Older(row, DomainOf(w)) /\ SendOf(w) # NoSend
    BY <1>1, LoggerKnows, RowFoundOlder DEF LoggerOK
  <1>5. /\ locals' \in [Workers -> Locals] /\ \A v \in Workers : v # w => locals'[v] = locals[v]
        /\ locals'[w].row = row
    BY <1>2, <1>4, HandlerTypes DEF Locals
  <1>6. pc \notin {"findSource", "findSend", "insertSend", "updateSend", "event"} /\ pc # "return"
    OBVIOUS
  <1> HIDE DEF pc
  <1>7. LoggerOK(w)'
    BY <1>1, <1>3, <1>4, <1>5, <1>6, LoggerAt
  <1> QED
    BY <1>1, <1>3, <1>5, <1>7, LogReads

\* The row is cached, or the record is lost.
LEMMA CacheDomainKeeps ==
  ASSUME DeliverabilityInv, NEW w \in Workers, CacheDomain(w)
  PROVE  DeliverabilityInv'
  <1> DEFINE pc == AfterDomain(w)
             row == locals[w].row
  <1>1. worker[w].pc = "storeDomain" /\ worker[w].pc \in LogPcs
    BY DEF CacheDomain, LogPcs
  <1>2. CASE row = NoRow
    <2>1. /\ FailJob(w, AttemptsOf(worker[w].key)) /\ Forget(w)
          /\ UNCHANGED <<domainVars, status, reader, mtaVars>>
          /\ cache' = [cache EXCEPT ![DomainOf(w)] = NoRow]
      BY <1>2 DEF CacheDomain, Cached
    <2>2. DomainOf(w) \in Names /\ worker[w].pc # "idle"
      BY <1>1, LoggerKnows
    <2> QED
      BY <2>1, <2>2, FailStepKeeps DEF CacheKept
  <1>3. CASE row # NoRow
    <2>1. cache' = [cache EXCEPT ![DomainOf(w)] = row] /\ Goto(w, pc)
      BY <1>3 DEF CacheDomain, Cached
    <2>2. UNCHANGED <<reg, dkimKey, marks, columns, status, reader, sends, events, job, locals>>
      BY <1>3 DEF CacheDomain, domainVars, mtaVars
    <2>3. /\ SendOf(w) # NoSend /\ Older(row, DomainOf(w))
          /\ row \in Row \cup {NoRow} /\ DomainOf(w) \in Names
      BY <1>1, LoggerKnows DEF LoggerOK, Locals
    <2>4. pc \in {"findSource", "findSend"} /\ pc \in LogPcs \cup {"return"} /\ pc # "return"
      BY AfterDomainPc
    <2>5. cache' \in [Names -> Row \cup {NoRow}] /\ CacheOK'
      <3>1. \A n \in Names : cache'[n] = cache[n] \/ (n = DomainOf(w) /\ cache'[n] = row)
        BY <2>1, <2>3, HandlerTypes
      <3>2. CacheOK'
        BY <2>2, <2>3, <3>1, HandlerTypes DEF CacheOK, Older, RowsOf, Visible
      <3> QED
        BY <2>1, <2>3, <3>2, HandlerTypes
    <2>6. /\ locals' \in [Workers -> Locals] /\ \A v \in Workers : v # w => locals'[v] = locals[v]
          /\ sends' \in [SendIds -> [domain: Regs, source: Sources \cup {NoSource}] \cup {NoRow}]
          /\ \A i \in SendIds : sends[i] # NoRow => sends'[i] # NoRow
          /\ events' \in [Logs -> Nat] /\ \A l \in Logs : events'[l] >= events[l]
          /\ locals'[w].row = row
      BY <2>2, HandlerTypes
    <2> HIDE DEF pc, row
    <2>7. EventsOK'
      BY <1>1, <2>1, <2>2, <2>4, LogEvents
    <2>8. LoggerOK(w)'
      BY <1>1, <1>3, <2>1, <2>2, <2>3, <2>4, <2>6, LoggerAt
    <2> QED
      BY <1>1, <2>1, <2>2, <2>4, <2>5, <2>6, <2>7, <2>8, LogGoesOn
  <1> QED
    BY <1>2, <1>3

\* The source is looked up.
LEMMA FindSourceKeeps ==
  ASSUME DeliverabilityInv, NEW w \in Workers, FindSource(w)
  PROVE  DeliverabilityInv'
  <1> DEFINE pc == "findSend"
             s == DeliveredBy[LogOf(w)]
             source == IF status[s] = "absent" THEN NoSource ELSE s
  <1>1. /\ worker[w].pc = "findSource" /\ worker[w].pc \in LogPcs /\ pc \in LogPcs
        /\ Goto(w, pc) /\ locals' = [locals EXCEPT ![w].source = source]
    BY DEF FindSource, LogPcs
  <1>2. UNCHANGED <<reg, dkimKey, marks, columns, status, cache, reader, sends, events, job>>
    BY DEF FindSource, domainVars, mtaVars
  <1>3. /\ SendOf(w) # NoSend /\ Older(locals[w].row, DomainOf(w)) /\ locals[w].row # NoRow
        /\ source \in Sources \cup {NoSource}
    BY <1>1, LoggerKnows DEF LoggerOK
  <1>4. /\ locals' \in [Workers -> Locals] /\ \A v \in Workers : v # w => locals'[v] = locals[v]
        /\ locals'[w].row = locals[w].row
    <2> HIDE DEF source
    <2> QED
      BY <1>1, <1>3, HandlerTypes DEF Locals
  <1>5. pc \notin {"updateSend", "event"} /\ pc # "return"
    OBVIOUS
  <1> HIDE DEF pc
  <1>6. LoggerOK(w)'
    BY <1>1, <1>2, <1>3, <1>4, <1>5, LoggerAt
  <1> QED
    BY <1>1, <1>2, <1>4, <1>6, LogReads

\* The row of the message is looked up.
LEMMA FindSendKeeps ==
  ASSUME DeliverabilityInv, NEW w \in Workers, FindSend(w)
  PROVE  DeliverabilityInv'
  <1> DEFINE pc == IF sends[SendOf(w)] = NoRow THEN "insertSend" ELSE "updateSend"
  <1>1. /\ worker[w].pc = "findSend" /\ worker[w].pc \in LogPcs /\ pc \in LogPcs
        /\ Goto(w, pc)
    BY DEF FindSend, LogPcs
  <1>2. UNCHANGED <<reg, dkimKey, marks, columns, status, cache, reader, sends, events, job, locals>>
    BY DEF FindSend, domainVars, mtaVars
  <1>3. SendOf(w) # NoSend /\ Older(locals[w].row, DomainOf(w)) /\ locals[w].row # NoRow
    BY <1>1, LoggerKnows DEF LoggerOK
  <1>4. /\ pc # "return" /\ pc # "event"
        /\ pc = "updateSend" => sends[SendOf(w)] # NoRow
    OBVIOUS
  <1> HIDE DEF pc
  <1>5. locals' \in [Workers -> Locals] /\ \A v \in Workers : v # w => locals'[v] = locals[v]
    BY <1>2, HandlerTypes
  <1>6. LoggerOK(w)'
    BY <1>1, <1>2, <1>3, <1>4, LoggerAt
  <1> QED
    BY <1>1, <1>2, <1>5, <1>6, LogReads

\* A row of the message is written, and its event comes next.
LEMMA SendWritten ==
  ASSUME DeliverabilityInv, NEW w \in Workers, worker[w].pc \in {"insertSend", "updateSend"},
         Goto(w, "event"), NEW source \in Sources \cup {NoSource},
         sends' = [sends EXCEPT ![SendOf(w)] = [domain |-> locals[w].row.reg, source |-> source]],
         UNCHANGED <<reg, dkimKey, marks, columns, status, cache, reader, events, job, locals>>
  PROVE  DeliverabilityInv'
  <1> DEFINE pc == "event"
             new == [domain |-> locals[w].row.reg, source |-> source]
  <1>1. worker[w].pc \in LogPcs /\ pc \in LogPcs /\ Goto(w, pc) /\ pc # "return"
    BY DEF LogPcs
  <1>2. worker[w].pc \in LogPcs \ {"getDomain", "selectDomain"}
    BY DEF LogPcs
  <1>3. /\ SendOf(w) # NoSend /\ SendOf(w) \in SendIds /\ Older(locals[w].row, DomainOf(w))
        /\ locals[w].row # NoRow /\ locals[w].row \in Row
    BY <1>1, <1>2, LoggerKnows DEF LoggerOK, Locals
  <1>4. new \in [domain: Regs, source: Sources \cup {NoSource}]
    BY <1>3 DEF Row
  <1>5. new # NoRow
    BY <1>4, LogAssumption
  <1>6. /\ sends' \in [SendIds -> [domain: Regs, source: Sources \cup {NoSource}] \cup {NoRow}]
        /\ \A i \in SendIds : sends[i] # NoRow => sends'[i] # NoRow
        /\ sends'[SendOf(w)] # NoRow
    <2> HIDE DEF new
    <2>1. sends' = [sends EXCEPT ![SendOf(w)] = new]
      BY DEF new
    <2> QED
      BY <1>3, <1>4, <1>5, <2>1, HandlerTypes
  <1>7. /\ cache' \in [Names -> Row \cup {NoRow}]
        /\ events' \in [Logs -> Nat] /\ \A l \in Logs : events'[l] >= events[l]
        /\ locals' \in [Workers -> Locals] /\ \A v \in Workers : v # w => locals'[v] = locals[v]
    BY HandlerTypes
  <1>8. CacheOK'
    BY HandlerTypes DEF CacheOK, Older, RowsOf, Visible
  <1> HIDE DEF pc
  <1>9. EventsOK'
    BY <1>1, LogEvents
  <1>10. LoggerOK(w)'
    BY <1>1, <1>3, <1>6, LoggerAt
  <1> QED
    BY <1>1, <1>6, <1>7, <1>8, <1>9, <1>10, LogGoesOn

\* The row of the message is inserted, unless another job did meanwhile.
LEMMA InsertSendKeeps ==
  ASSUME DeliverabilityInv, NEW w \in Workers, InsertSend(w)
  PROVE  DeliverabilityInv'
  <1> DEFINE pc == "event"
             new == [domain |-> locals[w].row.reg, source |-> locals[w].source]
  <1>1. worker[w].pc = "insertSend" /\ worker[w].pc \in LogPcs
    BY DEF InsertSend, LogPcs
  <1>2. CASE sends[SendOf(w)] # NoRow
    <2>1. Fails(w)
      BY <1>2 DEF InsertSend
    <2> QED
      BY <1>1, <2>1, LoggerKnows, FailsKeeps
  <1>3. CASE sends[SendOf(w)] = NoRow
    <2>1. sends' = [sends EXCEPT ![SendOf(w)] = new] /\ Goto(w, pc)
      BY <1>3 DEF InsertSend
    <2>2. UNCHANGED <<reg, dkimKey, marks, columns, status, cache, reader, events, job, locals>>
      BY <1>3 DEF InsertSend, domainVars
    <2>3. locals[w].source \in Sources \cup {NoSource}
      BY <1>1, LoggerKnows DEF Locals
    <2> QED
      BY <1>1, <2>1, <2>2, <2>3, SendWritten
  <1> QED
    BY <1>2, <1>3

\* The row of the message is updated.
LEMMA UpdateSendKeeps ==
  ASSUME DeliverabilityInv, NEW w \in Workers, UpdateSend(w)
  PROVE  DeliverabilityInv'
  <1> DEFINE old == sends[SendOf(w)]
             new == [domain |-> locals[w].row.reg,
                     source |-> SourceKept(old.source, locals[w].source)]
  <1>1. worker[w].pc = "updateSend" /\ worker[w].pc \in LogPcs
    BY DEF UpdateSend, LogPcs
  <1>2. /\ SendOf(w) \in SendIds /\ old # NoRow
        /\ locals[w].source \in Sources \cup {NoSource}
    BY <1>1, LoggerKnows DEF LoggerOK, Locals
  <1>3. old.source \in Sources \cup {NoSource}
    BY <1>2, HandlerTypes
  <1>4. new.source \in Sources \cup {NoSource} /\ new = [domain |-> locals[w].row.reg, source |-> new.source]
    BY <1>2, <1>3 DEF SourceKept
  <1>5. Goto(w, "event") /\ sends' = [sends EXCEPT ![SendOf(w)] = new]
    BY <1>2, HandlerTypes DEF UpdateSend
  <1>6. UNCHANGED <<reg, dkimKey, marks, columns, status, cache, reader, events, job, locals>>
    BY DEF UpdateSend, domainVars
  <1> HIDE DEF new
  <1> QED
    BY <1>1, <1>4, <1>5, <1>6, SendWritten

\* The event is inserted.
LEMMA CreateEventKeeps ==
  ASSUME DeliverabilityInv, NEW w \in Workers, CreateEvent(w)
  PROVE  DeliverabilityInv'
  <1> DEFINE pc == "return"
  <1>1. worker[w].pc = "event" /\ worker[w].pc \in LogPcs
    BY DEF CreateEvent, LogPcs
  <1>2. PICK l \in Logs : l = LogOf(w)
    BY <1>1, LoggerKnows
  <1>3. /\ pc \in LogPcs \cup {"return"} /\ pc \notin LogPcs
        /\ Goto(w, pc) /\ events' = [events EXCEPT ![l] = @ + 1]
    BY <1>2, PcSets DEF CreateEvent
  <1>4. UNCHANGED <<reg, dkimKey, marks, columns, status, cache, reader, sends, job, locals>>
    BY DEF CreateEvent, domainVars
  <1>5. worker[w].key = LogJob(l) /\ sends[SendOf(w)] # NoRow
    BY <1>1, <1>2, LoggerKnows DEF LoggerOK
  <1>6. /\ events' \in [Logs -> Nat] /\ \A m \in Logs : events'[m] >= events[m]
        /\ events'[l] = events[l] + 1 /\ events'[l] >= 1 /\ events[l] \in Nat
        /\ \A m \in Logs : m # l => events'[m] = events[m]
    BY <1>3, HandlerTypes
  <1>7. EventsOK'
    <2>1. /\ \A v \in Workers : v # w => worker'[v] = worker[v]
          /\ worker'[w].pc = pc
      BY <1>3, Moved, HandlerTypes, PcSets
    <2>2. \A m \in Logs : Runners(m)' \subseteq Runners(m)
      BY <1>3, <2>1 DEF Runners
    <2>3. /\ Runners(l)' \subseteq Runners(l) \ {w} /\ w \in Runners(l)
      <3>1. w \in Runners(l)
        BY <1>1, <1>5 DEF Runners
      <3>2. w \notin Runners(l)'
        BY <1>3, <2>1 DEF Runners
      <3> QED
        BY <1>5, <2>2, <3>1, <3>2
    <2> SUFFICES ASSUME NEW m \in Logs
                 PROVE  events'[m] + Cardinality(Runners(m)') <= Starts(job[LogJob(m)])
      BY <1>4 DEF EventsOK
    <2>4. /\ events[m] + Cardinality(Runners(m)) <= Starts(job[LogJob(m)])
          /\ Starts(job[LogJob(m)]) \in Nat /\ events[m] \in Nat
          /\ IsFiniteSet(Runners(m)) /\ Cardinality(Runners(m)) \in Nat
      BY HandlerTypes, JobsOf, JobKinds, RunnersFinite DEF EventsOK
    <2>5. CASE m = l
      <3>1. /\ IsFiniteSet(Runners(m) \ {w})
            /\ Cardinality(Runners(m) \ {w}) = Cardinality(Runners(m)) - 1
        BY <2>3, <2>4, <2>5, FS_RemoveElement
      <3>2. Runners(m)' \subseteq Runners(m) \ {w}
        BY <2>3, <2>5
      <3>3. /\ Cardinality(Runners(m)') <= Cardinality(Runners(m) \ {w})
            /\ Cardinality(Runners(m)') \in Nat
        BY <3>1, <3>2, FS_Subset, FS_CardinalityType
      <3>4. events'[m] = events[m] + 1
        BY <1>6, <2>5
      <3> QED
        BY <2>4, <3>1, <3>3, <3>4
    <2>6. CASE m # l
      <3>1. /\ Cardinality(Runners(m)') <= Cardinality(Runners(m))
            /\ Cardinality(Runners(m)') \in Nat
        BY <2>2, <2>4, FS_Subset, FS_CardinalityType
      <3> QED
        BY <1>6, <2>4, <2>6, <3>1
    <2> QED
      BY <2>5, <2>6
  <1>8. /\ cache' \in [Names -> Row \cup {NoRow}]
        /\ sends' \in [SendIds -> [domain: Regs, source: Sources \cup {NoSource}] \cup {NoRow}]
        /\ \A i \in SendIds : sends[i] # NoRow => sends'[i] # NoRow
        /\ locals' \in [Workers -> Locals] /\ \A v \in Workers : v # w => locals'[v] = locals[v]
    BY <1>4, HandlerTypes
  <1>9. CacheOK'
    BY <1>4, HandlerTypes DEF CacheOK, Older, RowsOf, Visible
  <1>10. events'[LogOf(w)] >= 1 /\ sends'[SendOf(w)] # NoRow
    BY <1>2, <1>4, <1>5, <1>6
  <1>11. pc \notin {"findSource", "findSend", "insertSend", "updateSend", "event"}
    OBVIOUS
  <1> HIDE DEF pc
  <1>12. LoggerOK(w)'
    BY <1>1, <1>3, <1>4, <1>10, <1>11, LoggerAt
  <1> QED
    BY <1>1, <1>3, <1>4, <1>6, <1>7, <1>8, <1>9, <1>12, LogGoesOn

-----------------------------------------------------------------------------
(* The invariant. *)

\* Nothing is registered, read, sent or queued at first.
LEMMA DeliverabilityInvInit ==
  ASSUME Init
  PROVE  DeliverabilityInv
  <1> USE DEF Init
  <1>1. /\ \A r \in Regs : reg[r] = NoRequest /\ marks[r] = {} /\ columns[r] = NoSources
        /\ \A n \in Names : dkimKey[n] = NoReg /\ cache[n] = NoRow
        /\ \A q \in Readers : reader[q] = NotReading
        /\ \A i \in SendIds : sends[i] = NoRow
        /\ \A l \in Logs : events[l] = 0
        /\ \A k \in Keys : job[k] = Absent
        /\ \A w \in Workers : worker[w] = Idle /\ locals[w] = Blank
    OBVIOUS
  <1>2. /\ NoRequest.pc = "absent" /\ NoRequest.done = {} /\ NoRequest.seen = {}
        /\ NoRequest \in [pc: RegStates, name: Names \cup {NoName},
                          done: SUBSET {"row", "key"}, seen: SUBSET Regs]
        /\ NoSources \in [SourceColumns -> Sources \cup {NoSource}]
        /\ NotReading.pc = "idle"
        /\ NotReading \in [pc: {"idle", "missed", "read"},
                           name: Names \cup {NoName}, row: Row \cup {NoRow}]
    BY DEF NoRequest, RegStates, NoSources, NotReading
  <1>3. \A r \in Regs : ~Visible(r)
    BY <1>1, <1>2 DEF Visible
  <1>4. QueueOK
    <2>1. QueueTypes(Keys, Pcs)
      <3>1. job \in [Keys -> Job]
        <4>1. Absent \in Job
          BY DEF Absent, Job, JobStates
        <4> QED
          BY <4>1
      <3>2. worker \in [Workers -> [pc: Pcs, key: Keys \cup {NoKey}, entry: Nat]]
        BY IdleWorker, PcSets
      <3> QED
        BY <3>1, <3>2 DEF QueueTypes
    <2>2. \A k \in Keys : JobInv(job[k], AttemptsFn[k]) /\ job[k].lock \notin Workers
      <3>1. Absent.lock = NoWorker
        BY DEF Absent
      <3> QED
        BY <1>1, <3>1, FreshJobs, AttemptsPositive, QueueAssumption
    <2> QED
      BY <1>1, <2>1, <2>2, IdleRecord DEF QueueOK, QueueInv, WorkersOK, EntriesDiffer, LocksOK
  <1>5. /\ job \in [Keys -> Job] /\ worker \in [Workers -> [pc: Pcs, key: Keys \cup {NoKey}, entry: Nat]]
    BY <1>4, JobsOf
  <1>6. DeliverabilityTypeOK
    <2>1. status \in [Sources -> {"absent", "inactive", "active"}]
      BY DomainAssumption
    <2>2. /\ reg \in [Regs -> [pc: RegStates, name: Names \cup {NoName},
                               done: SUBSET {"row", "key"}, seen: SUBSET Regs]]
          /\ columns \in [Regs -> [SourceColumns -> Sources \cup {NoSource}]]
          /\ reader \in [Readers -> [pc: {"idle", "missed", "read"},
                                     name: Names \cup {NoName}, row: Row \cup {NoRow}]]
          /\ locals \in [Workers -> Locals]
      BY <1>2, IdleRecord
    <2>3. /\ dkimKey \in [Names -> Regs \cup {NoReg}] /\ marks \in [Regs -> SUBSET Records]
          /\ cache \in [Names -> Row \cup {NoRow}] /\ events \in [Logs -> Nat]
          /\ sends \in [SendIds -> [domain: Regs, source: Sources \cup {NoSource}] \cup {NoRow}]
      OBVIOUS
    <2> QED
      BY <1>5, <2>1, <2>2, <2>3 DEF DeliverabilityTypeOK, Locals
  <1>7. RegOK /\ KeysOK /\ ChecksOK /\ ChainOK /\ ReadersOK
    <2>1. RegOK /\ KeysOK
      BY <1>1, <1>2, <1>3 DEF RegOK, KeysOK
    <2>2. ChecksOK
      BY <1>1, JobKinds DEF ChecksOK
    <2>3. ChainOK
      BY <1>1, <1>2 DEF ChainOK
    <2>4. ReadersOK
      BY <1>1, <1>2 DEF ReadersOK
    <2> QED
      BY <2>1, <2>2, <2>3, <2>4
  <1>8. SourcesOnlyWhenVerified /\ CacheOK
    BY <1>1 DEF SourcesOnlyWhenVerified, CacheOK, Older
  <1>9. EventsOK
    <2>1. \A l \in Logs : Runners(l) = {}
      BY <1>1, IdleRecord, PcSets DEF Runners
    <2>2. \A l \in Logs : Starts(job[LogJob(l)]) = 0
      BY <1>1, JobKinds DEF Absent, Starts
    <2>3. \A l \in Logs : Cardinality(Runners(l)) = 0
      BY <2>1, FS_EmptySet
    <2> QED
      BY <1>1, <2>2, <2>3 DEF EventsOK
  <1>10. LogsOK
    BY <1>1, JobKinds DEF LogsOK, Absent
  <1>11. \A w \in Workers : WorkerInv(w)
    BY <1>1, IdleRecord, PcSets DEF WorkerInv, CheckerOK, LoggerOK, CheckPcs, LogPcs
  <1> QED
    BY <1>4, <1>6, <1>7, <1>8, <1>9, <1>10, <1>11 DEF DeliverabilityInv, SharedInv

\* Every step keeps the invariant.
LEMMA DeliverabilityInvStep ==
  ASSUME DeliverabilityInv, [Next]_vars
  PROVE  DeliverabilityInv'
  <1>1. ASSUME NEW r \in Regs, Registration(r)
        PROVE  DeliverabilityInv'
    BY <1>1, RegistrationStep, QueueCheckStep DEF Registration
  <1>2. ASSUME NEW s \in Sources, AddSource(s)
        PROVE  DeliverabilityInv'
    BY <1>2, CacheStep
  <1>3. ASSUME NEW l \in Logs, PostLog(l)
        PROVE  DeliverabilityInv'
    BY <1>3, PostLogStep
  <1>4. ASSUME NEW n \in Names, DkimRequest(n)
        PROVE  DeliverabilityInv'
    BY <1>4, CacheStep
  <1>5. ASSUME NEW q \in Readers,
               (\E n \in Names : MissDomain(q, n)) \/ ReadDomain(q) \/ StoreDomain(q)
        PROVE  DeliverabilityInv'
    BY <1>5, CacheStep
  <1>6. ASSUME NEW w \in Workers, CheckStep(w)
        PROVE  DeliverabilityInv'
    BY <1>6, ResolveKeeps, MarkRowsKeeps, MarkedKeeps, ReadSourcesKeeps, AssignSourcesKeeps,
       ClearDomainKeeps, SelectDomainWithDkimKeeps, RecheckKeeps DEF CheckStep
  <1>7. ASSUME NEW w \in Workers, LogStep(w)
        PROVE  DeliverabilityInv'
    BY <1>7, GetDomainKeeps, SelectDomainKeeps, CacheDomainKeeps, FindSourceKeeps, FindSendKeeps,
       InsertSendKeeps, UpdateSendKeeps, CreateEventKeeps DEF LogStep
  <1>8. ASSUME NEW w \in Workers, TakeAny(w)
        PROVE  DeliverabilityInv'
    BY <1>8, TakeKeeps
  <1>9. ASSUME NEW w \in Workers, Succeed(w)
        PROVE  DeliverabilityInv'
    BY <1>9, SucceedKeeps
  <1>10. ASSUME NEW w \in Workers, HandlerThrows(w)
         PROVE  DeliverabilityInv'
    BY <1>10, FailsKeeps DEF HandlerThrows
  <1>11. ASSUME NEW w \in Workers, Crash(w) \/ LoseLock(w)
         PROVE  DeliverabilityInv'
    BY <1>11, ReleaseKeeps
  <1>12. ASSUME RecoverAny
         PROVE  DeliverabilityInv'
    BY <1>12, RecoverKeeps
  <1>13. ASSUME UNCHANGED vars
         PROVE  DeliverabilityInv'
    <2>1. /\ UNCHANGED <<reg, dkimKey, marks, columns, mtaVars, queueVars, locals>>
          /\ UNCHANGED <<status, cache, reader>>
      BY <1>13 DEF vars, domainVars
    <2>2. /\ DeliverabilityTypeOK' /\ RegOK' /\ KeysOK' /\ CacheOK' /\ ReadersOK'
      BY <2>1 DEF DeliverabilityInv, SharedInv, DeliverabilityTypeOK, RegOK, KeysOK, CacheOK, ReadersOK,
                  Older, RowsOf, Visible, mtaVars, queueVars
    <2> QED
      BY <2>1, <2>2, RequestStep DEF Visible
  <1> QED
    BY <1>1, <1>2, <1>3, <1>4, <1>5, <1>6, <1>7, <1>8, <1>9, <1>10, <1>11, <1>12, <1>13 DEF Next

-----------------------------------------------------------------------------
(* The theorems. *)

\* Whatever requests, jobs, crashes, lost locks and stalls come between, the
\* inductive invariant holds.
THEOREM DeliverabilityInvariant == Spec => []DeliverabilityInv
  BY DeliverabilityInvInit, DeliverabilityInvStep, PTL DEF Spec

\* The variables keep their types.
THEOREM DeliverabilityTypeCorrect == Spec => []DeliverabilityTypeOK
  <1>1. DeliverabilityInv => DeliverabilityTypeOK
    BY DEF DeliverabilityInv, SharedInv
  <1> QED
    BY <1>1, DeliverabilityInvariant, PTL

\* A row that is committed has a key in Redis, its own or one that a later request
\* for the name saved over it.
THEOREM RegisteredRowsHaveKeys == Spec => []RegisteredHasKey
  <1>1. DeliverabilityInv => RegisteredHasKey
    BY DEF DeliverabilityInv, SharedInv, RegOK, KeysOK, RegisteredHasKey
  <1> QED
    BY <1>1, DeliverabilityInvariant, PTL

\* Two rows of one name come only from requests that overlapped.
THEOREM DuplicateNamesOverlapped == Spec => []NamesOverlapped
  <1>1. DeliverabilityInv => NamesOverlapped
    BY DEF DeliverabilityInv, SharedInv, RegOK, NamesOverlapped
  <1> QED
    BY <1>1, DeliverabilityInvariant, PTL

\* Sources are assigned to no domain of which the DKIM or return path record was
\* not found.
THEOREM SourcesAreVerified == Spec => []SourcesOnlyWhenVerified
  <1>1. DeliverabilityInv => SourcesOnlyWhenVerified
    BY DEF DeliverabilityInv, SharedInv
  <1> QED
    BY <1>1, DeliverabilityInvariant, PTL

\* A domain of which a record is missing keeps a check that waits, runs or failed.
THEOREM ChecksGoOn == Spec => []VerificationGoesOn
  <1>1. DeliverabilityInv => VerificationGoesOn
    <2> SUFFICES ASSUME DeliverabilityInv, NEW r \in Regs, reg[r].pc = "queued", marks[r] # Records
                 PROVE  \E i \in 0 .. Slots :
                           job[[kind |-> "check", reg |-> r, slot |-> i]].state
                              \in {"waiting", "active", "failed"}
      BY DEF VerificationGoesOn
    <2> QED
      BY DEF DeliverabilityInv, SharedInv, ChainOK, Fresh, CheckJob
  <1> QED
    BY <1>1, DeliverabilityInvariant, PTL

\* What is cached is a row of the name as it was at some time.
THEOREM CacheOnlyLags == Spec => []CachedRowIsOlder
  <1>1. DeliverabilityInv => CachedRowIsOlder
    BY DEF DeliverabilityInv, SharedInv, CacheOK, Older, CachedRowIsOlder
  <1> QED
    BY <1>1, DeliverabilityInvariant, PTL

\* A record whose job completed left its message and an event, and no more events
\* than the job has starts.
THEOREM LogsLeaveEvents == Spec => []CompletedLogHasEvent
  <1>1. DeliverabilityInv => CompletedLogHasEvent
    <2> SUFFICES ASSUME DeliverabilityInv PROVE CompletedLogHasEvent
      OBVIOUS
    <2>1. ASSUME NEW l \in Logs
          PROVE  events[l] <= MaxStarts(1)
      <3>1. /\ events[l] + Cardinality(Runners(l)) <= Starts(job[LogJob(l)])
            /\ events[l] \in Nat /\ Cardinality(Runners(l)) \in Nat
        BY HandlerTypes, RunnersFinite DEF EventsOK
      <3>2. Starts(job[LogJob(l)]) \in Nat /\ Starts(job[LogJob(l)]) <= MaxStarts(1)
        BY HandlerTypes, JobsOf, JobKinds, AttemptsPositive
      <3>3. MaxStarts(1) \in Nat
        BY QueueAssumption DEF MaxStarts
      <3> QED
        BY <3>1, <3>2, <3>3
    <2>2. \A l \in Logs : job[LogJob(l)].state = "completed" => LogDone(l)
      BY DEF DeliverabilityInv, SharedInv, LogsOK
    <2> QED
      BY <2>1, <2>2 DEF CompletedLogHasEvent, LogJob, LogDone
  <1> QED
    BY <1>1, DeliverabilityInvariant, PTL

\* Only the jobs of records write the rows of messages.
LEMMA SendsWritten ==
  ASSUME DeliverabilityInv, [Next]_vars, NEW i \in SendIds, sends[i] # NoRow,
         sends[i].source # NoSource
  PROVE  sends'[i] # NoRow /\ sends'[i].source # NoSource
  <1>1. ASSUME NEW w \in Workers, InsertSend(w), ~UNCHANGED sends
        PROVE  sends'[i] = sends[i]
    BY <1>1, HandlerTypes DEF InsertSend, Fails, mtaVars
  <1>2. ASSUME NEW w \in Workers, UpdateSend(w)
        PROVE  sends'[i] # NoRow /\ sends'[i].source # NoSource
    <2>1. CASE SendOf(w) = i
      <3> DEFINE source == SourceKept(sends[i].source, locals[w].source)
      <3>1. sends'[i] = [domain |-> locals[w].row.reg, source |-> source]
        BY <1>2, <2>1, HandlerTypes DEF UpdateSend
      <3>2. source # NoSource
        BY DEF SourceKept
      <3>3. sends'[i] # NoRow
        <4>1. worker[w].pc = "updateSend" /\ worker[w].pc \in LogPcs
              /\ worker[w].pc \in LogPcs \ {"getDomain", "selectDomain"}
          BY <1>2 DEF UpdateSend, LogPcs
        <4>2. /\ locals[w].row \in Row /\ locals[w].source \in Sources \cup {NoSource}
              /\ sends[i].source \in Sources \cup {NoSource}
          BY <4>1, LoggerKnows, HandlerTypes DEF LoggerOK, Locals
        <4>3. sends'[i] \in [domain: Regs, source: Sources \cup {NoSource}]
          BY <3>1, <4>2 DEF Row, SourceKept
        <4> QED
          BY <4>3, LogAssumption
      <3> QED
        BY <3>1, <3>2, <3>3
    <2>2. CASE SendOf(w) # i
      BY <1>2, <2>2, HandlerTypes DEF UpdateSend
    <2> QED
      BY <2>1, <2>2
  <1>3. CASE UNCHANGED sends
    BY <1>3
  <1>4. CASE ~UNCHANGED sends
    <2>1. \E w \in Workers : InsertSend(w) \/ UpdateSend(w)
      BY <1>4 DEF Next, vars, mtaVars, Registration, CheckStep, LogStep, CheckName, InsertRow,
         SaveDkim, CommitRegistration, AbortRegistration, QueueCheck, AddSource, PostLog,
         DkimRequest, MissDomain, ReadDomain, StoreDomain, TakeAny, Succeed, HandlerThrows, Fails,
         Crash, LoseLock, RecoverAny, Resolve, MarkRows, Marked, ReadSources, AssignSources,
         ClearDomain, SelectDomainWithDkim, Recheck, GetDomain, SelectDomain, CacheDomain,
         FindSource, FindSend, CreateEvent
    <2> QED
      BY <1>1, <1>2, <1>4, <2>1
  <1> QED
    BY <1>3, <1>4

\* The source a message was delivered by is not taken away by a later record.
THEOREM SourcesStay == Spec => SourceNeverForgotten
  <1>1. DeliverabilityInv /\ [Next]_vars =>
           [\A i \in SendIds :
               (sends[i] # NoRow /\ sends[i].source # NoSource) =>
                   (sends'[i] # NoRow /\ sends'[i].source # NoSource)]_vars
    BY SendsWritten
  <1> QED
    BY <1>1, DeliverabilityInvariant, PTL DEF Spec, SourceNeverForgotten
=============================================================================
