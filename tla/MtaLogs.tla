------------------------------ MODULE MtaLogs ------------------------------
(***************************************************************************)
(* src/kumologs and src/email_sends.  The MTA posts a log record for every *)
(* event of a message; each becomes a job that finds the sender's domain   *)
(* (through the cache) and the source address, creates or updates the row  *)
(* of the message, and inserts an event.  Records of one message arrive in *)
(* any order.                                                              *)
(***************************************************************************)
EXTENDS SendingDomains

CONSTANTS
    NoSend,
    SendIdOf,     \* SendIdOf[l]: log.id, NoSend when the record has none
    SenderName,   \* SenderName[l]: the domain of log.sender
    DeliveredBy   \* DeliveredBy[l]: the source of a Delivery record's address

ASSUME LogAssumption ==
    /\ SendIdOf \in [Logs -> SendIds \cup {NoSend}]
    /\ SenderName \in [Logs -> Names]
    /\ DeliveredBy \in [Logs -> Sources \cup {NoSource}]
    /\ NoRow \notin [domain: Regs, source: Sources \cup {NoSource}]
    /\ \A l, m \in Logs :
          (SendIdOf[l] = SendIdOf[m] /\ SendIdOf[l] # NoSend) => SenderName[l] = SenderName[m]

LogOf(w)    == worker[w].key.log
SendOf(w)   == SendIdOf[LogOf(w)]
DomainOf(w) == SenderName[LogOf(w)]

\* POST /mta/logs
PostLog(l) ==
    /\ job[[kind |-> "log", log |-> l]] = Absent
    /\ Add({[kind |-> "log", log |-> l]})
    /\ UNCHANGED <<domainVars, status, cache, reader, mtaVars, worker, locals>>

-----------------------------------------------------------------------------
(* ProcessMtaLogJob.handle *)

AfterDomain(w) == IF DeliveredBy[LogOf(w)] # NoSource THEN "findSource" ELSE "findSend"

\* Without an id there is nothing to do; a cached row saves the SELECT.
GetDomain(w) ==
    LET row == cache[DomainOf(w)]
    IN  /\ worker[w].pc = "getDomain"
        /\ Goto(w, CASE SendOf(w) = NoSend -> "return"
                     [] SendOf(w) # NoSend /\ row # NoRow -> AfterDomain(w)
                     [] SendOf(w) # NoSend /\ row = NoRow -> "selectDomain")
        /\ locals' = [locals EXCEPT ![w].row = IF SendOf(w) = NoSend THEN NoRow ELSE row]
        /\ UNCHANGED <<domainVars, status, cache, reader, mtaVars, job>>

SelectDomain(w) ==
    /\ worker[w].pc = "selectDomain"
    /\ \E row \in RowFound(DomainOf(w)) : locals' = [locals EXCEPT ![w].row = row]
    /\ Goto(w, "storeDomain")
    /\ UNCHANGED <<domainVars, status, cache, reader, mtaVars, job>>

\* Cache.get stores what was selected.  A domain nobody registered is stored as an
\* empty value, then sendingDomain.id throws, and the record is lost.
CacheDomain(w) ==
    /\ worker[w].pc = "storeDomain"
    /\ cache' = Cached(DomainOf(w), locals[w].row)
    /\ \/ /\ locals[w].row # NoRow
          /\ Goto(w, AfterDomain(w))
          /\ UNCHANGED <<job, locals>>
       \/ /\ locals[w].row = NoRow
          /\ FailJob(w, AttemptsOf(worker[w].key))
          /\ Forget(w)
    /\ UNCHANGED <<domainVars, status, reader, mtaVars>>

\* findByIpv4Address, whatever the status of the source.
FindSource(w) ==
    LET s == DeliveredBy[LogOf(w)]
    IN  /\ worker[w].pc = "findSource"
        /\ locals' = [locals EXCEPT ![w].source = IF status[s] = "absent" THEN NoSource ELSE s]
        /\ Goto(w, "findSend")
        /\ UNCHANGED <<domainVars, status, cache, reader, mtaVars, job>>

\* EmailSendRepository.upsert
FindSend(w) ==
    /\ worker[w].pc = "findSend"
    /\ Goto(w, IF sends[SendOf(w)] = NoRow THEN "insertSend" ELSE "updateSend")
    /\ UNCHANGED <<domainVars, status, cache, reader, mtaVars, job, locals>>

\* Another job may have inserted the row meanwhile: sendingId is unique.
InsertSend(w) ==
    /\ worker[w].pc = "insertSend"
    /\ IF sends[SendOf(w)] # NoRow
         THEN Fails(w)
         ELSE /\ sends' = [sends EXCEPT ![SendOf(w)] =
                     [domain |-> locals[w].row.reg, source |-> locals[w].source]]
              /\ Goto(w, "event")
              /\ UNCHANGED <<domainVars, status, cache, reader, events, job, locals>>

\* Mutant: what the record does not tell is written as NULL.
SourceWritten(old, new) == new

\* removeNullUndefined
SourceKept(old, new) == IF new = NoSource THEN old ELSE new

UpdateSend(w) ==
    /\ worker[w].pc = "updateSend"
    /\ sends' = [sends EXCEPT ![SendOf(w)] =
           [domain |-> locals[w].row.reg, source |-> SourceKept(@.source, locals[w].source)]]
    /\ Goto(w, "event")
    /\ UNCHANGED <<domainVars, status, cache, reader, events, job, locals>>

\* Mutant: the event is left to the record that finds the row.
CreateEventOnce(w) ==
    /\ worker[w].pc = "event"
    /\ events' = IF sends[SendOf(w)].source = NoSource
                   THEN [events EXCEPT ![LogOf(w)] = @ + 1] ELSE events
    /\ Goto(w, "return")
    /\ UNCHANGED <<domainVars, status, cache, reader, sends, job, locals>>

\* LogTypeHandler.handleGenericEvent
CreateEvent(w) ==
    /\ worker[w].pc = "event"
    /\ events' = [events EXCEPT ![LogOf(w)] = @ + 1]
    /\ Goto(w, "return")
    /\ UNCHANGED <<domainVars, status, cache, reader, sends, job, locals>>
=============================================================================
