-------------------------- MODULE MCDeliverability --------------------------
(***************************************************************************)
(* TLC instance of Deliverability.  Two requests may register one name or  *)
(* two; the MTA posts the Reception and the Delivery of one message, and a *)
(* record without an id.  Either there are two active sources in each pool *)
(* or only one of them all, beside one that is still to be added.          *)
(***************************************************************************)
EXTENDS Deliverability, TLC

CONSTANTS r1, r2, n1, n2, sendA, sendB, engageA, engageB, reception, delivery, nameless, m1

MCPool == [s \in Sources |-> IF s \in {sendA, sendB} THEN "send" ELSE "engage"]

MCInitialSources ==
    {[s \in Sources |-> "active"],
     [s \in Sources |-> IF s = engageA THEN "active" ELSE "absent"]}

MCSendIdOf == [l \in Logs |-> IF l = nameless THEN NoSend ELSE m1]

MCSenderName == [l \in Logs |-> n1]

MCDeliveredBy == [l \in Logs |-> IF l = delivery THEN engageB ELSE NoSource]

Begun(keys) == \E k \in keys : job[k].state \notin {"absent", "waiting"} \/ job[k].made > 0

AtRest == {"absent", "queued", "aborted"}

Faulty(k) == job[k].stalls > 0 \/ Stalled(job[k]) \/ job[k].made > 0

\* Bounds: at most one job stalls or fails; jobs run once the requests are at rest; a
\* check finds nothing, the DKIM record, the two needed or all three; only the first
\* request's domain is checked again, and the second's is checked before it.  A fault
\* of a check is explored without readers and with one check after it.  Records of
\* the MTA arrive with one registered domain, before checks run; beside checks there
\* is at most a Delivery that is done; the nameless one is alone.  A request reads a
\* domain beside one running check.  Sources whose ties are taken either way come
\* out one way; only engageB is added, before checks.
Bounds ==
    /\ Cardinality({k \in Keys : Faulty(k)}) <= 1
    /\ Begun(Keys) => \A r \in Regs : reg[r].pc \in AtRest
    /\ \A w \in Workers : locals[w].found \in {{}, {"dkim"}, Needed, Records}
    /\ job[[kind |-> "check", reg |-> r2, slot |-> 0]].state \in {"active", "failed"} =>
          ~Begun({k \in Checks : k.reg = r1})
    /\ \A i \in 1 .. Slots : job[[kind |-> "check", reg |-> r2, slot |-> i]] = Absent
    /\ reg[r2].name # NoName => reg[r1].pc # "absent"
    /\ reg[r1].name = n2 => reg[r2].pc = "absent" /\ ~Begun(Checks)
    /\ (\E l \in Logs : job[[kind |-> "log", log |-> l]] # Absent) =>
          /\ \A r \in Regs : reg[r].pc \in AtRest
          /\ reg[r2].pc = "absent"
    /\ Begun(Checks) /\ reg[r2].pc # "absent" =>
          /\ reg[r2].pc = "queued" /\ dkimKey[reg[r2].name] = r2
          /\ \A k \in Keys : ~Faulty(k)
    /\ Begun(Checks) /\ (\E k \in Keys : Faulty(k)) =>
          /\ \A q \in Readers : reader[q].pc = "idle"
          /\ \A n \in Names : cache[n] = NoRow
          /\ job[[kind |-> "check", reg |-> r1, slot |-> 2]].state \notin {"active", "completed"}
    /\ Begun(Checks) /\ Begun(LogJobs) =>
          /\ \A q \in Readers : reader[q].pc = "idle"
          /\ \A k \in Keys : ~Faulty(k)
    /\ Begun(Checks) =>
          \A l \in Logs : \/ job[[kind |-> "log", log |-> l]] = Absent
                          \/ l = delivery /\ job[[kind |-> "log", log |-> l]] = [Added EXCEPT !.state = "completed"]
    /\ \A q \in Readers : reader[q].pc # "idle" =>
          /\ reader[q].name = n1
          /\ reg[r2].pc = "absent"
          /\ \A r \in Regs : reg[r].pc \in AtRest
          /\ ~Begun(LogJobs)
    /\ \A w \in Workers :
          /\ locals[w].pick.engage # sendB
          /\ locals[w].pick.sending = engageB => Volume(engageB) > 0
          /\ worker[w].pc \in CheckPcs => \A q \in Readers, v \in Workers \ {w} :
                 worker[v].pc \in CheckPcs => reader[q].pc = "idle"
    /\ job[[kind |-> "log", log |-> nameless]] # Absent =>
          \A l \in Logs \ {nameless} : job[[kind |-> "log", log |-> l]] = Absent
    /\ \A s \in Sources : status[s] = "inactive" => s = engageB /\ ~Begun(Checks)

Symmetry == Permutations(Workers)
=============================================================================
