-------------------------- MODULE DeliveryPromise --------------------------
(***************************************************************************)
(* What sending a broadcast promises about each mail it queues, whatever   *)
(* workers, crashes and retries there are:                                 *)
(*   - nothing is sent for a task that was not queued;                     *)
(*   - a task sends at most MaxSends mails;                                *)
(*   - a mail is recorded as sent only after it was sent;                  *)
(*   - a task is reported done only once its mail was sent and recorded,   *)
(*     and a task that is over stays as it is reported.                    *)
(* A straggler may still send or record after the task is over: the        *)
(* promise bounds how often, it does not forbid it.                        *)
(***************************************************************************)
EXTENDS Naturals, FiniteSets

CONSTANTS
    Tasks,      \* what may be queued to be sent
    MaxSends    \* the mails one task may send

VARIABLES
    report,    \* report[t]: what the system says of the task
    sent,      \* sent[t]: the mails handed over for the task
    recorded   \* recorded[t]: those of them that were recorded as sent

promiseVars == <<report, sent, recorded>>

Mails == 1 .. MaxSends
Reports == {"none", "pending", "done", "failed"}

Init ==
    /\ report   = [t \in Tasks |-> "none"]
    /\ sent     = [t \in Tasks |-> {}]
    /\ recorded = [t \in Tasks |-> {}]

\* Any number of tasks may be queued at once.
Queue ==
    /\ report' \in [Tasks -> Reports]
    /\ \A t \in Tasks :
          report'[t] # report[t] => report[t] = "none" /\ report'[t] = "pending"
    /\ UNCHANGED <<sent, recorded>>

Send(t, m) ==
    /\ report[t] # "none"
    /\ m \notin sent[t]
    /\ sent' = [sent EXCEPT ![t] = @ \cup {m}]
    /\ UNCHANGED <<report, recorded>>

Record(t, m) ==
    /\ m \in sent[t]
    /\ recorded' = [recorded EXCEPT ![t] = @ \cup {m}]
    /\ UNCHANGED <<report, sent>>

ReportDone(t) ==
    /\ report[t] = "pending"
    /\ recorded[t] # {}
    /\ report' = [report EXCEPT ![t] = "done"]
    /\ UNCHANGED <<sent, recorded>>

GiveUp(t) ==
    /\ report[t] = "pending"
    /\ report' = [report EXCEPT ![t] = "failed"]
    /\ UNCHANGED <<sent, recorded>>

Next ==
    \/ Queue
    \/ \E t \in Tasks, m \in Mails : Send(t, m) \/ Record(t, m)
    \/ \E t \in Tasks : ReportDone(t) \/ GiveUp(t)

Spec == Init /\ [][Next]_promiseVars
=============================================================================
