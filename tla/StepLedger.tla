----------------------------- MODULE StepLedger -----------------------------
(***************************************************************************)
(* What running automation steps promises.  A ledger says which step is    *)
(* done for which contact (a subject).  An attempt is admitted only while  *)
(* the ledger says nothing of its subject; it then acts at most once, and  *)
(* enters the subject in the ledger only after it acted.  The ledger only  *)
(* grows, so after the first entry a subject is acted on by no more than   *)
(* the attempts that were admitted before.                                 *)
(***************************************************************************)
EXTENDS Naturals

CONSTANTS
    Subjects,   \* the contacts and steps there may be an entry for
    Attempts,   \* the attempts at running a step
    Subject(_)  \* Subject(a): what attempt a is about

VARIABLES
    ledger,     \* the subjects there is an entry for
    admitted,   \* the attempts that may act and enter
    acted,      \* the attempts that acted
    recorded    \* the attempts that made an entry

ledgerVars == <<ledger, admitted, acted, recorded>>

Init ==
    /\ ledger \subseteq Subjects
    /\ admitted = {}
    /\ acted = {}
    /\ recorded = {}

\* Any number of attempts see that there is no entry yet.
Admit ==
    /\ admitted \subseteq admitted'
    /\ \A a \in admitted' \ admitted :
          a \in Attempts /\ a \notin acted /\ Subject(a) \notin ledger
    /\ UNCHANGED <<ledger, acted, recorded>>

Act(a) ==
    /\ a \notin acted
    /\ acted' = acted \cup {a}
    /\ UNCHANGED <<ledger, admitted, recorded>>

Record(a) ==
    /\ a \in acted
    /\ admitted' = admitted \ {a}
    /\ recorded' = recorded \cup {a}
    /\ ledger' = ledger \cup {Subject(a)}
    /\ UNCHANGED acted

\* The attempt ended without an entry.
Withdraw(a) ==
    /\ admitted' = admitted \ {a}
    /\ UNCHANGED <<ledger, acted, recorded>>

\* Contacts enter an automation: their first steps are entered unseen.
Mark ==
    /\ ledger \subseteq ledger'
    /\ ledger' \subseteq Subjects
    /\ UNCHANGED <<admitted, acted, recorded>>

Next ==
    \/ Admit
    \/ \E a \in admitted : Act(a) \/ Record(a) \/ Withdraw(a)
    \/ Mark

Spec == Init /\ [][Next]_ledgerVars
=============================================================================
