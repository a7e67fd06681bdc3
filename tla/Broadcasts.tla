----------------------------- MODULE Broadcasts -----------------------------
(***************************************************************************)
(* A broadcast from its draft to the mails: the HTTP requests of           *)
(* BroadcastControl and the workers of BroadcastDelivery over one row and  *)
(* one set of queues, and what the two together guarantee.                 *)
(***************************************************************************)
EXTENDS BroadcastControl, BroadcastDelivery

vars == <<row, sendJob, abTestJob, request, editor, matching, workerVars>>

Init == StateInit /\ ControlInit /\ DeliveryInit

ControlStep  == ControlNext /\ UNCHANGED <<matching, workerVars>>
DeliveryStep == DeliveryNext /\ UNCHANGED <<request, editor>>

Next == ControlStep \/ DeliveryStep

Spec == Init /\ [][Next]_vars

-----------------------------------------------------------------------------
(* Properties *)

(***************************************************************************)
(* Nobody is mailed without a send request that was accepted and queued a  *)
(* plain broadcast, or one whose API process died after queueing it.       *)
(***************************************************************************)
MailWasRequested ==
    \A k \in ContactJobs :
        mailed[k] # {} =>
            /\ request[k.request].pc \in {"added", "done", "abortedLate"}
            /\ ~request[k.request].isAbTest

(***************************************************************************)
(* "queues send email jobs for all contacts in audience for the broadcast  *)
(* based on a/b test variants" (send_ab_test_broadcast_job.spec.ts): an    *)
(* A/B test job that completed queued a job for each contact that matched. *)
(* The handler the test calls is not registered with the worker, which     *)
(* completes the job without running it.                                   *)
(***************************************************************************)
AbTestReachesContacts ==
    \A r \in Requests :
        abTestJob[r].state = "completed" =>
            \E f \in Filters : \A c \in matching[f] \ Movers :
                \E k \in ContactJobs :
                    k.request = r /\ k.contact = c /\ contactJob[k] # Absent
=============================================================================
