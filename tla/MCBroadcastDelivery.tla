------------------------ MODULE MCBroadcastDelivery ------------------------
(* TLC instance of BroadcastDelivery: two workers, one of which may lose its *)
(* lock and go on while the other runs the same job again.                   *)
EXTENDS BroadcastDelivery_inv, TLC

ReadyDrafts == {[NewRow(f) EXCEPT !.content = "complete"] : f \in Filters}

\* Bound: in a behaviour at most one job stalls, as often as it may.
OneJobStalls ==
    /\ Cardinality({k \in ContactJobs : contactJob[k].stalls > 0}) <= 1
    /\ \A r \in Requests : sendJob[r].stalls > 0 =>
          \A k \in ContactJobs : contactJob[k].stalls = 0

Symmetry == Permutations(Workers)
=============================================================================
