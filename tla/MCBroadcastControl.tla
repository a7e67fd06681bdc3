------------------------- MODULE MCBroadcastControl -------------------------
(* TLC instance of BroadcastControl: two send requests racing two PUTs. *)
EXTENDS BroadcastControl, TLC

AnyPatch == Patch

Created == {NewRow(f) : f \in Filters}

\* Requests and editors are interchangeable; only safety is checked.
Symmetry == Permutations(Requests) \cup Permutations(Editors)
=============================================================================
