---------------------------- MODULE MCBroadcasts ----------------------------
(* TLC instance of Broadcasts: one request and one PUT beside one worker that *)
(* pages through two contacts, one of which may come or go.                   *)
EXTENDS Broadcasts

\* A PUT that clears what Mailer needs, and one that turns it into an A/B test.
Spoil   == [fields |-> FALSE, filter |-> Keep, content |-> "partial", variants |-> Keep]
AddTest == [fields |-> TRUE,  filter |-> Keep, content |-> Keep, variants |-> "complete"]
LatePatches == {Spoil, AddTest}

ReadyDrafts == {[NewRow(f) EXCEPT !.content = "complete"] : f \in Filters}
=============================================================================
