------------------------------ MODULE MCTeams ------------------------------
(***************************************************************************)
(* TLC instance of Teams.  Two registrations give one e-mail; an owner     *)
(* invites it, maybe twice, before or after there is a user; the invitee   *)
(* accepts, maybe twice, while the membership is rejected or revoked, and  *)
(* may invite others.                                                      *)
(***************************************************************************)
EXTENDS Teams, TLC

CONSTANTS u1, x

MCEmailOf == [g \in Registrations |-> IF g = u1 THEN x ELSE CHOOSE e \in Emails : e # x]

Asking(kinds) == {q \in Requests : request[q].pc # "idle" /\ request[q].kind \in kinds}

Answered(q) == request[q].pc \in {"idle", "ok", "refused"}

Started(g) == registration[g] # "absent"

\* Bounds.  The owner registers first and only their team is asked about; a second
\* registration of an e-mail runs before any request.  The owner invites y, who may
\* invite x, as administrator or author, twice in all, or once when there is a reject
\* or a revoke, of which there is at most one.  What other controllers ask comes
\* alone, after an answer.  An invitation runs out with no reject or revoke about.
Bounds ==
    /\ registration[u1] = "done" \/ \A g \in Registrations \ {u1} : ~Started(g)
    /\ (\A g \in Registrations : Started(g)) => \A q \in Requests : request[q].pc = "idle"
    /\ \A g \in Registrations : registration[g] = "failed" =>
          \A q \in Requests : request[q].pc = "idle"
    /\ \A q \in Requests :
          /\ request[q].pc # "idle" => request[q].team = u1
          /\ request[q].email = x => request[q].user # u1
          /\ request[q].email # NoEmail => request[q].role \in {"ADMINISTRATOR", "AUTHOR"}
    /\ Cardinality(Asking({"invite"})) <= IF Asking({"revoke", "reject"}) = {} THEN 2 ELSE 1
    /\ Cardinality(Asking({"revoke", "reject"})) <= 1
    /\ Asking({"revoke", "reject"}) # {} => expired = {}
    /\ LET asks == Asking({"view", "author", "manage", "apiKey"})
       IN  asks # {} => Cardinality(asks) = 1 /\ \A q \in Requests \ asks : Answered(q)

Symmetry == Permutations(Requests) \cup Permutations(Registrations \ {u1})
=============================================================================
