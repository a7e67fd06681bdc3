------------------------------- MODULE Teams -------------------------------
(***************************************************************************)
(* src/teams: invitations into a team, what becomes of them, and what they *)
(* let their holders do.                                                   *)
(***************************************************************************)
EXTENDS Memberships

(* POST /memberships *)

\* Mutant: invitations of those who have no user yet are not looked at.
MembershipExistsOfUser(e, t) ==
    \E i \in Rows :
        membership[i].email = e /\ membership[i].team = t /\ membership[i].user # NoUser

\* TeamMembershipRepository.membershipExists
MembershipExists(e, t) ==
    \E i \in Rows : membership[i].email = e /\ membership[i].team = t

CheckMembership(q, e, role) ==
    /\ Arrived(q, "invite")
    /\ IF CanAdministrate(q) /\ ~MembershipExists(e, request[q].team)
         THEN /\ request' = [request EXCEPT ![q].pc = "unique", ![q].email = e,
                                            ![q].role = role, ![q].seen = Rows]
              /\ UNCHANGED <<userVars, membership, expired, mail, admins>>
         ELSE Refuse(q)

\* The e-mail of the invitee may belong to a user.
FindInvitee(q) ==
    /\ request[q].pc = "unique" /\ request[q].row = NoRow
    /\ request' = [request EXCEPT ![q].row =
           [email |-> request[q].email, team |-> request[q].team,
            user |-> FindByEmail(request[q].email),
            role |-> request[q].role, status |-> "PENDING"]]
    /\ UNCHANGED <<userVars, membership, expired, mail, admins>>

InsertMembership(q) ==
    /\ request[q].pc = "unique" /\ request[q].row # NoRow
    /\ membership' = [membership EXCEPT ![q] = request[q].row]
    /\ request' = [request EXCEPT ![q].pc = "inserted"]
    /\ UNCHANGED <<userVars, expired, mail, admins>>

QueueInvite(q) ==
    /\ request[q].pc = "inserted"
    /\ mail' = [mail EXCEPT ![q] = "queued"]
    /\ request' = [request EXCEPT ![q].pc = "ok"]
    /\ UNCHANGED <<userVars, membership, expired, admins>>

\* SendTeamMemberInviteJob
FindInviteToMail(i) ==
    /\ mail[i] = "queued"
    /\ mail' = [mail EXCEPT ![i] = IF membership[i] = NoRow THEN "dropped" ELSE "found"]
    /\ UNCHANGED <<userVars, membership, expired, request, admins>>

MailToken(i) ==
    /\ mail[i] = "found"
    /\ mail' = [mail EXCEPT ![i] = "sent"]
    /\ UNCHANGED <<userVars, membership, expired, request, admins>>

\* Seven days pass.
Expire(i) ==
    /\ i \in Rows /\ i \notin expired
    /\ expired' = expired \cup {i}
    /\ UNCHANGED <<userVars, membership, mail, request, admins>>

-----------------------------------------------------------------------------
(* PUT and DELETE /memberships/:token, DELETE /memberships/:membershipId/access *)

Load(q, i) ==
    /\ request' = [request EXCEPT ![q].pc = "loaded", ![q].invite = i, ![q].row = membership[i]]
    /\ UNCHANGED <<userVars, membership, expired, mail, admins>>

OfTeam(q, i) == i \in Rows /\ membership[i].team = request[q].team

\* ensureValidInvite: the token of an invitation into this team, mailed to this user.
LoadInvite(q, i) ==
    /\ Arrived(q, "accept") \/ Arrived(q, "reject")
    /\ mail[i] = "sent"
    /\ IF OfTeam(q, i) /\ membership[i].email = EmailOf[request[q].user]
         THEN Load(q, i)
         ELSE Refuse(q)

\* revokeAccess: the member themselves, or who may administrate the team.
LoadMembership(q, i) ==
    /\ Arrived(q, "revoke")
    /\ IF OfTeam(q, i) /\ (membership[i].user = request[q].user \/ CanAdministrate(q))
         THEN Load(q, i)
         ELSE Refuse(q)

\* Mutant: the invitation as it was loaded is written back.
LinkedWhole(q) == [request[q].row EXCEPT !.user = request[q].user]

Linked(q) == [membership[request[q].invite] EXCEPT !.user = request[q].user]

\* acceptInvite gives the membership its user, if it has none, ...
LinkUser(q) ==
    /\ request[q].pc = "loaded" /\ request[q].kind = "accept"
    /\ membership' = IF request[q].row.user = NoUser /\ membership[request[q].invite] # NoRow
                       THEN [membership EXCEPT ![request[q].invite] = Linked(q)]
                       ELSE membership
    /\ request' = [request EXCEPT ![q].pc = "linked"]
    /\ UNCHANGED <<userVars, expired, mail, admins>>

\* ... and AcceptTeamMemberInviteAction makes it active, unless it expired.
Activate(q) ==
    LET i == request[q].invite
    IN  /\ request[q].pc = "linked"
        /\ IF i \in expired
             THEN Refuse(q)
             ELSE /\ IF membership[i] = NoRow
                       THEN UNCHANGED <<membership, admins>>
                       ELSE /\ membership' = [membership EXCEPT ![i].status = "ACTIVE"]
                            /\ admins' = IF membership[i].role = "ADMINISTRATOR"
                                 THEN admins \cup {<<membership[i].team, membership[i].user>>}
                                 ELSE admins
                  /\ request' = [request EXCEPT ![q].pc = "ok"]
                  /\ UNCHANGED <<userVars, expired, mail>>

\* RejectTeamMemberInviteAction and RevokeTeamMemberAccessAction
DeleteMembership(q) ==
    /\ request[q].pc = "loaded" /\ request[q].kind \in {"reject", "revoke"}
    /\ membership' = [membership EXCEPT ![request[q].invite] = NoRow]
    /\ request' = [request EXCEPT ![q].pc = "ok"]
    /\ UNCHANGED <<userVars, expired, mail, admins>>

-----------------------------------------------------------------------------
Init ==
    /\ registration = [g \in Registrations |-> "absent"]
    /\ sessions = {}
    /\ membership = [i \in Requests |-> NoRow]
    /\ expired = {}
    /\ mail = [i \in Requests |-> "none"]
    /\ apiKeys = {}
    /\ request = [q \in Requests |-> Idle]
    /\ admins = {}

Next ==
    \/ \E g \in Registrations : CheckEmail(g) \/ InsertUser(g) \/ CommitUser(g) \/ Login(g)
    \/ \E q \in Requests, kind \in Kinds, g, t \in Registrations : Arrive(q, kind, g, t)
    \/ \E q \in Requests, e \in Emails, role \in Roles : CheckMembership(q, e, role)
    \/ \E q, i \in Requests : LoadInvite(q, i) \/ LoadMembership(q, i)
    \/ \E q \in Requests :
          \/ Authorize(q) \/ CreateApiKey(q)
          \/ FindInvitee(q) \/ InsertMembership(q) \/ QueueInvite(q)
          \/ FindInviteToMail(q) \/ MailToken(q) \/ Expire(q)
          \/ LinkUser(q) \/ Activate(q) \/ DeleteMembership(q)

Spec == Init /\ [][Next]_vars

-----------------------------------------------------------------------------
(* Properties *)

TeamsTypeOK ==
    /\ registration \in [Registrations -> {"absent", "checked", "userInserted", "done", "failed"}]
    /\ sessions \subseteq {g \in Registrations : Registered(g)}
    /\ membership \in [Requests -> Row \cup {NoRow}]
    /\ expired \subseteq Requests
    /\ mail \in [Requests -> {"none", "queued", "found", "sent", "dropped"}]
    /\ apiKeys \subseteq Requests
    /\ request \in [Requests -> Request]
    /\ admins \subseteq Teams \X Registrations
    /\ \A g, h \in Registrations :
          (Registered(g) /\ Registered(h) /\ EmailOf[g] = EmailOf[h]) => g = h

(***************************************************************************)
(* A team has two memberships of one e-mail only if the requests that      *)
(* invited both looked before either row was there: no key says they are   *)
(* unique.                                                                 *)
(***************************************************************************)
MembershipsOverlapped ==
    \A i, j \in Rows :
        (i # j /\ membership[i].email = membership[j].email
               /\ membership[i].team = membership[j].team) => i \notin request[j].seen

(***************************************************************************)
(* An accept that was answered with ok leaves the membership active and    *)
(* its user a member, unless it was deleted; requests that overlap (two    *)
(* accepts, a reject, a revoke) do not put it back to pending.             *)
(***************************************************************************)
AcceptedIsMember ==
    \A q \in Requests :
        LET i == request[q].invite
        IN  (request[q].kind = "accept" /\ request[q].pc = "ok" /\ i \in Rows) =>
                membership[i].status = "ACTIVE" /\ membership[i].user = request[q].user

(***************************************************************************)
(* Whoever invited a member owns the team or has accepted an invitation as *)
(* its administrator: an invitation alone does not let them invite others. *)
(***************************************************************************)
InvitedByAdministrator ==
    \A i \in Rows :
        \/ request[i].user = membership[i].team
        \/ <<membership[i].team, request[i].user>> \in admins
=============================================================================
