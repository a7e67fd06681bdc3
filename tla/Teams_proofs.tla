---------------------------- MODULE Teams_proofs ----------------------------
(***************************************************************************)
(* The safety properties of Teams for any number of registrations, e-mails *)
(* and requests.                                                           *)
(***************************************************************************)
EXTENDS Teams, TLAPS

-----------------------------------------------------------------------------
(***************************************************************************)
(* The inductive invariant.  What an accepted invitation gives rests on    *)
(* the e-mail: a user is found by it, an invitation is shown by it, and    *)
(* only one user has it.  What an administrator may do rests on rows that  *)
(* the middleware read, so those are tied to admins, which only grows.     *)
(***************************************************************************)
\* The unique key: one user for an e-mail, committed or not.
EmailHeldOnce ==
    \A g, h \in Registrations :
        /\ registration[g] \in {"userInserted", "done"}
        /\ registration[h] \in {"userInserted", "done"}
        /\ EmailOf[g] = EmailOf[h]
        => g = h

\* A request is of a user, on a team.
RequestsOfUsers ==
    \A q \in Requests :
        request[q].pc # "idle" =>
            /\ request[q].user \in Registrations /\ Registered(request[q].user)
            /\ request[q].team \in Teams

\* A row is what its request asked for; its user, if any, has its e-mail.
RowOK(i) ==
    /\ request[i].kind = "invite" /\ request[i].pc \in {"inserted", "ok"}
    /\ membership[i].email = request[i].email
    /\ membership[i].team = request[i].team
    /\ membership[i].user # NoUser =>
          /\ membership[i].user \in Registrations /\ Registered(membership[i].user)
          /\ EmailOf[membership[i].user] = membership[i].email
    /\ membership[i].status = "ACTIVE" => membership[i].user # NoUser
    /\ membership[i].status = "ACTIVE" /\ membership[i].role = "ADMINISTRATOR" =>
          <<membership[i].team, membership[i].user>> \in admins

RowsOK == \A i \in Rows : RowOK(i)

\* The members a request was given, of its team; an administrator was one.
MembersOK ==
    \A q \in Requests : \A m \in request[q].members :
        /\ m[2].team = request[q].team
        /\ m[2].status = "ACTIVE" /\ m[2].role = "ADMINISTRATOR" =>
              <<m[2].team, m[2].user>> \in admins

\* Who invites may, and the row about to be inserted is what was asked for.
InviteOK(q) ==
    /\ request[q].pc = "arrived" => request[q].row = NoRow
    /\ request[q].pc \in {"unique", "inserted"} =>
          request[q].kind = "invite" /\ request[q].email \in Emails
    /\ request[q].kind = "invite" /\ request[q].pc \in {"unique", "inserted", "ok"} =>
          \/ request[q].user = request[q].team
          \/ <<request[q].team, request[q].user>> \in admins
    /\ request[q].pc = "unique" /\ request[q].row # NoRow =>
          /\ request[q].row.email = request[q].email
          /\ request[q].row.team = request[q].team
          /\ request[q].row.status = "PENDING"
          /\ request[q].row.user # NoUser =>
                /\ request[q].row.user \in Registrations /\ Registered(request[q].row.user)
                /\ EmailOf[request[q].row.user] = request[q].email

InvitesOK == \A q \in Requests : InviteOK(q)

\* The rows a request saw were inserted, and none has the e-mail it invites.
SeenOK ==
    \A q \in Requests : \A i \in request[q].seen :
        /\ request[i].pc \in {"inserted", "ok"}
        /\ i \in Rows => ~ /\ membership[i].email = request[q].email
                           /\ membership[i].team = request[q].team

\* How far an accept is: the row it loaded still has the user's e-mail, ...
AcceptOK(q) ==
    LET i == request[q].invite
    IN  /\ request[q].pc \in {"loaded", "linked"} \/
             (request[q].kind = "accept" /\ request[q].pc = "ok") =>
             i \in Requests /\ request[i].pc \in {"inserted", "ok"}
        /\ request[q].kind = "accept" /\ request[q].pc \in {"loaded", "linked", "ok"} /\ i \in Rows =>
             /\ membership[i].email = EmailOf[request[q].user]
             /\ request[q].pc = "loaded" /\ request[q].row.user # NoUser =>
                   membership[i].user # NoUser
             /\ request[q].pc \in {"linked", "ok"} => membership[i].user = request[q].user
             /\ request[q].pc = "ok" => membership[i].status = "ACTIVE"
        /\ request[q].pc = "linked" => request[q].kind = "accept"

AcceptsOK == \A q \in Requests : AcceptOK(q)

\* The inductive invariant; the four properties follow from it.
TeamsInv ==
    /\ TeamsTypeOK
    /\ EmailHeldOnce
    /\ RequestsOfUsers
    /\ RowsOK
    /\ MembersOK
    /\ InvitesOK
    /\ SeenOK
    /\ AcceptsOK

-----------------------------------------------------------------------------
\* Every state of the run's start.
LEMMA TeamsInvInit == Init => TeamsInv
  <1> SUFFICES ASSUME Init PROVE TeamsInv
    OBVIOUS
  <1>1. Idle \in Request
    BY DEF Idle, Request, RequestPcs, Kinds, Roles
  <1>2. TeamsTypeOK
    BY <1>1 DEF Init, TeamsTypeOK, Registered
  <1>3. Rows = {}
    BY DEF Init, Rows
  <1>4. EmailHeldOnce /\ RequestsOfUsers /\ RowsOK /\ MembersOK
    BY <1>3 DEF Init, EmailHeldOnce, RequestsOfUsers, RowsOK, MembersOK, Idle
  <1>5. InvitesOK /\ SeenOK /\ AcceptsOK
    BY <1>3 DEF Init, InvitesOK, InviteOK, SeenOK, AcceptsOK, AcceptOK, Idle
  <1> QED
    BY <1>2, <1>4, <1>5 DEF TeamsInv

\* A registration goes on: committed users stay, and the key is held once.
LEMMA RegistrationStep ==
  ASSUME TeamsInv, NEW g \in Registrations,
         CheckEmail(g) \/ InsertUser(g) \/ CommitUser(g)
  PROVE  TeamsInv'
  <1> USE DEF TeamsInv
  <1>1. /\ registration' \in [Registrations -> {"absent", "checked", "userInserted", "done", "failed"}]
        /\ \A h \in Registrations : Registered(h) => Registered(h)'
        /\ UNCHANGED <<sessions, membership, expired, mail, apiKeys, request, admins>>
    BY DEF CheckEmail, InsertUser, CommitUser, SetRegistration, TeamsTypeOK, Registered
  <1>2. EmailHeldOnce'
    <2>1. CASE CheckEmail(g)
      BY <2>1 DEF CheckEmail, SetRegistration, EmailHeldOnce, TeamsTypeOK
    <2>2. CASE InsertUser(g)
      BY <2>2 DEF InsertUser, SetRegistration, EmailHeldOnce, TeamsTypeOK, Taken, Registered
    <2>3. CASE CommitUser(g)
      BY <2>3 DEF CommitUser, SetRegistration, EmailHeldOnce, TeamsTypeOK
    <2> QED
      BY <2>1, <2>2, <2>3
  <1>3. TeamsTypeOK'
    BY <1>1, <1>2 DEF TeamsTypeOK, EmailHeldOnce, Registered
  <1>4. RequestsOfUsers' /\ RowsOK' /\ MembersOK'
    BY <1>1 DEF RequestsOfUsers, RowsOK, RowOK, MembersOK, Rows
  <1>5. InvitesOK' /\ SeenOK' /\ AcceptsOK'
    BY <1>1 DEF InvitesOK, InviteOK, SeenOK, AcceptsOK, AcceptOK, Rows
  <1> QED
    BY <1>2, <1>3, <1>4, <1>5

\* Steps that touch neither users nor rows, and of the requests at most where one
\* of them is: from "inserted" to "ok", or to an answer from where it had no part.
LEMMA AnswerStep ==
  ASSUME TeamsInv, NEW q \in Requests, NEW p \in {"ok", "refused"},
         \/ request[q].pc \in {"inserted"} /\ p = "ok"
         \/ request[q].pc = "arrived" /\ p = "ok" /\ request[q].kind \in {"view", "author", "manage", "apiKey"}
         \/ request[q].pc \in {"arrived", "linked"} /\ p = "refused",
         request' = [request EXCEPT ![q].pc = p],
         UNCHANGED <<registration, membership, admins>>
  PROVE  /\ request' \in [Requests -> Request]
         /\ (EmailHeldOnce /\ RequestsOfUsers /\ RowsOK /\ MembersOK)'
         /\ (InvitesOK /\ SeenOK /\ AcceptsOK)'
  <1> USE DEF TeamsInv
  <1>1. /\ request' \in [Requests -> Request]
        /\ request'[q].pc = p /\ request'[q].kind = request[q].kind
        /\ request'[q].user = request[q].user /\ request'[q].team = request[q].team
        /\ request'[q].members = request[q].members /\ request'[q].invite = request[q].invite
        /\ request'[q].row = request[q].row /\ request'[q].email = request[q].email
        /\ request'[q].role = request[q].role /\ request'[q].seen = request[q].seen
        /\ \A r \in Requests : r # q => request'[r] = request[r]
    BY DEF TeamsTypeOK, Request, RequestPcs
  <1>2. Rows' = Rows
    BY DEF Rows
  <1>3. EmailHeldOnce' /\ RequestsOfUsers' /\ MembersOK'
    BY <1>1 DEF EmailHeldOnce, RequestsOfUsers, MembersOK, Registered
  <1>4. RowsOK'
    BY <1>1, <1>2 DEF RowsOK, RowOK, Registered, Rows
  <1>5. InvitesOK'
    BY <1>1 DEF InvitesOK, InviteOK, Registered
  <1>6. SeenOK'
    BY <1>1, <1>2 DEF SeenOK, TeamsTypeOK, Request
  <1>7. AcceptsOK'
    <2>1. request[q].pc = "inserted" => request[q].kind = "invite"
      BY DEF InvitesOK, InviteOK
    <2>2. SUFFICES ASSUME NEW r \in Requests PROVE AcceptOK(r)'
      BY DEF AcceptsOK
    <2>3. AcceptOK(r)
      BY DEF AcceptsOK
    <2>4. CASE r = q
      BY <1>1, <1>2, <2>1, <2>3, <2>4 DEF AcceptOK
    <2>5. CASE r # q
      BY <1>1, <1>2, <2>3, <2>5 DEF AcceptOK
    <2> QED
      BY <2>4, <2>5
  <1> QED
    BY <1>1, <1>3, <1>4, <1>5, <1>6, <1>7

\* Sessions, mails and expiry: no part of what the requests know.
LEMMA AsideStep ==
  ASSUME TeamsInv,
         \/ \E g \in Registrations : Login(g)
         \/ \E i \in Requests : FindInviteToMail(i) \/ MailToken(i) \/ Expire(i)
  PROVE  TeamsInv'
  <1> USE DEF TeamsInv
  <1>1. UNCHANGED <<registration, membership, request, admins>> /\ Rows' = Rows
    BY DEF Login, FindInviteToMail, MailToken, Expire, userVars, Rows
  <1>2. TeamsTypeOK'
    BY DEF Login, FindInviteToMail, MailToken, Expire, userVars, TeamsTypeOK, Registered
  <1>3. (EmailHeldOnce /\ RequestsOfUsers /\ RowsOK /\ MembersOK)'
    BY <1>1 DEF EmailHeldOnce, RequestsOfUsers, RowsOK, RowOK, MembersOK, Registered
  <1>4. (InvitesOK /\ SeenOK /\ AcceptsOK)'
    BY <1>1 DEF InvitesOK, InviteOK, SeenOK, AcceptsOK, AcceptOK, Registered
  <1> QED
    BY <1>2, <1>3, <1>4

\* A request is refused where it had not taken part, or at the end of an accept.
LEMMA RefuseStep ==
  ASSUME TeamsInv, NEW q \in Requests, Refuse(q), request[q].pc \in {"arrived", "linked"}
  PROVE  TeamsInv'
  <1>1. /\ request' = [request EXCEPT ![q].pc = "refused"]
        /\ UNCHANGED <<userVars, membership, expired, mail, admins>>
    BY DEF Refuse
  <1>2. /\ request' \in [Requests -> Request]
        /\ (EmailHeldOnce /\ RequestsOfUsers /\ RowsOK /\ MembersOK)'
        /\ (InvitesOK /\ SeenOK /\ AcceptsOK)'
    BY <1>1, AnswerStep DEF userVars
  <1>3. TeamsTypeOK'
    BY <1>1, <1>2 DEF TeamsInv, TeamsTypeOK, userVars, Registered
  <1> QED
    BY <1>2, <1>3 DEF TeamsInv

\* What other controllers ask, an API key, and the mail of an invitation.
LEMMA AnswersStep ==
  ASSUME TeamsInv, NEW q \in Requests,
         Authorize(q) \/ CreateApiKey(q) \/ QueueInvite(q)
  PROVE  TeamsInv'
  <1>1. CASE Authorize(q)
    <2>1. CASE Allowed(q)
      <3>1. /\ request' = [request EXCEPT ![q].pc = "ok"]
            /\ UNCHANGED <<userVars, membership, expired, mail, admins>>
            /\ request[q].pc = "arrived" /\ request[q].kind \in {"view", "author", "manage", "apiKey"}
        BY <1>1, <2>1 DEF Authorize
      <3>2. /\ request' \in [Requests -> Request]
            /\ (EmailHeldOnce /\ RequestsOfUsers /\ RowsOK /\ MembersOK)'
            /\ (InvitesOK /\ SeenOK /\ AcceptsOK)'
        BY <3>1, AnswerStep DEF userVars
      <3>3. TeamsTypeOK'
        BY <3>1, <3>2 DEF TeamsInv, TeamsTypeOK, userVars, Registered
      <3> QED
        BY <3>2, <3>3 DEF TeamsInv
    <2>2. CASE ~Allowed(q)
      BY <1>1, <2>2, RefuseStep DEF Authorize, Refuse
    <2> QED
      BY <2>1, <2>2
  <1>2. CASE CreateApiKey(q)
    <2>1. /\ request' = [request EXCEPT ![q].pc = "ok"]
          /\ apiKeys' = apiKeys \cup {q}
          /\ UNCHANGED <<registration, sessions, membership, expired, mail, admins>>
          /\ request[q].pc = "arrived" /\ request[q].kind \in {"view", "author", "manage", "apiKey"}
      BY <1>2 DEF CreateApiKey, Arrived
    <2>2. /\ request' \in [Requests -> Request]
          /\ (EmailHeldOnce /\ RequestsOfUsers /\ RowsOK /\ MembersOK)'
          /\ (InvitesOK /\ SeenOK /\ AcceptsOK)'
      BY <2>1, AnswerStep
    <2>3. TeamsTypeOK'
      BY <2>1, <2>2 DEF TeamsInv, TeamsTypeOK, Registered
    <2> QED
      BY <2>2, <2>3 DEF TeamsInv
  <1>3. CASE QueueInvite(q)
    <2>1. /\ request' = [request EXCEPT ![q].pc = "ok"]
          /\ mail' = [mail EXCEPT ![q] = "queued"]
          /\ UNCHANGED <<userVars, membership, expired, admins>>
          /\ request[q].pc = "inserted"
      BY <1>3 DEF QueueInvite
    <2>2. /\ request' \in [Requests -> Request]
          /\ (EmailHeldOnce /\ RequestsOfUsers /\ RowsOK /\ MembersOK)'
          /\ (InvitesOK /\ SeenOK /\ AcceptsOK)'
      BY <2>1, AnswerStep DEF userVars
    <2>3. TeamsTypeOK'
      BY <2>1, <2>2 DEF TeamsInv, TeamsTypeOK, Registered, userVars
    <2> QED
      BY <2>2, <2>3 DEF TeamsInv
  <1> QED
    BY <1>1, <1>2, <1>3

\* A request arrives with the members there are.
LEMMA ArriveStep ==
  ASSUME TeamsInv, NEW q \in Requests, NEW kind \in Kinds,
         NEW g \in Registrations, NEW t \in Registrations, Arrive(q, kind, g, t)
  PROVE  TeamsInv'
  <1> USE DEF TeamsInv
  <1> DEFINE new == [Idle EXCEPT !.pc = "arrived", !.kind = kind,
                        !.user = g, !.team = t, !.members = MembersOf(t)]
  <1>1. /\ request[q].pc = "idle" /\ Registered(g)
        /\ request' = [request EXCEPT ![q] = new]
        /\ UNCHANGED <<userVars, membership, expired, mail, admins>>
        /\ Rows' = Rows
    BY DEF Arrive, Idle, TeamsTypeOK, Rows
  <1>2. MembersOf(t) \subseteq Member
    BY DEF MembersOf, Member, Rows, TeamsTypeOK
  <1>3. /\ new.pc = "arrived" /\ new.kind = kind /\ new.user = g /\ new.team = t
        /\ new.members = MembersOf(t) /\ new.seen = {} /\ new.row = NoRow
        /\ new \in Request
    BY <1>2 DEF Idle, Request, RequestPcs, Roles, Teams
  <1> HIDE DEF new
  <1>4. /\ request' \in [Requests -> Request] /\ request'[q] = new
        /\ \A r \in Requests : r # q => request'[r] = request[r]
    BY <1>1, <1>3 DEF TeamsTypeOK
  <1>5. TeamsTypeOK'
    BY <1>1, <1>4 DEF TeamsTypeOK, userVars, Registered
  <1>6. EmailHeldOnce' /\ RequestsOfUsers'
    BY <1>1, <1>3, <1>4 DEF EmailHeldOnce, RequestsOfUsers, userVars, Registered, Teams
  <1>7. RowsOK'
    BY <1>1, <1>4 DEF RowsOK, RowOK, userVars, Registered, Rows
  <1>8. MembersOK'
    <2>1. \A m \in MembersOf(t) :
             /\ m[2].team = t
             /\ m[2].status = "ACTIVE" /\ m[2].role = "ADMINISTRATOR" =>
                   <<m[2].team, m[2].user>> \in admins
      BY DEF MembersOf, RowsOK, RowOK
    <2> QED
      BY <1>1, <1>3, <1>4, <2>1 DEF MembersOK
  <1>9. InvitesOK'
    BY <1>1, <1>3, <1>4 DEF InvitesOK, InviteOK, userVars, Registered
  <1>10. SeenOK'
    BY <1>1, <1>3, <1>4 DEF SeenOK, TeamsTypeOK, Request
  <1>11. AcceptsOK'
    <2> SUFFICES ASSUME NEW r \in Requests PROVE AcceptOK(r)'
      BY DEF AcceptsOK
    <2>1. AcceptOK(r)
      BY DEF AcceptsOK
    <2>2. CASE r = q
      BY <1>1, <1>3, <1>4, <2>2 DEF AcceptOK
    <2>3. CASE r # q
      BY <1>1, <1>3, <1>4, <2>1, <2>3 DEF AcceptOK
    <2> QED
      BY <2>2, <2>3
  <1> QED
    BY <1>5, <1>6, <1>7, <1>8, <1>9, <1>10, <1>11

\* The members a request holds let only an owner or an administrator invite.
LEMMA AdministratorsOnly ==
  ASSUME TeamsInv, NEW q \in Requests, CanAdministrate(q)
  PROVE  \/ request[q].user = request[q].team
         \/ <<request[q].team, request[q].user>> \in admins
  BY DEF TeamsInv, CanAdministrate, IsOwner, HasRole, MembersOK

\* An invitation is checked: the rows it saw do not have its e-mail.
LEMMA CheckStep ==
  ASSUME TeamsInv, NEW q \in Requests, NEW e \in Emails, NEW role \in Roles,
         CheckMembership(q, e, role)
  PROVE  TeamsInv'
  <1> USE DEF TeamsInv
  <1>1. /\ request[q].pc = "arrived" /\ request[q].kind = "invite"
    BY DEF CheckMembership, Arrived
  <1>2. CASE ~(CanAdministrate(q) /\ ~MembershipExists(e, request[q].team))
    BY <1>1, <1>2, RefuseStep DEF CheckMembership
  <1>3. CASE CanAdministrate(q) /\ ~MembershipExists(e, request[q].team)
    <2>1. /\ request' = [request EXCEPT ![q].pc = "unique", ![q].email = e,
                                        ![q].role = role, ![q].seen = Rows]
          /\ UNCHANGED <<userVars, membership, expired, mail, admins>>
          /\ Rows' = Rows
      BY <1>3 DEF CheckMembership, Rows
    <2>2. /\ request' \in [Requests -> Request]
          /\ request'[q].pc = "unique" /\ request'[q].kind = request[q].kind
          /\ request'[q].user = request[q].user /\ request'[q].team = request[q].team
          /\ request'[q].members = request[q].members
          /\ request'[q].row = request[q].row /\ request'[q].email = e
          /\ request'[q].seen = Rows
          /\ \A r \in Requests : r # q => request'[r] = request[r]
      <3> DEFINE new == [request[q] EXCEPT !.pc = "unique", !.email = e,
                                           !.role = role, !.seen = Rows]
      <3>1. request[q] \in Request /\ Rows \subseteq Requests
        BY DEF TeamsTypeOK, Rows
      <3>2. /\ new \in Request
            /\ new.pc = "unique" /\ new.kind = request[q].kind
            /\ new.user = request[q].user /\ new.team = request[q].team
            /\ new.members = request[q].members
            /\ new.row = request[q].row /\ new.email = e /\ new.seen = Rows
        BY <3>1 DEF Request, RequestPcs
      <3>3. request' = [request EXCEPT ![q] = new]
        BY <2>1, <3>1 DEF TeamsTypeOK, Request
      <3> HIDE DEF new
      <3> QED
        BY <3>2, <3>3 DEF TeamsTypeOK
    <2>3. TeamsTypeOK'
      BY <2>1, <2>2 DEF TeamsTypeOK, userVars, Registered
    <2>4. EmailHeldOnce' /\ RequestsOfUsers'
      BY <1>1, <2>1, <2>2 DEF EmailHeldOnce, RequestsOfUsers, userVars, Registered
    <2>9. MembersOK'
      <3>1. \A r \in Requests : /\ request'[r].members = request[r].members
                              /\ request'[r].team = request[r].team
        BY <2>2
      <3> QED
        BY <2>1, <3>1 DEF MembersOK
    <2>5. RowsOK'
      BY <1>1, <2>1, <2>2 DEF RowsOK, RowOK, userVars, Registered, Rows
    <2>6. InvitesOK'
      BY <1>1, <1>3, <2>1, <2>2, AdministratorsOnly
         DEF InvitesOK, InviteOK, userVars, Registered
    <2>7. SeenOK'
      <3>1. \A i \in Rows :
               /\ request[i].pc \in {"inserted", "ok"} /\ i # q
               /\ ~(membership[i].email = e /\ membership[i].team = request[q].team)
        BY <1>1, <1>3 DEF MembershipExists, RowsOK, RowOK
      <3>2. SUFFICES ASSUME NEW r \in Requests, NEW i \in request'[r].seen
                     PROVE  /\ request'[i].pc \in {"inserted", "ok"}
                            /\ i \in Rows => ~ /\ membership[i].email = request'[r].email
                                               /\ membership[i].team = request'[r].team
        BY <2>1 DEF SeenOK, Rows
      <3>3. CASE r = q
        BY <2>2, <3>1, <3>3 DEF Rows
      <3>4. CASE r # q
        BY <1>1, <2>2, <3>4 DEF SeenOK, TeamsTypeOK, Request
      <3> QED
        BY <3>3, <3>4
    <2>8. AcceptsOK'
      <3> SUFFICES ASSUME NEW r \in Requests PROVE AcceptOK(r)'
        BY DEF AcceptsOK
      <3>1. AcceptOK(r)
        BY DEF AcceptsOK
      <3>2. CASE r = q
        BY <1>1, <2>1, <2>2, <3>2 DEF AcceptOK
      <3>3. CASE r # q
        BY <1>1, <2>1, <2>2, <3>1, <3>3 DEF AcceptOK
      <3> QED
        BY <3>2, <3>3
    <2> QED
      BY <2>3, <2>4, <2>5, <2>6, <2>7, <2>8, <2>9
  <1> QED
    BY <1>2, <1>3

\* A user found by e-mail has it.
LEMMA FoundHasEmail ==
  ASSUME TeamsInv, NEW e \in Emails
  PROVE  /\ FindByEmail(e) \in Registrations \cup {NoUser}
         /\ FindByEmail(e) # NoUser =>
               Registered(FindByEmail(e)) /\ EmailOf[FindByEmail(e)] = e
  BY DEF FindByEmail, Taken

\* The invitee is looked up, and the row to insert made of it.
LEMMA FindInviteeStep ==
  ASSUME TeamsInv, NEW q \in Requests, FindInvitee(q)
  PROVE  TeamsInv'
  <1> USE DEF TeamsInv
  <1> DEFINE new == [email |-> request[q].email, team |-> request[q].team,
                     user |-> FindByEmail(request[q].email),
                     role |-> request[q].role, status |-> "PENDING"]
  <1>1. /\ request[q].pc = "unique" /\ request[q].kind = "invite"
        /\ request' = [request EXCEPT ![q].row = new]
        /\ UNCHANGED <<userVars, membership, expired, mail, admins>>
        /\ Rows' = Rows
    BY DEF FindInvitee, Rows, InvitesOK, InviteOK
  <1>2. new \in Row
    <2>1. /\ request[q].email \in Emails /\ request[q].team \in Teams
          /\ request[q].role \in Roles
      BY <1>1 DEF TeamsTypeOK, Request, RequestsOfUsers, InvitesOK, InviteOK
    <2> QED
      BY <2>1, FoundHasEmail DEF Row
  <1>3. /\ new.email = request[q].email /\ new.team = request[q].team
        /\ new.user = FindByEmail(request[q].email) /\ new.status = "PENDING"
    OBVIOUS
  <1> HIDE DEF new
  <1>4. /\ request' \in [Requests -> Request]
        /\ request'[q].pc = "unique" /\ request'[q].kind = request[q].kind
        /\ request'[q].user = request[q].user /\ request'[q].team = request[q].team
        /\ request'[q].members = request[q].members
        /\ request'[q].row = new /\ request'[q].email = request[q].email
        /\ request'[q].seen = request[q].seen
        /\ \A r \in Requests : r # q => request'[r] = request[r]
    BY <1>1, <1>2 DEF TeamsTypeOK, Request
  <1>5. TeamsTypeOK'
    BY <1>1, <1>4 DEF TeamsTypeOK, userVars, Registered
  <1>6. EmailHeldOnce' /\ RequestsOfUsers' /\ MembersOK'
    BY <1>1, <1>4 DEF EmailHeldOnce, RequestsOfUsers, MembersOK, userVars, Registered
  <1>7. RowsOK'
    BY <1>1, <1>4 DEF RowsOK, RowOK, userVars, Registered, Rows
  <1>8. InvitesOK'
    BY <1>1, <1>3, <1>4, FoundHasEmail DEF InvitesOK, InviteOK, userVars, Registered
  <1>9. SeenOK'
    BY <1>1, <1>4 DEF SeenOK, TeamsTypeOK, Request, Rows
  <1>10. AcceptsOK'
    <2> SUFFICES ASSUME NEW r \in Requests PROVE AcceptOK(r)'
      BY DEF AcceptsOK
    <2>1. AcceptOK(r)
      BY DEF AcceptsOK
    <2>2. CASE r = q
      BY <1>1, <1>4, <2>2 DEF AcceptOK
    <2>3. CASE r # q
      BY <1>1, <1>4, <2>1, <2>3 DEF AcceptOK
    <2> QED
      BY <2>2, <2>3
  <1> QED
    BY <1>5, <1>6, <1>7, <1>8, <1>9, <1>10

\* The row is inserted: who invited its e-mail before did not see it, nor it them.
LEMMA InsertStep ==
  ASSUME TeamsInv, NEW q \in Requests, InsertMembership(q)
  PROVE  TeamsInv'
  <1> USE DEF TeamsInv
  <1>1. /\ request[q].pc = "unique" /\ request[q].kind = "invite"
        /\ request[q].row # NoRow /\ request[q].row \in Row
        /\ q \notin Rows
    BY DEF InsertMembership, InvitesOK, InviteOK, RowsOK, RowOK, TeamsTypeOK, Request
  <1>2. /\ membership' = [membership EXCEPT ![q] = request[q].row]
        /\ request' = [request EXCEPT ![q].pc = "inserted"]
        /\ UNCHANGED <<userVars, expired, mail, admins>>
    BY DEF InsertMembership
  <1>3. /\ membership' \in [Requests -> Row \cup {NoRow}]
        /\ membership'[q] = request[q].row
        /\ \A i \in Requests : i # q => membership'[i] = membership[i]
        /\ Rows' = Rows \cup {q}
    BY <1>1, <1>2 DEF TeamsTypeOK, Rows
  <1>4. /\ request' \in [Requests -> Request]
        /\ request'[q].pc = "inserted" /\ request'[q].kind = request[q].kind
        /\ request'[q].user = request[q].user /\ request'[q].team = request[q].team
        /\ request'[q].members = request[q].members
        /\ request'[q].email = request[q].email /\ request'[q].seen = request[q].seen
        /\ \A r \in Requests : r # q => request'[r] = request[r]
    BY <1>2 DEF TeamsTypeOK, Request, RequestPcs
  <1>5. TeamsTypeOK'
    BY <1>2, <1>3, <1>4 DEF TeamsTypeOK, userVars, Registered
  <1>6. EmailHeldOnce' /\ RequestsOfUsers'
    BY <1>1, <1>2, <1>4 DEF EmailHeldOnce, RequestsOfUsers, userVars, Registered
  <1>11. MembersOK'
    BY <1>2, <1>4 DEF MembersOK
  <1>7. RowsOK'
    <2> SUFFICES ASSUME NEW i \in Rows' PROVE RowOK(i)'
      BY DEF RowsOK
    <2>1. CASE i = q
      BY <1>1, <1>2, <1>3, <1>4, <2>1 DEF RowOK, InvitesOK, InviteOK, userVars, Registered
    <2>2. CASE i # q
      BY <1>2, <1>3, <1>4, <2>2 DEF RowsOK, RowOK, userVars, Registered, Rows
    <2> QED
      BY <2>1, <2>2
  <1>8. InvitesOK'
    BY <1>1, <1>2, <1>4 DEF InvitesOK, InviteOK, userVars, Registered
  <1>9. SeenOK'
    BY <1>1, <1>3, <1>4 DEF SeenOK, TeamsTypeOK, Request
  <1>10. AcceptsOK'
    <2> SUFFICES ASSUME NEW r \in Requests PROVE AcceptOK(r)'
      BY DEF AcceptsOK
    <2>1. AcceptOK(r)
      BY DEF AcceptsOK
    <2>2. CASE r = q
      BY <1>1, <1>4, <2>2 DEF AcceptOK
    <2>3. CASE r # q
      BY <1>1, <1>3, <1>4, <2>1, <2>3 DEF AcceptOK
    <2> QED
      BY <2>2, <2>3
  <1> QED
    BY <1>5, <1>6, <1>7, <1>8, <1>9, <1>10, <1>11

\* A row is loaded by a request that was not refused.
LEMMA LoadStep ==
  ASSUME TeamsInv, NEW q \in Requests, NEW i \in Requests, Load(q, i), i \in Rows,
         request[q].pc = "arrived", request[q].kind \in {"accept", "reject", "revoke"},
         request[q].kind = "accept" => membership[i].email = EmailOf[request[q].user]
  PROVE  TeamsInv'
  <1> USE DEF TeamsInv
  <1>1. /\ request' = [request EXCEPT ![q].pc = "loaded", ![q].invite = i, ![q].row = membership[i]]
        /\ UNCHANGED <<userVars, membership, expired, mail, admins>>
        /\ Rows' = Rows
    BY DEF Load, Rows
  <1>2. /\ request' \in [Requests -> Request]
        /\ request'[q].pc = "loaded" /\ request'[q].kind = request[q].kind
        /\ request'[q].user = request[q].user /\ request'[q].team = request[q].team
        /\ request'[q].members = request[q].members
        /\ request'[q].row = membership[i] /\ request'[q].invite = i
        /\ request'[q].seen = request[q].seen
        /\ \A r \in Requests : r # q => request'[r] = request[r]
    <2> DEFINE new == [request[q] EXCEPT !.pc = "loaded", !.invite = i, !.row = membership[i]]
    <2>1. request[q] \in Request /\ membership[i] \in Row \cup {NoRow}
      BY DEF TeamsTypeOK
    <2>2. /\ new \in Request
          /\ new.pc = "loaded" /\ new.kind = request[q].kind
          /\ new.user = request[q].user /\ new.team = request[q].team
          /\ new.members = request[q].members
          /\ new.row = membership[i] /\ new.invite = i /\ new.seen = request[q].seen
      BY <2>1 DEF Request, RequestPcs
    <2>3. request' = [request EXCEPT ![q] = new]
      BY <1>1, <2>1 DEF TeamsTypeOK, Request
    <2> HIDE DEF new
    <2> QED
      BY <2>2, <2>3 DEF TeamsTypeOK
  <1>3. TeamsTypeOK'
    BY <1>1, <1>2 DEF TeamsTypeOK, userVars, Registered
  <1>4. EmailHeldOnce' /\ RequestsOfUsers'
    BY <1>1, <1>2 DEF EmailHeldOnce, RequestsOfUsers, userVars, Registered
  <1>5. MembersOK'
    <2>1. \A r \in Requests : /\ request'[r].members = request[r].members
                              /\ request'[r].team = request[r].team
      BY <1>2
    <2> QED
      BY <1>1, <2>1 DEF MembersOK
  <1>6. RowsOK'
    BY <1>1, <1>2 DEF RowsOK, RowOK, userVars, Registered, Rows
  <1>7. InvitesOK'
    BY <1>1, <1>2 DEF InvitesOK, InviteOK, userVars, Registered
  <1>8. SeenOK'
    <2>1. \A r \in Requests : /\ request'[r].seen = request[r].seen
                              /\ r # q => request'[r] = request[r]
      BY <1>2
    <2>2. SUFFICES ASSUME NEW r \in Requests, NEW j \in request'[r].seen
                   PROVE  /\ request'[j].pc \in {"inserted", "ok"}
                          /\ j \in Rows => ~ /\ membership[j].email = request'[r].email
                                             /\ membership[j].team = request'[r].team
      BY <1>1 DEF SeenOK, Rows
    <2>3. j \in Requests /\ j # q /\ j \in request[r].seen
      BY <2>1 DEF SeenOK, TeamsTypeOK, Request
    <2>4. request'[r].email = request[r].email /\ request'[r].team = request[r].team
      BY <1>1, <1>2 DEF TeamsTypeOK, Request
    <2> QED
      BY <1>2, <2>3, <2>4 DEF SeenOK
  <1>9. AcceptsOK'
    <2> SUFFICES ASSUME NEW r \in Requests PROVE AcceptOK(r)'
      BY DEF AcceptsOK
    <2>1. AcceptOK(r)
      BY DEF AcceptsOK
    <2>2. RowOK(i) /\ i # q
      BY DEF RowsOK, RowOK
    <2>3. CASE r = q
      BY <1>1, <1>2, <2>2, <2>3 DEF AcceptOK, RowOK
    <2>4. CASE r # q
      BY <1>1, <1>2, <2>1, <2>4 DEF AcceptOK
    <2> QED
      BY <2>3, <2>4
  <1> QED
    BY <1>3, <1>4, <1>5, <1>6, <1>7, <1>8, <1>9

\* An invitation or a membership is looked up.
LEMMA LookUpStep ==
  ASSUME TeamsInv, NEW q \in Requests, NEW i \in Requests,
         LoadInvite(q, i) \/ LoadMembership(q, i)
  PROVE  TeamsInv'
  <1>1. CASE Refuse(q)
    BY <1>1, RefuseStep DEF LoadInvite, LoadMembership, Arrived
  <1>2. CASE ~Refuse(q)
    <2>1. /\ Load(q, i) /\ i \in Rows /\ request[q].pc = "arrived"
          /\ request[q].kind \in {"accept", "reject", "revoke"}
          /\ request[q].kind = "accept" => membership[i].email = EmailOf[request[q].user]
      BY <1>2 DEF LoadInvite, LoadMembership, Arrived, OfTeam
    <2> QED
      BY <2>1, LoadStep
  <1> QED
    BY <1>1, <1>2

\* Rows that keep their e-mail, team and role, and lose neither a user nor an
\* activation: what holds of the other requests goes on holding.
RowsKept ==
    /\ membership' \in [Requests -> Row \cup {NoRow}]
    /\ Rows' \subseteq Rows
    /\ \A j \in Rows' :
          /\ membership'[j].email = membership[j].email
          /\ membership'[j].team = membership[j].team
          /\ membership'[j].role = membership[j].role
          /\ membership[j].user # NoUser => membership'[j].user = membership[j].user
          /\ membership[j].status = "ACTIVE" => membership'[j].status = "ACTIVE"

\* A step of a request that loaded a row, which keeps the rows it does not delete.
LEMMA HolderStep ==
  ASSUME TeamsInv, NEW q \in Requests, NEW p \in {"linked", "ok"},
         request[q].pc \in {"loaded", "linked"},
         request' = [request EXCEPT ![q].pc = p],
         RowsKept, RowsOK', AcceptOK(q)',
         UNCHANGED <<userVars, expired, mail>>,
         admins \subseteq admins', admins' \subseteq Teams \X Registrations,
         request[q].kind # "invite"
  PROVE  TeamsInv'
  <1> USE DEF TeamsInv
  <1>1. /\ request' \in [Requests -> Request]
        /\ request'[q].pc = p /\ request'[q].kind = request[q].kind
        /\ request'[q].user = request[q].user /\ request'[q].team = request[q].team
        /\ \A r \in Requests :
              /\ request'[r].members = request[r].members /\ request'[r].seen = request[r].seen
              /\ request'[r].team = request[r].team /\ request'[r].email = request[r].email
              /\ r # q => request'[r] = request[r]
    BY DEF TeamsTypeOK, Request, RequestPcs
  <1>2. TeamsTypeOK'
    BY <1>1 DEF TeamsTypeOK, userVars, Registered, RowsKept
  <1>3. EmailHeldOnce' /\ RequestsOfUsers'
    BY <1>1 DEF EmailHeldOnce, RequestsOfUsers, userVars, Registered
  <1>4. MembersOK'
    <2> SUFFICES ASSUME NEW r \in Requests, NEW m \in request'[r].members
                 PROVE  /\ m[2].team = request'[r].team
                        /\ m[2].status = "ACTIVE" /\ m[2].role = "ADMINISTRATOR" =>
                              <<m[2].team, m[2].user>> \in admins'
      BY DEF MembersOK
    <2>1. m \in request[r].members /\ request'[r].team = request[r].team
      BY <1>1
    <2> QED
      BY <2>1 DEF MembersOK
  <1>5. InvitesOK'
    BY <1>1 DEF InvitesOK, InviteOK, userVars, Registered
  <1>6. SeenOK'
    <2>1. SUFFICES ASSUME NEW r \in Requests, NEW j \in request'[r].seen
                   PROVE  /\ request'[j].pc \in {"inserted", "ok"}
                          /\ j \in Rows' => ~ /\ membership'[j].email = request'[r].email
                                              /\ membership'[j].team = request'[r].team
      BY DEF SeenOK
    <2>2. j \in Requests /\ j # q /\ j \in request[r].seen
      BY <1>1 DEF SeenOK, TeamsTypeOK, Request
    <2> QED
      BY <1>1, <2>2 DEF SeenOK, RowsKept
  <1>7. AcceptsOK'
    <2> SUFFICES ASSUME NEW r \in Requests, r # q PROVE AcceptOK(r)'
      BY DEF AcceptsOK
    <2>1. AcceptOK(r)
      BY DEF AcceptsOK
    <2>2. request'[r] = request[r]
      BY <1>1
    <2>3. request[r].invite \in Requests /\ request[request[r].invite].pc \in {"inserted", "ok"}
             => request'[request[r].invite] = request[request[r].invite]
      BY <1>1
    <2> DEFINE i == request[r].invite
    <2>4. i \in Rows' => /\ i \in Rows /\ membership'[i].email = membership[i].email
                         /\ membership[i].user # NoUser => membership'[i].user = membership[i].user
                         /\ membership[i].status = "ACTIVE" => membership'[i].status = "ACTIVE"
      BY DEF RowsKept
    <2>5. request[r].pc # "idle" => request[r].user # NoUser
      BY MembershipAssumption DEF RequestsOfUsers
    <2> HIDE DEF i
    <2> QED
      BY <2>1, <2>2, <2>3, <2>4, <2>5 DEF AcceptOK, i
  <1> QED
    BY <1>2, <1>3, <1>4, <1>5, <1>6, <1>7

\* A user that a row has and a request's user with its e-mail are one.
LEMMA OneUser ==
  ASSUME TeamsInv, NEW q \in Requests, NEW i \in Rows, request[q].pc # "idle",
         membership[i].user # NoUser, membership[i].email = EmailOf[request[q].user]
  PROVE  membership[i].user = request[q].user
  BY DEF TeamsInv, RowsOK, RowOK, RequestsOfUsers, EmailHeldOnce, Registered

\* An accept gives the membership its user.
LEMMA LinkStep ==
  ASSUME TeamsInv, NEW q \in Requests, LinkUser(q)
  PROVE  TeamsInv'
  <1> USE DEF TeamsInv
  <1> DEFINE i == request[q].invite
  <1>1. /\ request[q].pc = "loaded" /\ request[q].kind = "accept"
        /\ request' = [request EXCEPT ![q].pc = "linked"]
        /\ UNCHANGED <<userVars, expired, mail, admins>>
        /\ i \in Requests /\ request[i].pc \in {"inserted", "ok"} /\ i # q
        /\ i \in Rows => membership[i].email = EmailOf[request[q].user]
        /\ i \in Rows /\ request[q].row.user # NoUser => membership[i].user # NoUser
        /\ request[q].user \in Registrations /\ Registered(request[q].user)
    BY DEF LinkUser, AcceptsOK, AcceptOK, RequestsOfUsers
  <1>2. CASE request[q].row.user = NoUser /\ i \in Rows
    <2>1. membership' = [membership EXCEPT ![i] = Linked(q)]
      BY <1>2 DEF LinkUser, Rows
    <2>2. /\ membership[i] \in Row
          /\ Linked(q) = [membership[i] EXCEPT !.user = request[q].user]
      BY <1>2 DEF Linked, TeamsTypeOK, Rows
    <2>3. /\ Linked(q) \in Row
          /\ Linked(q).email = membership[i].email /\ Linked(q).team = membership[i].team
          /\ Linked(q).role = membership[i].role /\ Linked(q).status = membership[i].status
          /\ Linked(q).user = request[q].user
      BY <1>1, <2>2 DEF Row
    <2>4. membership[i].user # NoUser => membership[i].user = request[q].user
      BY <1>1, <1>2, OneUser
    <2>5. /\ membership' \in [Requests -> Row \cup {NoRow}]
          /\ membership'[i] = Linked(q)
          /\ \A j \in Requests : j # i => membership'[j] = membership[j]
          /\ Rows' \subseteq Rows
      BY <1>1, <1>2, <2>1, <2>3 DEF TeamsTypeOK, Rows
    <2>6. RowsKept
      BY <2>3, <2>4, <2>5 DEF RowsKept, Rows
    <2>7. /\ request'[q].pc = "linked" /\ request'[q].invite = i
          /\ request'[q].user = request[q].user /\ request'[q].kind = "accept"
          /\ \A r \in Requests : r # q => request'[r] = request[r]
      BY <1>1 DEF TeamsTypeOK, Request
    <2>8. RowsOK'
      <3> SUFFICES ASSUME NEW j \in Rows' PROVE RowOK(j)'
        BY DEF RowsOK
      <3>1. j \in Rows /\ RowOK(j) /\ j # q
        BY <1>1, <2>5 DEF RowsOK, RowOK
      <3>2. request'[j] = request[j]
        BY <2>7, <3>1 DEF Rows
      <3>3. CASE j = i
        <4>1. membership[i].status = "ACTIVE" => membership[i].user = request[q].user
          BY <2>4, <3>1, <3>3 DEF RowOK
        <4> QED
          BY <1>1, <1>2, <2>3, <2>5, <3>1, <3>2, <3>3, <4>1
             DEF RowOK, userVars, Registered
      <3>4. CASE j # i
        BY <1>1, <2>5, <3>1, <3>2, <3>4 DEF RowOK, userVars, Registered, Rows
      <3> QED
        BY <3>3, <3>4
    <2>9. AcceptOK(q)'
      BY <1>1, <1>2, <2>3, <2>5, <2>7 DEF AcceptOK
    <2> QED
      BY <1>1, <2>6, <2>8, <2>9, HolderStep DEF TeamsTypeOK
  <1>3. CASE ~(request[q].row.user = NoUser /\ i \in Rows)
    <2>1. membership' = membership /\ Rows' = Rows
      BY <1>1, <1>3 DEF LinkUser, Rows
    <2>2. /\ request'[q].pc = "linked" /\ request'[q].invite = i
          /\ request'[q].user = request[q].user /\ request'[q].kind = "accept"
          /\ \A r \in Requests : r # q => request'[r] = request[r]
      BY <1>1 DEF TeamsTypeOK, Request
    <2>3. RowsKept
      BY <2>1 DEF RowsKept, TeamsTypeOK
    <2>4. RowsOK'
      <3>1. \A j \in Rows : j # q /\ j \in Requests
        BY <1>1 DEF RowsOK, RowOK, Rows
      <3> QED
        BY <1>1, <2>1, <2>2, <3>1 DEF RowsOK, RowOK, userVars, Registered
    <2>5. i \in Rows => membership[i].user = request[q].user
      BY <1>1, <1>3, OneUser
    <2>6. AcceptOK(q)'
      BY <1>1, <2>1, <2>2, <2>5 DEF AcceptOK
    <2> QED
      BY <1>1, <2>3, <2>4, <2>6, HolderStep DEF TeamsTypeOK
  <1> QED
    BY <1>2, <1>3

\* The membership of an accept becomes active.
LEMMA ActivateStep ==
  ASSUME TeamsInv, NEW q \in Requests, Activate(q)
  PROVE  TeamsInv'
  <1> USE DEF TeamsInv
  <1> DEFINE i == request[q].invite
  <1>1. /\ request[q].pc = "linked" /\ request[q].kind = "accept"
        /\ i \in Requests /\ request[i].pc \in {"inserted", "ok"} /\ i # q
        /\ i \in Rows => /\ membership[i].email = EmailOf[request[q].user]
                         /\ membership[i].user = request[q].user
        /\ request[q].user \in Registrations /\ Registered(request[q].user)
    BY DEF Activate, AcceptsOK, AcceptOK, RequestsOfUsers
  <1>2. CASE i \in expired
    BY <1>1, <1>2, RefuseStep DEF Activate
  <1>3. CASE i \notin expired
    <2>1. /\ request' = [request EXCEPT ![q].pc = "ok"]
          /\ UNCHANGED <<userVars, expired, mail>>
      BY <1>3 DEF Activate
    <2>2. /\ request'[q].pc = "ok" /\ request'[q].invite = i
          /\ request'[q].user = request[q].user /\ request'[q].kind = "accept"
          /\ \A r \in Requests : r # q => request'[r] = request[r]
      BY <1>1, <2>1 DEF TeamsTypeOK, Request
    <2>3. CASE i \notin Rows
      <3>1. UNCHANGED <<membership, admins>> /\ Rows' = Rows
        BY <1>1, <1>3, <2>3 DEF Activate, Rows
      <3>2. RowsKept
        BY <3>1 DEF RowsKept, TeamsTypeOK
      <3>3. RowsOK'
        <4>1. \A j \in Rows : j # q /\ j \in Requests
          BY <1>1 DEF RowsOK, RowOK, Rows
        <4> QED
          BY <2>1, <2>2, <3>1, <4>1 DEF RowsOK, RowOK, userVars, Registered
      <3>4. AcceptOK(q)'
        BY <1>1, <2>2, <2>3, <3>1 DEF AcceptOK
      <3> QED
        BY <1>1, <2>1, <3>1, <3>2, <3>3, <3>4, HolderStep DEF TeamsTypeOK
    <2>4. CASE i \in Rows
      <3> DEFINE new == [membership[i] EXCEPT !.status = "ACTIVE"]
      <3>1. /\ membership' = [membership EXCEPT ![i].status = "ACTIVE"]
            /\ admins' = IF membership[i].role = "ADMINISTRATOR"
                           THEN admins \cup {<<membership[i].team, membership[i].user>>}
                           ELSE admins
        BY <1>3, <2>4 DEF Activate, Rows
      <3>2. membership[i] \in Row /\ RowOK(i)
        BY <2>4 DEF TeamsTypeOK, Rows, RowsOK
      <3>3. /\ new \in Row /\ new.email = membership[i].email /\ new.team = membership[i].team
            /\ new.role = membership[i].role /\ new.user = membership[i].user
            /\ new.status = "ACTIVE"
        BY <3>2 DEF Row
      <3>4. membership' = [membership EXCEPT ![i] = new]
        BY <3>1
      <3> HIDE DEF new
      <3>5. /\ membership' \in [Requests -> Row \cup {NoRow}]
            /\ membership'[i] = new
            /\ \A j \in Requests : j # i => membership'[j] = membership[j]
            /\ Rows' \subseteq Rows
        BY <1>1, <2>4, <3>3, <3>4 DEF TeamsTypeOK, Rows
      <3>6. RowsKept
        BY <3>3, <3>5 DEF RowsKept, Rows
      <3>7. /\ admins \subseteq admins' /\ admins' \subseteq Teams \X Registrations
            /\ membership[i].role = "ADMINISTRATOR" =>
                  <<membership[i].team, membership[i].user>> \in admins'
        BY <1>1, <2>4, <3>1, <3>2 DEF TeamsTypeOK, Row
      <3>8. RowsOK'
        <4> SUFFICES ASSUME NEW j \in Rows' PROVE RowOK(j)'
          BY DEF RowsOK
        <4>1. j \in Rows /\ RowOK(j) /\ j # q
          BY <1>1, <3>5 DEF RowsOK, RowOK
        <4>2. request'[j] = request[j]
          BY <2>2, <4>1 DEF Rows
        <4>3. CASE j = i
          BY <1>1, <2>1, <2>4, <3>3, <3>5, <3>7, <4>1, <4>2, <4>3, MembershipAssumption
             DEF RowOK, userVars, Registered
        <4>4. CASE j # i
          BY <2>1, <3>5, <3>7, <4>1, <4>2, <4>4 DEF RowOK, userVars, Registered, Rows
        <4> QED
          BY <4>3, <4>4
      <3>9. AcceptOK(q)'
        BY <1>1, <2>2, <2>4, <3>3, <3>5 DEF AcceptOK
      <3> QED
        BY <1>1, <2>1, <3>6, <3>7, <3>8, <3>9, HolderStep
    <2> QED
      BY <2>3, <2>4
  <1> QED
    BY <1>2, <1>3

\* A membership is deleted.
LEMMA DeleteStep ==
  ASSUME TeamsInv, NEW q \in Requests, DeleteMembership(q)
  PROVE  TeamsInv'
  <1> USE DEF TeamsInv
  <1> DEFINE i == request[q].invite
  <1>1. /\ request[q].pc = "loaded" /\ request[q].kind \in {"reject", "revoke"}
        /\ membership' = [membership EXCEPT ![i] = NoRow]
        /\ request' = [request EXCEPT ![q].pc = "ok"]
        /\ UNCHANGED <<userVars, expired, mail, admins>>
    BY DEF DeleteMembership
  <1>2. i \in Requests /\ request[i].pc \in {"inserted", "ok"}
    BY <1>1 DEF AcceptsOK, AcceptOK
  <1>3. /\ membership' \in [Requests -> Row \cup {NoRow}]
        /\ Rows' = Rows \ {i}
        /\ \A j \in Rows' : membership'[j] = membership[j]
    BY <1>1, <1>2 DEF TeamsTypeOK, Rows
  <1>4. RowsKept
    BY <1>3 DEF RowsKept
  <1>5. /\ request'[q].pc = "ok" /\ request'[q].invite = i
        /\ request'[q].kind = request[q].kind
        /\ \A r \in Requests : r # q => request'[r] = request[r]
    BY <1>1 DEF TeamsTypeOK, Request
  <1>6. RowsOK'
    <2> SUFFICES ASSUME NEW j \in Rows' PROVE RowOK(j)'
      BY DEF RowsOK
    <2>1. j \in Rows /\ RowOK(j) /\ j # q /\ j \in Requests
      BY <1>1, <1>3 DEF RowsOK, RowOK, Rows
    <2> QED
      BY <1>1, <1>3, <1>5, <2>1 DEF RowOK, userVars, Registered
  <1>7. AcceptOK(q)'
    BY <1>1, <1>5 DEF AcceptOK
  <1> QED
    BY <1>1, <1>4, <1>6, <1>7, HolderStep DEF TeamsTypeOK

\* Every step keeps the invariant.
LEMMA TeamsInvStep == TeamsInv /\ [Next]_vars => TeamsInv'
  <1> SUFFICES ASSUME TeamsInv, [Next]_vars PROVE TeamsInv'
    OBVIOUS
  <1>1. CASE UNCHANGED vars
    <2>1. Rows' = Rows
      BY <1>1 DEF vars, Rows
    <2>2. (TeamsTypeOK /\ EmailHeldOnce /\ RequestsOfUsers /\ MembersOK)'
      BY <1>1 DEF TeamsInv, vars, TeamsTypeOK, EmailHeldOnce, RequestsOfUsers, MembersOK, Registered
    <2>3. (RowsOK /\ InvitesOK /\ SeenOK /\ AcceptsOK)'
      BY <1>1, <2>1 DEF TeamsInv, vars, RowsOK, RowOK, InvitesOK, InviteOK, SeenOK,
                        AcceptsOK, AcceptOK, Registered
    <2> QED
      BY <2>2, <2>3 DEF TeamsInv
  <1>2. ASSUME NEW g \in Registrations, CheckEmail(g) \/ InsertUser(g) \/ CommitUser(g)
        PROVE  TeamsInv'
    BY <1>2, RegistrationStep
  <1>3. ASSUME NEW g \in Registrations, Login(g)
        PROVE  TeamsInv'
    BY <1>3, AsideStep
  <1>4. ASSUME NEW q \in Requests, NEW kind \in Kinds,
               NEW g \in Registrations, NEW t \in Registrations, Arrive(q, kind, g, t)
        PROVE  TeamsInv'
    BY <1>4, ArriveStep
  <1>5. ASSUME NEW q \in Requests, NEW e \in Emails, NEW role \in Roles,
               CheckMembership(q, e, role)
        PROVE  TeamsInv'
    BY <1>5, CheckStep
  <1>6. ASSUME NEW q \in Requests, NEW i \in Requests, LoadInvite(q, i) \/ LoadMembership(q, i)
        PROVE  TeamsInv'
    BY <1>6, LookUpStep
  <1>7. ASSUME NEW q \in Requests, Authorize(q) \/ CreateApiKey(q) \/ QueueInvite(q)
        PROVE  TeamsInv'
    BY <1>7, AnswersStep
  <1>8. ASSUME NEW q \in Requests, FindInviteToMail(q) \/ MailToken(q) \/ Expire(q)
        PROVE  TeamsInv'
    BY <1>8, AsideStep
  <1>9. ASSUME NEW q \in Requests, FindInvitee(q) \/ InsertMembership(q)
        PROVE  TeamsInv'
    BY <1>9, FindInviteeStep, InsertStep
  <1>10. ASSUME NEW q \in Requests, LinkUser(q) \/ Activate(q) \/ DeleteMembership(q)
         PROVE  TeamsInv'
    BY <1>10, LinkStep, ActivateStep, DeleteStep
  <1> QED
    BY <1>1, <1>2, <1>3, <1>4, <1>5, <1>6, <1>7, <1>8, <1>9, <1>10 DEF Next

\* The invariant holds of every behaviour.
THEOREM TeamsInvariant == Spec => []TeamsInv
  <1> QED
    BY TeamsInvInit, TeamsInvStep, PTL DEF Spec

-----------------------------------------------------------------------------
\* Users, rows and requests are what they should be, and an e-mail has one user.
THEOREM TeamsTypeCorrect == Spec => []TeamsTypeOK
  <1>1. TeamsInv => TeamsTypeOK
    BY DEF TeamsInv
  <1> QED
    BY <1>1, TeamsInvariant, PTL

\* Two memberships of one e-mail come of two invitations that overlapped.
THEOREM DuplicatesOverlapped == Spec => []MembershipsOverlapped
  <1>1. TeamsInv => MembershipsOverlapped
    <2> SUFFICES ASSUME TeamsInv, NEW i \in Rows, NEW j \in Rows,
                        membership[i].email = membership[j].email,
                        membership[i].team = membership[j].team,
                        i \in request[j].seen
                 PROVE  FALSE
      BY DEF MembershipsOverlapped
    <2>1. j \in Requests /\ RowOK(j)
      BY DEF TeamsInv, RowsOK, Rows
    <2> QED
      BY <2>1 DEF TeamsInv, RowOK, SeenOK
  <1> QED
    BY <1>1, TeamsInvariant, PTL

\* Who accepted is a member, until the membership is deleted.
THEOREM AcceptsStay == Spec => []AcceptedIsMember
  <1>1. TeamsInv => AcceptedIsMember
    BY DEF TeamsInv, AcceptedIsMember, AcceptsOK, AcceptOK
  <1> QED
    BY <1>1, TeamsInvariant, PTL

\* Only the owner and accepted administrators bring members into a team.
THEOREM InvitesByAdministrators == Spec => []InvitedByAdministrator
  <1>1. TeamsInv => InvitedByAdministrator
    BY DEF TeamsInv, InvitedByAdministrator, RowsOK, RowOK, InvitesOK, InviteOK, Rows
  <1> QED
    BY <1>1, TeamsInvariant, PTL
=============================================================================
