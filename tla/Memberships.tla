---------------------------- MODULE Memberships ----------------------------
(***************************************************************************)
(* src/auth and src/teams: registration, sessions, API keys, and who is a  *)
(* member of a team.  A user and the team made with it are named by the    *)
(* registration.  Every request works on the team and the members that the *)
(* session middleware read when it arrived.                                *)
(***************************************************************************)
EXTENDS Naturals, FiniteSets

CONSTANTS
    Registrations,   \* POSTs of a user; also the users and the teams they make
    Emails,
    EmailOf,         \* EmailOf[g]: the e-mail a registration gives
    Requests,        \* requests of a session; also the memberships they create
    NoUser, NoTeam, NoRow, NoInvite, NoEmail

Kinds == {"invite", "accept", "reject", "revoke", "view", "author", "manage", "apiKey"}

Roles == {"ADMINISTRATOR", "MANAGER", "AUTHOR", "GUEST"}

ASSUME MembershipAssumption ==
    /\ EmailOf \in [Registrations -> Emails]
    /\ NoUser \notin Registrations /\ NoTeam \notin Registrations
    /\ NoInvite \notin Requests
    /\ NoEmail \notin Emails

VARIABLES
    registration,  \* registration[g]: how far it is
    sessions,      \* the users with a session
    membership,    \* membership[i]: the row that request i inserted
    expired,       \* the memberships whose invitation ran out
    mail,          \* mail[i]: the job that mails the token of membership i
    apiKeys,       \* the requests that were given an API key
    request,       \* request[q]
    admins         \* <<team, user>>: who was at some time an active administrator

userVars == <<registration, sessions, apiKeys>>
vars == <<registration, sessions, membership, expired, mail, apiKeys, request, admins>>

-----------------------------------------------------------------------------
Teams == Registrations

Row == [email: Emails, team: Teams, user: Registrations \cup {NoUser},
        role: Roles, status: {"PENDING", "ACTIVE"}]

Member == Requests \X Row

\* What a request holds: what it asks, its user, the team and the members the middleware read, and
\* the membership, invitee and rows its handler read.
Idle == [pc |-> "idle", kind |-> "view", user |-> NoUser, team |-> NoTeam, members |-> {}, invite |-> NoInvite,
         row |-> NoRow, email |-> NoEmail, role |-> "GUEST", seen |-> {}]

RequestPcs == {"idle", "arrived", "unique", "inserted", "loaded", "linked", "ok", "refused"}

Request == [pc: RequestPcs, kind: Kinds, user: Registrations \cup {NoUser}, team: Teams \cup {NoTeam},
            members: SUBSET Member, invite: Requests \cup {NoInvite},
            row: Row \cup {NoRow}, email: Emails \cup {NoEmail}, role: Roles,
            seen: SUBSET Requests]

Registered(g) == registration[g] = "done"

Taken(e) == \E g \in Registrations : Registered(g) /\ EmailOf[g] = e

\* UserRepository.findByEmail
FindByEmail(e) ==
    IF Taken(e) THEN CHOOSE g \in Registrations : Registered(g) /\ EmailOf[g] = e ELSE NoUser

Rows == {i \in Requests : membership[i] # NoRow}

\* The members TeamRepository.findById loads with team t.
MembersOf(t) == {<<i, membership[i]>> : i \in {j \in Rows : membership[j].team = t}}

Refuse(q) ==
    /\ request' = [request EXCEPT ![q].pc = "refused"]
    /\ UNCHANGED <<userVars, membership, expired, mail, admins>>

-----------------------------------------------------------------------------
(* TeamPolicy, of the team and the members a request holds *)

IsOwner(q) == request[q].team = request[q].user

\* Mutant: an invitation that was not accepted counts.
HasRolePending(q, role) ==
    \E m \in request[q].members : m[2].user = request[q].user /\ m[2].role = role

\* member.userId === userId && member.role === role && member.status === "ACTIVE"
HasRole(q, role) ==
    \E m \in request[q].members :
        m[2].user = request[q].user /\ m[2].role = role /\ m[2].status = "ACTIVE"

\* member.userId && member.role === role && member.status === "ACTIVE"
SomeoneHasRole(q, role) ==
    \E m \in request[q].members :
        m[2].user # NoUser /\ m[2].role = role /\ m[2].status = "ACTIVE"

CanAdministrate(q) == IsOwner(q) \/ HasRole(q, "ADMINISTRATOR")

CanManage(q) == SomeoneHasRole(q, "MANAGER") \/ CanAdministrate(q)

CanAuthor(q) == SomeoneHasRole(q, "AUTHOR") \/ CanManage(q)

CanView(q) == IsOwner(q) \/ \E m \in request[q].members : m[2].user = request[q].user

-----------------------------------------------------------------------------
(* Users *)

SetRegistration(g, to) == registration' = [registration EXCEPT ![g] = to]

\* CreateUserSchema: no user has the e-mail.
CheckEmail(g) ==
    /\ registration[g] = "absent"
    /\ SetRegistration(g, IF Taken(EmailOf[g]) THEN "failed" ELSE "checked")
    /\ UNCHANGED <<sessions, membership, expired, mail, apiKeys, request, admins>>

\* Mutant: the schema's check is all that keeps an e-mail unique.
InsertUserUnkeyed(g) ==
    /\ registration[g] = "checked"
    /\ SetRegistration(g, "userInserted")
    /\ UNCHANGED <<sessions, membership, expired, mail, apiKeys, request, admins>>

\* RegisterUserAction inserts the user; the unique key holds it up behind another
\* transaction that inserted the e-mail, and refuses an e-mail that is taken.
InsertUser(g) ==
    /\ registration[g] = "checked"
    /\ \A h \in Registrations : EmailOf[h] = EmailOf[g] => registration[h] # "userInserted"
    /\ SetRegistration(g, IF Taken(EmailOf[g]) THEN "failed" ELSE "userInserted")
    /\ UNCHANGED <<sessions, membership, expired, mail, apiKeys, request, admins>>

\* The team is inserted and the transaction commits, or it rolls back.
CommitUser(g) ==
    /\ registration[g] = "userInserted"
    /\ \E outcome \in {"done", "failed"} : SetRegistration(g, outcome)
    /\ UNCHANGED <<sessions, membership, expired, mail, apiKeys, request, admins>>

\* POST /auth/login
Login(g) ==
    /\ Registered(g)
    /\ sessions' = sessions \cup {g}
    /\ UNCHANGED <<registration, membership, expired, mail, apiKeys, request, admins>>

-----------------------------------------------------------------------------
(* A request arrives *)

\* UserSessionMiddleware: the user of the session, and the team that the header names.
Arrive(q, kind, g, t) ==
    /\ request[q] = Idle
    /\ g \in sessions /\ Registered(t)
    /\ request' = [request EXCEPT ![q] =
           [Idle EXCEPT !.pc = "arrived", !.kind = kind,
                        !.user = g, !.team = t, !.members = MembersOf(t)]]
    /\ UNCHANGED <<userVars, membership, expired, mail, admins>>

Arrived(q, kind) == request[q].pc = "arrived" /\ request[q].kind = kind

Allowed(q) ==
    CASE request[q].kind = "view"   -> CanView(q)
      [] request[q].kind = "author" -> CanAuthor(q)
      [] request[q].kind = "manage" -> CanManage(q)

\* ensureCanView, ensureCanAuthor and ensureCanManage of the other controllers.
Authorize(q) ==
    /\ request[q].pc = "arrived" /\ request[q].kind \in {"view", "author", "manage"}
    /\ request' = [request EXCEPT ![q].pc = IF Allowed(q) THEN "ok" ELSE "refused"]
    /\ UNCHANGED <<userVars, membership, expired, mail, admins>>

\* POST /auth/api-keys
CreateApiKey(q) ==
    /\ Arrived(q, "apiKey")
    /\ apiKeys' = apiKeys \cup {q}
    /\ request' = [request EXCEPT ![q].pc = "ok"]
    /\ UNCHANGED <<registration, sessions, membership, expired, mail, admins>>
=============================================================================
