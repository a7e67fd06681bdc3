SPECIFICATION Spec
CONSTRAINT Bounds
SYMMETRY Symmetry
CONSTANTS
    Registrations = {u1, u2, u3}
    u1 = u1
    x = x
    Emails = {x, y}
    EmailOf <- MCEmailOf
    Requests = {q1, q2, q3, q4}
    NoUser = NoUser
    NoTeam = NoTeam
    NoRow = NoRow
    NoInvite = NoInvite
    NoEmail = NoEmail
CHECK_DEADLOCK FALSE
INVARIANTS TeamsTypeOK MembershipsOverlapped AcceptedIsMember InvitedByAdministrator
