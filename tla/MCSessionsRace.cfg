\* Two requests in flight; the endpoints that edit a user's row.
CONSTANTS
    Users = {u1, u2}
    Roles = {super}
    SystemRoles = {super}
    SuperAdmin = super
    PermSets = {}
    Requests = {r1, r2}
    Ops = {"login", "invite", "acceptInvite", "patchUser", "toggleStatus"}
    MaxRefresh = 4
    MaxLinks = 3
    MaxVersion = 2
SPECIFICATION Spec
PROPERTY KilledTokensStayDead
CHECK_DEADLOCK FALSE
