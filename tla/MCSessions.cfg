\* One request at a time, failing at any await.  All seventeen endpoints.
CONSTANTS
    Users = {u1, u2}
    Roles = {super, custom}
    SystemRoles = {super}
    SuperAdmin = super
    PermSets = {{}}
    Requests = {r1}
    Ops = {"register", "login", "refresh", "logout", "logoutAll", "forgot", "reset", "acceptInvite", "changePassword", "invite", "resendInvite", "patchUser", "toggleStatus", "createRole", "patchRole", "setPerms", "removeRole"}
    MaxRefresh = 2
    MaxLinks = 2
    MaxVersion = 2
SYMMETRY Symmetry
SPECIFICATION Spec
INVARIANTS TypeOK SuspendedIsOut OneLiveTokenPerLogin OneUsableLink
PROPERTIES ClosingEndsSessions AnAdministratorRemains
CHECK_DEADLOCK FALSE
