------------------------------ MODULE Sessions ------------------------------
(***************************************************************************)
(* Who may act: user accounts, roles, the refresh tokens of their sessions *)
(* and the single-use links mailed to them, with the requests in flight    *)
(* taking one step for each statement that changes a row.  Any request may *)
(* fail at any await, which leaves what it has written so far: none of     *)
(* these handlers opens a transaction around its statements.               *)
(*                                                                         *)
(* The re-read and the UPDATE of a repository.save are one step here;      *)
(* LeaseHandlers takes them apart.  Expiry is left out, so every token     *)
(* lives for ever unless something kills it; expired ones are refused.     *)
(***************************************************************************)
EXTENDS Integers, Sequences, FiniteSets

CONSTANTS
    Users,        \* people, each with an e-mail address
    Roles,        \* role codes that are, or may be, created
    SystemRoles,  \* the built-in ones
    SuperAdmin,   \* role-super
    PermSets,     \* permission sets a role may be given
    Requests,     \* request slots
    Ops,          \* the endpoints being called
    MaxRefresh, MaxLinks, MaxVersion    \* bounds on what the model issues

PermKeys == {"user.create", "user.update", "role.create", "role.update", "role.delete"}

AuthEndpoints == {"register", "login", "refresh", "logout", "logoutAll", "forgot", "reset",
                  "acceptInvite", "changePassword"}

UserEndpoints == {"invite", "resendInvite", "patchUser", "toggleStatus"}

RoleEndpoints == {"createRole", "patchRole", "setPerms", "removeRole"}

ASSUME RoleAssumption ==
    /\ SuperAdmin \in SystemRoles
    /\ SystemRoles \subseteq Roles
    /\ PermSets \subseteq SUBSET PermKeys

ASSUME OpsAssumption == Ops \subseteq AuthEndpoints \cup UserEndpoints \cup RoleEndpoints

ASSUME BoundAssumption ==
    /\ IsFiniteSet(Requests)
    /\ MaxRefresh \in Nat /\ MaxLinks \in Nat /\ MaxVersion \in Nat

VARIABLES
    user,       \* users table: user -> row
    role,       \* roles table: role -> row
    refresh,    \* refresh_tokens table, in the order of issue
    link,       \* user_tokens table, in the order of issue
    access,     \* access tokens signed so far
    req,        \* request slot -> the handler's local state
    torn        \* logins of which a rotation failed half-way

rows == <<user, role, refresh, link>>
vars == <<user, role, refresh, link, access, req, torn>>

UserRow == [status : {"none", "invited", "active", "suspended"}, role : Roles,
            password : BOOLEAN, tv : Nat]

NoUser == [status |-> "none", role |-> SuperAdmin, password |-> FALSE, tv |-> 0]

RoleRow == [live : BOOLEAN, perms : SUBSET PermKeys]

NoRole == [live |-> FALSE, perms |-> {}]

\* login is the position of the token the session's first login was given.
RefreshRow == [user : Users, live : BOOLEAN, login : Nat]

LinkRow == [user : Users, purpose : {"invite", "reset"}, used : BOOLEAN]

Idle == [pc |-> "idle"]

TypeOK ==
    /\ user \in [Users -> UserRow]
    /\ role \in [Roles -> RoleRow]
    /\ \A i \in DOMAIN refresh : refresh[i] \in RefreshRow
    /\ \A k \in DOMAIN link : link[k] \in LinkRow
    /\ access \subseteq [user : Users, tv : Nat]
    /\ torn \subseteq 1..MaxRefresh
    /\ \A u \in Users : user[u].status = "none" => user[u] = NoUser
    /\ \A u \in Users : user[u].status # "none" => role[user[u].role].live

\* built-in-roles.ts: the super admin holds every key, the others none of
\* those that guard the requests modelled here.
BuiltIn(ro) == [live |-> TRUE, perms |-> IF ro = SuperAdmin THEN PermKeys ELSE {}]

NewUser(ro, status) == [status |-> status, role |-> ro, password |-> status # "invited", tv |-> 0]

\* An empty database, or the seeded one: one super admin, active, and others
\* in any state, holding roles that guard nothing modelled here.
Init ==
    /\ \/ user = [u \in Users |-> NoUser] /\ role = [ro \in Roles |-> NoRole]
       \/ /\ role \in [Roles -> {NoRole} \cup {BuiltIn(ro) : ro \in Roles}]
          /\ \A ro \in Roles : IF ro \in SystemRoles THEN role[ro] = BuiltIn(ro)
                               ELSE role[ro].perms = {}
          /\ user \in [Users -> {NoUser} \cup {NewUser(ro, s) :
                ro \in Roles, s \in {"invited", "active", "suspended"}}]
          /\ \A u \in Users : user[u] # NoUser => role[user[u].role].live
          /\ \E u \in Users : /\ user[u] = NewUser(SuperAdmin, "active")
                              /\ \A v \in Users \ {u} : user[v].role = SuperAdmin => user[v] = NoUser
    /\ refresh = <<>> /\ link = <<>> /\ access = {} /\ torn = {}
    /\ req = [r \in Requests |-> Idle]
-----------------------------------------------------------------------------
(***************************************************************************)
(* JwtStrategy.validate, on the row as it is when the request arrives, and *)
(* the permission its route is decorated with.                             *)
(***************************************************************************)
Accepted(t) == t.tv = user[t.user].tv /\ user[t.user].status = "active"

SignedIn(u) == \E t \in access : t.user = u /\ Accepted(t)

May(u, perm) == SignedIn(u) /\ perm \in role[user[u].role].perms

Begin(r, op, q) ==
    /\ op \in Ops
    /\ req[r] = Idle
    /\ req' = [req EXCEPT ![r] = q]
    /\ UNCHANGED <<rows, access, torn>>

Goto(r, pc) == req' = [req EXCEPT ![r].pc = pc]

Answer(r) == req' = [req EXCEPT ![r] = Idle]

At(r, pc) == req[r].pc = pc

\* Room for one more row, counting the requests that may still insert one.
InFlight == Cardinality({r \in Requests : req[r] # Idle})

RoomForRefresh == Len(refresh) + InFlight < MaxRefresh

RoomForLink == Len(link) + InFlight < MaxLinks

RoomForBump(u) == user[u].tv + InFlight < MaxVersion
-----------------------------------------------------------------------------
(***************************************************************************)
(* Statements several handlers share.                                      *)
(***************************************************************************)
\* issueSession: the refresh token is inserted, then an access token is
\* signed with the tokenVersion of the row as it was loaded.
OpenSession(r) ==
    /\ At(r, "signedIn")
    /\ LET u == req[r].u IN
       /\ refresh' = Append(refresh, [user |-> u, live |-> TRUE, login |-> Len(refresh) + 1])
       /\ access' = access \cup {[user |-> u, tv |-> req[r].tv]}
    /\ Answer(r)
    /\ UNCHANGED <<user, role, link, torn>>

\* The row is read again after it was inserted or activated.
ReadBack(r) ==
    /\ At(r, "stored")
    /\ req' = [req EXCEPT ![r] = [pc |-> "signedIn", u |-> @.u, tv |-> user[@.u].tv]]
    /\ UNCHANGED <<rows, access, torn>>

AllRevoked(u) ==
    [i \in DOMAIN refresh |-> IF refresh[i].user = u THEN [refresh[i] EXCEPT !.live = FALSE]
                              ELSE refresh[i]]

\* Where a handler goes on after revokeAllForUser.
AfterRevoking == [reused |-> "done", inactive |-> "done", leaving |-> "bumping",
                  passwordSet |-> "bumping", suspending |-> "saving"]

RevokeAllForUser(r) ==
    /\ req[r].pc \in DOMAIN AfterRevoking
    /\ refresh' = AllRevoked(req[r].u)
    /\ IF AfterRevoking[req[r].pc] = "done" THEN Answer(r) ELSE Goto(r, AfterRevoking[req[r].pc])
    /\ UNCHANGED <<user, role, link, access, torn>>

\* MUTANT of BumpTokenVersion: the token version stays.
KeepTokenVersion(r) ==
    /\ At(r, "bumping")
    /\ Answer(r)
    /\ UNCHANGED <<rows, access, torn>>

\* The last statement of logout-all, reset-password and change-password.
BumpTokenVersion(r) ==
    /\ At(r, "bumping")
    /\ user' = [user EXCEPT ![req[r].u].tv = @ + 1]
    /\ Answer(r)
    /\ UNCHANGED <<role, refresh, link, access, torn>>

\* setPassword: an UPDATE of the password and, for an invite, the status.
SetPassword(r) ==
    /\ req[r].pc \in {"resetting", "accepting"}
    /\ LET u == req[r].u IN
       IF At(r, "accepting")
       THEN /\ user' = [user EXCEPT ![u].password = TRUE, ![u].status = "active"]
            /\ Goto(r, "stored")
       ELSE /\ user' = [user EXCEPT ![u].password = TRUE]
            /\ Goto(r, "passwordSet")
    /\ UNCHANGED <<role, refresh, link, access, torn>>

\* MUTANT of RetireLinks: links issued earlier stay good.
KeepLinks(r) ==
    /\ At(r, "retiring")
    /\ Goto(r, "linking")
    /\ UNCHANGED <<rows, access, torn>>

\* issueUserToken: links of the same purpose are marked used, then a new one
\* is inserted and mailed.
RetireLinks(r) ==
    /\ At(r, "retiring")
    /\ link' = [k \in DOMAIN link |->
                  IF link[k].user = req[r].u /\ link[k].purpose = req[r].purpose
                  THEN [link[k] EXCEPT !.used = TRUE] ELSE link[k]]
    /\ Goto(r, "linking")
    /\ UNCHANGED <<user, role, refresh, access, torn>>

InsertLink(r) ==
    /\ At(r, "linking")
    /\ link' = Append(link, [user |-> req[r].u, purpose |-> req[r].purpose, used |-> FALSE])
    /\ Answer(r)
    /\ UNCHANGED <<user, role, refresh, access, torn>>
-----------------------------------------------------------------------------
(***************************************************************************)
(* AuthService.                                                            *)
(***************************************************************************)
\* POST /auth/register: open while there is no user.
CountUsers(r, u) ==
    /\ \A v \in Users : user[v].status = "none"
    /\ RoomForRefresh
    /\ Begin(r, "register", [pc |-> "counted", u |-> u])

InstallRoles(r) ==
    /\ At(r, "counted")
    /\ role' = [ro \in Roles |-> IF ro \in SystemRoles THEN BuiltIn(ro) ELSE role[ro]]
    /\ Goto(r, "rolesInstalled")
    /\ UNCHANGED <<user, refresh, link, access, torn>>

\* createUser: refused when the e-mail address is taken.
InsertFirstUser(r) ==
    /\ At(r, "rolesInstalled")
    /\ user[req[r].u].status = "none"
    /\ user' = [user EXCEPT ![req[r].u] = NewUser(SuperAdmin, "active")]
    /\ Goto(r, "stored")
    /\ UNCHANGED <<role, refresh, link, access, torn>>

\* POST /auth/login with the right password.
ReadForLogin(r, u) ==
    /\ user[u].status = "active" /\ user[u].password
    /\ RoomForRefresh
    /\ Begin(r, "login", [pc |-> "signedIn", u |-> u, tv |-> user[u].tv])

\* POST /auth/refresh with token i: spent ones are taken for stolen.
ReadRefreshToken(r, i) ==
    /\ RoomForRefresh
    /\ Begin(r, "refresh", [pc |-> IF refresh[i].live THEN "rotating" ELSE "reused",
                            u |-> refresh[i].user, i |-> i])

IssueSuccessor(r) ==
    /\ At(r, "rotating")
    /\ refresh' = Append(refresh, [user |-> req[r].u, live |-> TRUE, login |-> refresh[req[r].i].login])
    /\ Goto(r, "succeeded")
    /\ UNCHANGED <<user, role, link, access, torn>>

\* MUTANT of SpendToken: the presented token is not revoked.
SpendNothing(r) ==
    /\ At(r, "succeeded")
    /\ Goto(r, "rotated")
    /\ UNCHANGED <<rows, access, torn>>

SpendToken(r) ==
    /\ At(r, "succeeded")
    /\ refresh' = [refresh EXCEPT ![req[r].i].live = FALSE]
    /\ Goto(r, "rotated")
    /\ UNCHANGED <<user, role, link, access, torn>>

\* The user is read after the rotation; one that is not active loses all.
SignRefreshed(r) ==
    /\ At(r, "rotated")
    /\ LET u == req[r].u IN
       IF user[u].status = "active"
       THEN access' = access \cup {[user |-> u, tv |-> user[u].tv]} /\ Answer(r)
       ELSE UNCHANGED access /\ Goto(r, "inactive")
    /\ UNCHANGED <<rows, torn>>

\* POST /auth/logout: one UPDATE.
Logout(r, i) ==
    /\ "logout" \in Ops
    /\ req[r] = Idle
    /\ refresh' = [refresh EXCEPT ![i].live = FALSE]
    /\ UNCHANGED <<user, role, link, access, req, torn>>

LogoutAll(r, u) ==
    /\ SignedIn(u)
    /\ RoomForBump(u)
    /\ Begin(r, "logoutAll", [pc |-> "leaving", u |-> u])

ChangePassword(r, u) ==
    /\ SignedIn(u) /\ user[u].password
    /\ RoomForBump(u)
    /\ Begin(r, "changePassword", [pc |-> "resetting", u |-> u])

ForgotPassword(r, u) ==
    /\ user[u].status \notin {"none", "suspended"}
    /\ RoomForLink
    /\ Begin(r, "forgot", [pc |-> "retiring", u |-> u, purpose |-> "reset"])

\* POST /auth/reset-password and /auth/accept-invite with link k.
ReadLink(r, k) ==
    LET u == link[k].user IN
    /\ ~link[k].used
    /\ RoomForRefresh /\ RoomForBump(u)
    /\ Begin(r, IF link[k].purpose = "reset" THEN "reset" ELSE "acceptInvite",
             [pc |-> "redeeming", u |-> u, k |-> k])

RedeemLink(r) ==
    /\ At(r, "redeeming")
    /\ link' = [link EXCEPT ![req[r].k].used = TRUE]
    /\ Goto(r, IF link[req[r].k].purpose = "reset" THEN "resetting" ELSE "accepting")
    /\ UNCHANGED <<user, role, refresh, access, torn>>
-----------------------------------------------------------------------------
(***************************************************************************)
(* UsersService; a is the signed-in user who asks.                         *)
(***************************************************************************)
Invite(r, a, u, ro) ==
    /\ May(a, "user.create")
    /\ user[u].status = "none" /\ role[ro].live
    /\ RoomForLink
    /\ Begin(r, "invite", [pc |-> "inviting", u |-> u, role |-> ro])

InsertInvited(r) ==
    /\ At(r, "inviting")
    /\ user[req[r].u].status = "none" /\ role[req[r].role].live
    /\ user' = [user EXCEPT ![req[r].u] = NewUser(req[r].role, "invited")]
    /\ req' = [req EXCEPT ![r] = [pc |-> "retiring", u |-> @.u, purpose |-> "invite"]]
    /\ UNCHANGED <<role, refresh, link, access, torn>>

ResendInvite(r, a, u) ==
    /\ May(a, "user.create")
    /\ user[u].status = "invited"
    /\ RoomForLink
    /\ Begin(r, "resendInvite", [pc |-> "retiring", u |-> u, purpose |-> "invite"])

\* MUTANT of MayApply: one's own account can be suspended as well.
MayApplyToAnyone(a, u, s) == s # user[u].status => ~(s = "active" /\ user[u].status = "invited")

\* applyStatus refuses to suspend oneself or to activate an invited user; it
\* is only called when the status changes.
MayApply(a, u, s) ==
    s # user[u].status => /\ a = u => s = "active"
                          /\ ~(s = "active" /\ user[u].status = "invited")

\* MUTANT of WithStatus: suspension leaves the token version.
WithStatusOnly(row, s) == [row EXCEPT !.status = s]

WithStatus(row, s) ==
    [row EXCEPT !.status = s,
                !.tv = IF s = "suspended" /\ row.status # s THEN @ + 1 ELSE @]

\* Loads the row and edits the copy; suspending revokes before it saves.
Edit(r, op, u, ro, s) ==
    /\ s = "suspended" => RoomForBump(u)
    /\ Begin(r, op, [pc  |-> IF s = "suspended" /\ user[u].status # s THEN "suspending" ELSE "saving",
                     u   |-> u,
                     row |-> [WithStatus(user[u], s) EXCEPT !.role = ro]])

\* PATCH /users/:code; ro and s are the present ones when not given.
PatchUser(r, a, u, ro, s) ==
    /\ May(a, "user.update")
    /\ user[u].status # "none" /\ role[ro].live
    /\ a = u => ro = user[u].role
    /\ MayApply(a, u, s)
    /\ Edit(r, "patchUser", u, ro, s)

\* POST /users/:code/toggle-status.
ToggleStatus(r, a, u) ==
    LET next == IF user[u].status = "active" THEN "suspended" ELSE "active" IN
    /\ May(a, "user.update")
    /\ user[u].status \in {"active", "suspended"}
    /\ MayApply(a, u, next)
    /\ Edit(r, "toggleStatus", u, user[u].role, next)

\* users.save(loaded): every column that differs from the row is written,
\* whoever changed it since, the password among them; the role must still
\* exist.
SaveUser(r) ==
    /\ At(r, "saving")
    /\ role[req[r].row.role].live
    /\ user' = [user EXCEPT ![req[r].u] = req[r].row]
    /\ Answer(r)
    /\ UNCHANGED <<role, refresh, link, access, torn>>
-----------------------------------------------------------------------------
(***************************************************************************)
(* RolesService.                                                           *)
(***************************************************************************)
CreateRole(r, a, ro, perms) ==
    /\ May(a, "role.create")
    /\ ~role[ro].live /\ ro \notin SystemRoles
    /\ Begin(r, "createRole", [pc |-> "roleSaving", role |-> ro, perms |-> perms])

\* A new name or description; the permissions are those just loaded.
PatchRole(r, a, ro) ==
    /\ May(a, "role.update") /\ role[ro].live
    /\ Begin(r, "patchRole", [pc |-> "roleSaving", role |-> ro, perms |-> role[ro].perms])

SetPerms(r, a, ro, perms) ==
    /\ May(a, "role.update") /\ role[ro].live
    /\ Begin(r, "setPerms", [pc |-> "roleSaving", role |-> ro, perms |-> perms])

SaveRole(r) ==
    /\ At(r, "roleSaving")
    /\ role' = [role EXCEPT ![req[r].role] = [live |-> TRUE, perms |-> req[r].perms]]
    /\ Answer(r)
    /\ UNCHANGED <<user, refresh, link, access, torn>>

\* MUTANT of Holders: only active users are counted.
ActiveHolders(ro) == {u \in Users : user[u].status = "active" /\ user[u].role = ro}

Holders(ro) == {u \in Users : user[u].status # "none" /\ user[u].role = ro}

RemoveRole(r, a, ro) ==
    /\ May(a, "role.delete")
    /\ role[ro].live /\ ro \notin SystemRoles /\ Holders(ro) = {}
    /\ Begin(r, "removeRole", [pc |-> "roleRemoving", role |-> ro])

\* The foreign key of users refuses to delete a role somebody holds by now.
DeleteRole(r) ==
    /\ At(r, "roleRemoving")
    /\ Holders(req[r].role) = {}
    /\ role' = [role EXCEPT ![req[r].role] = NoRole]
    /\ Answer(r)
    /\ UNCHANGED <<user, refresh, link, access, torn>>
-----------------------------------------------------------------------------
\* Any await may fail.  A rotation that fails after the successor's insert
\* leaves two live tokens.
Fail(r) ==
    /\ req[r] # Idle
    /\ torn' = IF At(r, "succeeded") THEN torn \cup {refresh[req[r].i].login} ELSE torn
    /\ Answer(r)
    /\ UNCHANGED <<rows, access>>

Arrive(r) ==
    \/ \E u \in Users : \/ CountUsers(r, u) \/ ReadForLogin(r, u) \/ LogoutAll(r, u)
                        \/ ChangePassword(r, u) \/ ForgotPassword(r, u)
    \/ \E i \in DOMAIN refresh : ReadRefreshToken(r, i) \/ Logout(r, i)
    \/ \E k \in DOMAIN link : ReadLink(r, k)
    \/ \E a \in Users :
          \/ \E u \in Users : ResendInvite(r, a, u) \/ ToggleStatus(r, a, u)
          \/ \E u \in Users, ro \in Roles : Invite(r, a, u, ro)
          \/ \E u \in Users, ro \in Roles, s \in {"invited", "active", "suspended"} :
                PatchUser(r, a, u, ro, s)
          \/ \E ro \in Roles : PatchRole(r, a, ro) \/ RemoveRole(r, a, ro)
          \/ \E ro \in Roles, perms \in PermSets :
                CreateRole(r, a, ro, perms) \/ SetPerms(r, a, ro, perms)

Advance(r) ==
    \/ OpenSession(r) \/ ReadBack(r) \/ RevokeAllForUser(r) \/ BumpTokenVersion(r)
    \/ SetPassword(r) \/ RetireLinks(r) \/ InsertLink(r)
    \/ InstallRoles(r) \/ InsertFirstUser(r)
    \/ IssueSuccessor(r) \/ SpendToken(r) \/ SignRefreshed(r) \/ RedeemLink(r)
    \/ InsertInvited(r) \/ SaveUser(r) \/ SaveRole(r) \/ DeleteRole(r)

Next == \E r \in Requests : Arrive(r) \/ Advance(r) \/ Fail(r)

Spec == Init /\ [][Next]_vars
-----------------------------------------------------------------------------
LiveOf(u) == {i \in DOMAIN refresh : refresh[i].user = u /\ refresh[i].live}

\* Nothing of the user's sessions works, now or after a reactivation.
SignedOut(u) == LiveOf(u) = {} /\ \A t \in access : t.user = u => t.tv < user[u].tv

\* A suspended user has no session left, not even one that would come back to
\* life with the account: revocation, version and status are written by two
\* statements, and other requests issue tokens before and after.
SuspendedIsOut == \A u \in Users : user[u].status = "suspended" => SignedOut(u)

\* logout-all, reset and change-password are answered only when every session
\* of the user is dead, the one that asked included.
ClosingEndsSessions ==
    [][\A r \in Requests, u \in Users :
          BumpTokenVersion(r) /\ req[r].u = u => SignedOut(u)']_vars

\* A login has one refresh token that works, however often it was rotated,
\* unless a rotation is, or failed, between its two statements.
OneLiveTokenPerLogin ==
    \A i, j \in DOMAIN refresh :
       refresh[i].live /\ refresh[j].live /\ refresh[i].login = refresh[j].login =>
          \/ i = j
          \/ refresh[i].login \in torn
          \/ \E r \in Requests : At(r, "succeeded") /\ refresh[req[r].i].login = refresh[i].login

\* A user has at most one link of each purpose that can still be redeemed.
OneUsableLink ==
    \A j, k \in DOMAIN link :
       ~link[j].used /\ ~link[k].used /\ link[j].user = link[k].user
          /\ link[j].purpose = link[k].purpose => j = k

Admins == {u \in Users : user[u].status = "active" /\ "user.update" \in role[user[u].role].perms}

\* Whatever administrators do to each other's accounts, one who can undo it
\* remains; only editing the roles' permissions can lock everybody out.
AnAdministratorRemains ==
    [][Admins # {} /\ role' = role => Admins' # {}]_vars

\* UsersService.applyStatus's comment: suspension kills any access token
\* already in flight.  A save of the row as loaded before the suspension
\* restores both status and version.
KilledTokensStayDead ==
    [][\A t \in access : user[t.user].status = "suspended" => ~Accepted(t)']_vars
=============================================================================
