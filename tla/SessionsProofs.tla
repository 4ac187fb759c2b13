---------------------------- MODULE SessionsProofs ----------------------------
(***************************************************************************)
(* What is proved of Sessions.  For any number of requests in flight: the  *)
(* types, that no user's role is ever deleted, and that the rows a handler *)
(* refers to exist.  For requests that run one at a time, each of which    *)
(* may fail at any await: what suspension, logout-all, rotation, links and *)
(* the editing of administrators promise.                                  *)
(***************************************************************************)
EXTENDS Sessions, SequenceTheorems, FiniteSetTheorems, TLAPS

Known(u) == user[u].status # "none"

KnownRow == {row \in UserRow : row.status # "none"}

PlainPcs == {"counted", "rolesInstalled", "stored", "leaving", "resetting", "passwordSet",
             "bumping"}

TokenPcs == {"rotating", "reused", "succeeded", "rotated", "inactive"}

RedeemPcs == {"redeeming", "resetting", "passwordSet", "bumping", "accepting", "stored"}

\* What a handler remembers at each of its awaits.
Local ==
    {Idle}
    \cup [pc : PlainPcs, u : Users]
    \cup [pc : TokenPcs, u : Users, i : Nat]
    \cup [pc : RedeemPcs, u : Users, k : Nat]
    \cup [pc : {"signedIn"}, u : Users, tv : Nat]
    \cup [pc : {"retiring", "linking"}, u : Users, purpose : {"invite", "reset"}]
    \cup [pc : {"inviting"}, u : Users, role : Roles]
    \cup [pc : {"suspending", "saving"}, u : Users, row : KnownRow]
    \cup [pc : {"roleSaving"}, role : Roles, perms : SUBSET PermKeys]
    \cup [pc : {"roleRemoving"}, role : Roles]

\* Where the user a handler works on is one that exists.
KnownPcs == {"leaving", "resetting", "passwordSet", "bumping", "redeeming", "accepting",
             "retiring", "linking", "suspending", "saving"}

Remembers(q) ==
    /\ q \in Local
    /\ q.pc \in KnownPcs => Known(q.u)
    /\ q.pc \in TokenPcs => q.i \in DOMAIN refresh
    /\ q.pc = "redeeming" => q.k \in DOMAIN link
    /\ q.pc = "rolesInstalled" => role[SuperAdmin].live
    /\ q.pc = "roleRemoving" => q.role \notin SystemRoles

Tables ==
    /\ user \in [Users -> UserRow]
    /\ role \in [Roles -> RoleRow]
    /\ refresh \in Seq(RefreshRow)
    /\ link \in Seq(LinkRow)
    /\ access \subseteq [user : Users, tv : Nat]
    /\ \A u \in Users : ~Known(u) => user[u] = NoUser
    /\ \A u \in Users : Known(u) => role[user[u].role].live
    /\ \A k \in DOMAIN link : Known(link[k].user)
    /\ \A i \in DOMAIN refresh : refresh[i].login \in 1..Len(refresh)

Types ==
    /\ Tables
    /\ req = [r \in Requests |-> req[r]]
    /\ \A r \in Requests : Remembers(req[r])
-----------------------------------------------------------------------------
(***************************************************************************)
(* Which shape goes with which step of a handler.                          *)
(***************************************************************************)
LEMMA PlainShape ==
    ASSUME NEW q \in Local, q.pc \in PlainPcs \cup TokenPcs \cup RedeemPcs
                              \cup {"signedIn", "retiring", "linking", "inviting",
                                    "suspending", "saving"}
    PROVE  q.u \in Users /\ q # Idle
  BY DEF Local, Idle, PlainPcs, TokenPcs, RedeemPcs

LEMMA TokenShape ==
    ASSUME NEW q \in Local, q.pc \in TokenPcs
    PROVE  q \in [pc : TokenPcs, u : Users, i : Nat]
  BY DEF Local, Idle, PlainPcs, TokenPcs, RedeemPcs

LEMMA RedeemShape ==
    ASSUME NEW q \in Local, q.pc \in {"redeeming", "accepting"}
    PROVE  q \in [pc : RedeemPcs, u : Users, k : Nat]
  BY DEF Local, Idle, PlainPcs, TokenPcs, RedeemPcs

LEMMA EndingShape ==
    ASSUME NEW q \in Local, q.pc \in {"counted", "rolesInstalled", "stored", "leaving",
                                      "resetting", "passwordSet", "bumping"}
    PROVE  \/ q \in [pc : PlainPcs, u : Users]
           \/ q \in [pc : RedeemPcs, u : Users, k : Nat]
  BY DEF Local, Idle, PlainPcs, TokenPcs, RedeemPcs

LEMMA SignedInShape ==
    ASSUME NEW q \in Local, q.pc = "signedIn"
    PROVE  q \in [pc : {"signedIn"}, u : Users, tv : Nat]
  BY DEF Local, Idle, PlainPcs, TokenPcs, RedeemPcs

LEMMA LinkingShape ==
    ASSUME NEW q \in Local, q.pc \in {"retiring", "linking"}
    PROVE  q \in [pc : {"retiring", "linking"}, u : Users, purpose : {"invite", "reset"}]
  BY DEF Local, Idle, PlainPcs, TokenPcs, RedeemPcs

LEMMA InvitingShape ==
    ASSUME NEW q \in Local, q.pc = "inviting"
    PROVE  q \in [pc : {"inviting"}, u : Users, role : Roles]
  BY DEF Local, Idle, PlainPcs, TokenPcs, RedeemPcs

LEMMA RowShape ==
    ASSUME NEW q \in Local, q.pc \in {"suspending", "saving"}
    PROVE  q \in [pc : {"suspending", "saving"}, u : Users, row : KnownRow]
  BY DEF Local, Idle, PlainPcs, TokenPcs, RedeemPcs

LEMMA RoleShape ==
    ASSUME NEW q \in Local
    PROVE  /\ q.pc = "roleSaving" => q \in [pc : {"roleSaving"}, role : Roles,
                                            perms : SUBSET PermKeys]
           /\ q.pc = "roleRemoving" => q \in [pc : {"roleRemoving"}, role : Roles]
  BY DEF Local, Idle, PlainPcs, TokenPcs, RedeemPcs

LEMMA IdleIsRemembered == Remembers(Idle) /\ Remembers(Idle)'
  BY DEF Remembers, Local, Idle, KnownPcs, TokenPcs

LEMMA RequestOf ==
    ASSUME Types, NEW r \in Requests
    PROVE  Remembers(req[r]) /\ req[r] \in Local
  BY DEF Types, Remembers

\* A request that moves on leaves the others alone.
LEMMA ReqMoves ==
    ASSUME Types, NEW r \in Requests, NEW q, req' = [req EXCEPT ![r] = q]
    PROVE  /\ req'[r] = q
           /\ \A s \in Requests : s # r => req'[s] = req[s]
           /\ req' = [s \in Requests |-> req'[s]]
  BY DEF Types

LEMMA GotoMoves ==
    ASSUME Types, NEW r \in Requests, NEW pc, Goto(r, pc)
    PROVE  req' = [req EXCEPT ![r] = [req[r] EXCEPT !.pc = pc]]
  BY DEF Types, Goto

\* What keeps the types: typed tables, in which nothing that was there is
\* gone, and a state of the request that fits them.
LEMMA StepKeepsTypes ==
    ASSUME Types, NEW r \in Requests,
           \A s \in Requests : s # r => req'[s] = req[s],
           req' = [s \in Requests |-> req'[s]],
           Tables', Remembers(req[r])',
           \A u \in Users : Known(u) => Known(u)',
           DOMAIN refresh \subseteq DOMAIN refresh',
           DOMAIN link \subseteq DOMAIN link',
           role' = role \/ role'[SuperAdmin].live
    PROVE  Types'
  <1>1. ASSUME NEW s \in Requests, s # r PROVE Remembers(req[s])'
    <2>1. req'[s] = req[s] /\ Remembers(req[s]) /\ req[s] \in Local
      BY <1>1, RequestOf
    <2>2. req[s].pc \in KnownPcs => req[s].u \in Users
      BY <2>1, PlainShape DEF KnownPcs, PlainPcs, RedeemPcs
    <2> QED BY <2>1, <2>2 DEF Remembers
  <1> QED BY <1>1 DEF Types

LEMMA SameTables ==
    ASSUME Tables, UNCHANGED <<rows, access>>
    PROVE  Tables'
  BY DEF Tables, rows, Known

\* A handler that has only read, or found nothing to write.
LEMMA ReadKeepsTypes ==
    ASSUME Types, NEW r \in Requests, NEW q, req' = [req EXCEPT ![r] = q],
           UNCHANGED <<rows, access>>, Remembers(q)
    PROVE  Types'
  <1>1. Tables'
    BY SameTables DEF Types
  <1>2. /\ req'[r] = q
        /\ \A s \in Requests : s # r => req'[s] = req[s]
        /\ req' = [s \in Requests |-> req'[s]]
    BY ReqMoves
  <1>3. Remembers(req[r])'
    BY <1>2 DEF Remembers, Known, rows
  <1>4. /\ \A u \in Users : Known(u) => Known(u)'
        /\ DOMAIN refresh \subseteq DOMAIN refresh' /\ DOMAIN link \subseteq DOMAIN link'
        /\ role' = role
    BY DEF Known, rows
  <1> QED BY <1>1, <1>2, <1>3, <1>4, StepKeepsTypes
-----------------------------------------------------------------------------
(***************************************************************************)
(* Steps that write one table.                                             *)
(***************************************************************************)
LEMMA RowOf == ASSUME NEW T, NEW s \in Seq(T), NEW i \in DOMAIN s PROVE s[i] \in T
  OBVIOUS

LEMMA LinkUser ==
    ASSUME Tables, NEW k \in DOMAIN link
    PROVE  link[k] \in LinkRow /\ link[k].user \in Users
  <1>1. link \in Seq(LinkRow)
    BY DEF Tables
  <1>2. link[k] \in LinkRow
    BY <1>1, RowOf
  <1> QED BY <1>2 DEF LinkRow

LEMMA TokenUser ==
    ASSUME Tables, NEW i \in DOMAIN refresh
    PROVE  refresh[i] \in RefreshRow /\ refresh[i].user \in Users /\ i \in Nat
  <1>1. refresh \in Seq(RefreshRow)
    BY DEF Tables
  <1>2. refresh[i] \in RefreshRow /\ i \in Nat
    BY <1>1, RowOf
  <1> QED BY <1>2 DEF RefreshRow

LEMMA UserWritten ==
    ASSUME Types, NEW u \in Users, NEW row \in KnownRow, role[row.role].live,
           user' = [user EXCEPT ![u] = row], UNCHANGED <<role, refresh, link, access>>
    PROVE  /\ Tables'
           /\ \A v \in Users : user'[v] = IF v = u THEN row ELSE user[v]
           /\ \A v \in Users : Known(v) => Known(v)'
           /\ user'[u].status # "none"
  <1>1. \A v \in Users : user'[v] = IF v = u THEN row ELSE user[v]
    BY DEF Types, Tables
  <1>2. \A v \in Users : Known(v)' <=> (v = u \/ Known(v))
    BY <1>1 DEF Known, KnownRow
  <1>3. \A k \in DOMAIN link : link[k].user \in Users
    BY LinkUser DEF Types
  <1>4. user' \in [Users -> UserRow]
    BY DEF Types, Tables, KnownRow
  <1>5. \A v \in Users : /\ ~Known(v)' => user'[v] = NoUser
                         /\ Known(v)' => role'[user'[v].role].live
    BY <1>1, <1>2 DEF Types, Tables
  <1>6. (\A k \in DOMAIN link : Known(link[k].user))'
    <2>1. link' = link /\ \A k \in DOMAIN link : Known(link[k].user)
      BY DEF Types, Tables
    <2> QED BY <1>2, <1>3, <2>1
  <1>7. Tables'
    <2>1. /\ role' = role /\ refresh' = refresh /\ link' = link /\ access' = access
          /\ Tables
      BY DEF Types
    <2>2. /\ refresh' \in Seq(RefreshRow) /\ link' \in Seq(LinkRow)
          /\ \A i \in DOMAIN refresh' : refresh'[i].login \in 1..Len(refresh')
          /\ access' \subseteq [user : Users, tv : Nat] /\ role' \in [Roles -> RoleRow]
      BY <2>1 DEF Tables
    <2> QED BY <1>4, <1>5, <1>6, <2>2 DEF Tables
  <1>8. user'[u].status # "none"
    BY <1>1 DEF KnownRow
  <1> QED BY <1>1, <1>2, <1>7, <1>8

LEMMA RoleWritten ==
    ASSUME Types, role' \in [Roles -> RoleRow],
           \A u \in Users : Known(u) => role'[user[u].role].live,
           UNCHANGED <<user, refresh, link, access>>
    PROVE  Tables'
  BY DEF Types, Tables, Known

LEMMA RefreshWritten ==
    ASSUME Types, refresh' \in Seq(RefreshRow),
           \A i \in DOMAIN refresh' : refresh'[i].login \in 1..Len(refresh'),
           access' \subseteq [user : Users, tv : Nat],
           UNCHANGED <<user, role, link>>
    PROVE  Tables'
  BY DEF Types, Tables, Known

LEMMA LinkWritten ==
    ASSUME Types, link' \in Seq(LinkRow), \A k \in DOMAIN link' : Known(link'[k].user),
           UNCHANGED <<user, role, refresh, access>>
    PROVE  Tables'
  BY DEF Types, Tables, Known

\* Rows of a table changed in place.
LEMMA RowsWritten ==
    ASSUME NEW T, NEW s \in Seq(T), NEW t, DOMAIN t = DOMAIN s, t = [i \in DOMAIN s |-> t[i]],
           \A i \in DOMAIN s : t[i] \in T
    PROVE  t \in Seq(T) /\ Len(t) = Len(s)
  <1>1. DOMAIN s = 1..Len(s) /\ Len(s) \in Nat
    OBVIOUS
  <1>2. t \in [1..Len(s) -> T]
    BY <1>1
  <1> QED BY <1>1, <1>2

\* A row added to a table.
LEMMA RowAdded ==
    ASSUME NEW T, NEW s \in Seq(T), NEW x \in T
    PROVE  /\ Append(s, x) \in Seq(T)
           /\ Len(Append(s, x)) = Len(s) + 1 /\ Len(s) \in Nat
           /\ DOMAIN Append(s, x) = DOMAIN s \cup {Len(s) + 1}
           /\ \A i \in DOMAIN s : Append(s, x)[i] = s[i] /\ i \in 1..Len(s)
           /\ Append(s, x)[Len(s) + 1] = x
  OBVIOUS
-----------------------------------------------------------------------------
LEMMA SignedInIsKnown ==
    ASSUME NEW u, SignedIn(u)
    PROVE  user[u].status = "active" /\ Known(u)
  BY DEF SignedIn, Accepted, Known

\* The copy a handler edits: the new role and status, and a new token version
\* when the user is being suspended.
EditedCopy(u, ro, s) == [WithStatus(user[u], s) EXCEPT !.role = ro]

LEMMA EditedRow ==
    ASSUME Tables, NEW u \in Users, NEW ro \in Roles, NEW s \in {"invited", "active", "suspended"}
    PROVE  /\ EditedCopy(u, ro, s) \in KnownRow
           /\ EditedCopy(u, ro, s).status = s /\ EditedCopy(u, ro, s).role = ro
           /\ EditedCopy(u, ro, s).tv
                 = user[u].tv + (IF s = "suspended" /\ user[u].status # s THEN 1 ELSE 0)
  <1> DEFINE old == user[u]
             tv == IF s = "suspended" /\ old.status # s THEN old.tv + 1 ELSE old.tv
             mid == [old EXCEPT !.status = s, !.tv = tv]
  <1>1. old \in UserRow
    BY DEF Tables
  <1>2. EditedCopy(u, ro, s) = [mid EXCEPT !.role = ro]
    BY DEF WithStatus, EditedCopy
  <1>3. tv \in Nat /\ tv = old.tv + (IF s = "suspended" /\ old.status # s THEN 1 ELSE 0)
    BY <1>1 DEF UserRow
  <1> HIDE DEF old, tv
  <1>4. [mid EXCEPT !.role = ro] \in KnownRow
    BY <1>1, <1>3 DEF UserRow, KnownRow
  <1>5. /\ [mid EXCEPT !.role = ro].status = s
        /\ [mid EXCEPT !.role = ro].role = ro
        /\ [mid EXCEPT !.role = ro].tv = tv
    BY <1>1 DEF UserRow
  <1> QED BY <1>2, <1>3, <1>4, <1>5 DEF old

\* What editing a user leaves in the handler's state.
EditState(u, ro, s) ==
    [pc  |-> IF s = "suspended" /\ user[u].status # s THEN "suspending" ELSE "saving",
     u   |-> u,
     row |-> EditedCopy(u, ro, s)]

LEMMA EditPc ==
    ASSUME NEW u, NEW ro, NEW s
    PROVE  EditState(u, ro, s).pc \in {"suspending", "saving"} /\ EditState(u, ro, s).u = u
  BY DEF EditState

LEMMA EditBegins ==
    ASSUME NEW r, NEW op, NEW u, NEW ro, NEW s, Edit(r, op, u, ro, s)
    PROVE  Begin(r, op, EditState(u, ro, s))
  BY DEF Edit, EditState, EditedCopy

LEMMA EditIsRemembered ==
    ASSUME Tables, NEW u \in Users, NEW ro \in Roles, NEW s \in {"invited", "active", "suspended"},
           Known(u)
    PROVE  Remembers(EditState(u, ro, s))
  <1> DEFINE row == EditedCopy(u, ro, s)
             pc == IF s = "suspended" /\ user[u].status # s THEN "suspending" ELSE "saving"
  <1>1. row \in KnownRow
    BY EditedRow
  <1>2. EditState(u, ro, s) = [pc |-> pc, u |-> u, row |-> row] /\ pc \in {"suspending", "saving"}
    BY DEF EditState
  <1> HIDE DEF row, pc
  <1>3. [pc |-> pc, u |-> u, row |-> row] \in [pc : {"suspending", "saving"}, u : Users, row : KnownRow]
    BY <1>1, <1>2
  <1>4. EditState(u, ro, s) \in Local /\ EditState(u, ro, s).pc = pc /\ EditState(u, ro, s).u = u
    BY <1>2, <1>3 DEF Local
  <1> QED BY <1>2, <1>4 DEF Remembers, TokenPcs

LEMMA BeginKeepsTypes ==
    ASSUME Types, NEW r \in Requests, NEW op, NEW q, Begin(r, op, q), Remembers(q)
    PROVE  Types'
  BY ReadKeepsTypes DEF Begin

LEMMA AuthArriveKeepsTypes ==
    ASSUME Types, NEW r \in Requests, NEW u \in Users,
           \/ CountUsers(r, u) \/ ReadForLogin(r, u) \/ LogoutAll(r, u)
           \/ ChangePassword(r, u) \/ ForgotPassword(r, u)
    PROVE  Types'
  <1> USE DEF Remembers, Local, KnownPcs, TokenPcs
  <1>1. CASE CountUsers(r, u)
    BY <1>1, BeginKeepsTypes DEF CountUsers, PlainPcs
  <1>2. CASE ReadForLogin(r, u)
    <2> DEFINE q == [pc |-> "signedIn", u |-> u, tv |-> user[u].tv]
    <2>1. user[u].tv \in Nat
      BY DEF Types, Tables, UserRow
    <2>2. Remembers(q)
      BY <2>1
    <2>3. Begin(r, "login", q)
      BY <1>2 DEF ReadForLogin
    <2> HIDE DEF q
    <2> QED BY <2>2, <2>3, BeginKeepsTypes
  <1>3. CASE LogoutAll(r, u)
    BY <1>3, BeginKeepsTypes, SignedInIsKnown DEF LogoutAll, PlainPcs
  <1>4. CASE ChangePassword(r, u)
    BY <1>4, BeginKeepsTypes, SignedInIsKnown DEF ChangePassword, PlainPcs
  <1>5. CASE ForgotPassword(r, u)
    BY <1>5, BeginKeepsTypes DEF ForgotPassword, Known
  <1> QED BY <1>1, <1>2, <1>3, <1>4, <1>5

LEMMA TokenArriveKeepsTypes ==
    ASSUME Types, NEW r \in Requests, NEW i \in DOMAIN refresh,
           ReadRefreshToken(r, i) \/ Logout(r, i)
    PROVE  Types'
  <1>0. Tables /\ refresh \in Seq(RefreshRow) /\ refresh[i].user \in Users /\ i \in Nat
    BY TokenUser DEF Types, Tables
  <1>1. CASE ReadRefreshToken(r, i)
    <2> DEFINE pc == IF refresh[i].live THEN "rotating" ELSE "reused"
               q == [pc |-> pc, u |-> refresh[i].user, i |-> i]
    <2>1. Begin(r, "refresh", q) /\ pc \in TokenPcs
      BY <1>1 DEF ReadRefreshToken, TokenPcs
    <2>2. pc \notin KnownPcs \cup {"redeeming", "rolesInstalled", "roleRemoving"}
      BY DEF KnownPcs
    <2> HIDE DEF pc
    <2>3. Remembers(q)
      BY <1>0, <2>1, <2>2 DEF Remembers, Local
    <2> HIDE DEF q
    <2> QED BY <2>1, <2>3, BeginKeepsTypes
  <1>2. CASE Logout(r, i)
    <2>1. refresh' = [refresh EXCEPT ![i].live = FALSE] /\ UNCHANGED <<user, role, link, access>>
      BY <1>2 DEF Logout
    <2>2. refresh' \in Seq(RefreshRow) /\ Len(refresh') = Len(refresh)
      <3>1. \A j \in DOMAIN refresh : refresh'[j] \in RefreshRow
        BY <2>1, TokenUser DEF Types, RefreshRow
      <3>2. DOMAIN refresh' = DOMAIN refresh /\ refresh' = [j \in DOMAIN refresh |-> refresh'[j]]
        BY <2>1
      <3> QED BY <1>0, <3>1, <3>2, RowsWritten
    <2>3. DOMAIN refresh' = DOMAIN refresh /\ \A j \in DOMAIN refresh : refresh'[j].login = refresh[j].login
      BY <2>1, TokenUser DEF Types, RefreshRow
    <2>4. Tables'
      BY <2>1, <2>2, <2>3, RefreshWritten DEF Types, Tables
    <2>5. req' = req
      BY <1>2 DEF Logout
    <2>6. Remembers(req[r])
      BY RequestOf
    <2>7. Remembers(req[r])'
      BY <2>1, <2>3, <2>5, <2>6 DEF Remembers, Known
    <2>8. /\ \A u \in Users : Known(u) => Known(u)'
          /\ DOMAIN refresh \subseteq DOMAIN refresh' /\ DOMAIN link \subseteq DOMAIN link'
          /\ role' = role
      BY <2>1, <2>3 DEF Known
    <2>9. req' = [s \in Requests |-> req'[s]]
      BY <2>5 DEF Types
    <2> QED BY <2>4, <2>5, <2>7, <2>8, <2>9, StepKeepsTypes
  <1> QED BY <1>1, <1>2

LEMMA LinkArriveKeepsTypes ==
    ASSUME Types, NEW r \in Requests, NEW k \in DOMAIN link, ReadLink(r, k)
    PROVE  Types'
  <1> DEFINE q == [pc |-> "redeeming", u |-> link[k].user, k |-> k]
             op == IF link[k].purpose = "reset" THEN "reset" ELSE "acceptInvite"
  <1>1. link[k].user \in Users /\ Known(link[k].user) /\ k \in Nat
    BY LinkUser DEF Types, Tables
  <1>2. Begin(r, op, q)
    BY DEF ReadLink
  <1>3. Remembers(q)
    BY <1>1 DEF Remembers, Local, RedeemPcs, KnownPcs, TokenPcs
  <1> HIDE DEF q, op
  <1> QED BY <1>2, <1>3, BeginKeepsTypes

LEMMA UsersArriveKeepsTypes ==
    ASSUME Types, NEW r \in Requests, NEW a \in Users, NEW u \in Users
    PROVE  /\ ResendInvite(r, a, u) \/ ToggleStatus(r, a, u) => Types'
           /\ \A ro \in Roles : Invite(r, a, u, ro) => Types'
           /\ \A ro \in Roles, s \in {"invited", "active", "suspended"} :
                 PatchUser(r, a, u, ro, s) => Types'
  <1>1. ASSUME ResendInvite(r, a, u) PROVE Types'
    BY <1>1, BeginKeepsTypes
       DEF ResendInvite, Remembers, Local, KnownPcs, TokenPcs, Known
  <1>2. ASSUME ToggleStatus(r, a, u) PROVE Types'
    <2> DEFINE s == IF user[u].status = "active" THEN "suspended" ELSE "active"
    <2>1. Edit(r, "toggleStatus", u, user[u].role, s) /\ Known(u)
      BY <1>2 DEF ToggleStatus, Known
    <2>2. user[u].role \in Roles /\ s \in {"invited", "active", "suspended"}
      BY DEF Types, Tables, UserRow
    <2> HIDE DEF s
    <2>3. Tables
      BY DEF Types
    <2>4. Remembers(EditState(u, user[u].role, s))
      BY <2>1, <2>2, <2>3, EditIsRemembered
    <2>5. Begin(r, "toggleStatus", EditState(u, user[u].role, s))
      BY <2>1, EditBegins
    <2> QED BY <2>4, <2>5, BeginKeepsTypes
  <1>3. ASSUME NEW ro \in Roles, Invite(r, a, u, ro) PROVE Types'
    BY <1>3, BeginKeepsTypes DEF Invite, Remembers, Local, KnownPcs, TokenPcs
  <1>4. ASSUME NEW ro \in Roles, NEW s \in {"invited", "active", "suspended"},
               PatchUser(r, a, u, ro, s)
        PROVE  Types'
    <2>1. Edit(r, "patchUser", u, ro, s) /\ Known(u) /\ Tables
      BY <1>4 DEF PatchUser, Known, Types
    <2>2. Remembers(EditState(u, ro, s))
      BY <2>1, EditIsRemembered
    <2>3. Begin(r, "patchUser", EditState(u, ro, s))
      BY <2>1, EditBegins
    <2> QED BY <2>2, <2>3, BeginKeepsTypes
  <1> QED BY <1>1, <1>2, <1>3, <1>4

LEMMA RolesArriveKeepsTypes ==
    ASSUME Types, NEW r \in Requests, NEW a \in Users, NEW ro \in Roles
    PROVE  /\ PatchRole(r, a, ro) \/ RemoveRole(r, a, ro) => Types'
           /\ \A perms \in PermSets :
                 CreateRole(r, a, ro, perms) \/ SetPerms(r, a, ro, perms) => Types'
  <1> USE DEF Remembers, Local, KnownPcs, TokenPcs
  <1>1. ASSUME PatchRole(r, a, ro) PROVE Types'
    <2> DEFINE q == [pc |-> "roleSaving", role |-> ro, perms |-> role[ro].perms]
    <2>1. role[ro].perms \in SUBSET PermKeys
      BY DEF Types, Tables, RoleRow
    <2>2. Remembers(q)
      BY <2>1
    <2>3. Begin(r, "patchRole", q)
      BY <1>1 DEF PatchRole
    <2> HIDE DEF q
    <2> QED BY <2>2, <2>3, BeginKeepsTypes
  <1>2. ASSUME RemoveRole(r, a, ro) PROVE Types'
    BY <1>2, BeginKeepsTypes DEF RemoveRole
  <1>3. ASSUME NEW perms \in PermSets, CreateRole(r, a, ro, perms) \/ SetPerms(r, a, ro, perms)
        PROVE  Types'
    <2> DEFINE q == [pc |-> "roleSaving", role |-> ro, perms |-> perms]
    <2>1. perms \in SUBSET PermKeys
      BY RoleAssumption
    <2>2. Remembers(q)
      BY <2>1
    <2>3. \E op : Begin(r, op, q)
      BY <1>3 DEF CreateRole, SetPerms
    <2> HIDE DEF q
    <2> QED BY <2>2, <2>3, BeginKeepsTypes
  <1> QED BY <1>1, <1>2, <1>3

LEMMA ArriveKeepsTypes ==
    ASSUME Types, NEW r \in Requests, Arrive(r)
    PROVE  Types'
  BY AuthArriveKeepsTypes, TokenArriveKeepsTypes, LinkArriveKeepsTypes, UsersArriveKeepsTypes,
     RolesArriveKeepsTypes DEF Arrive
-----------------------------------------------------------------------------
(***************************************************************************)
(* A handler that goes on keeps what it remembers.                         *)
(***************************************************************************)
LEMMA TokenGoto ==
    ASSUME Types, NEW r \in Requests, req[r].pc \in TokenPcs, NEW pc \in TokenPcs, Goto(r, pc)
    PROVE  /\ req'[r] \in Local
           /\ req'[r].pc = pc /\ req'[r].u = req[r].u /\ req'[r].i = req[r].i
  <1>1. req[r] \in [pc : TokenPcs, u : Users, i : Nat]
    BY RequestOf, TokenShape
  <1>2. req'[r] = [req[r] EXCEPT !.pc = pc]
    BY GotoMoves, ReqMoves
  <1>3. req'[r] \in [pc : TokenPcs, u : Users, i : Nat]
    BY <1>1, <1>2
  <1> QED BY <1>1, <1>2, <1>3 DEF Local

LEMMA EndingGoto ==
    ASSUME Types, NEW r \in Requests,
           req[r].pc \in {"counted", "rolesInstalled", "stored", "leaving", "resetting",
                          "passwordSet", "bumping"},
           NEW pc \in {"rolesInstalled", "stored", "resetting", "passwordSet", "bumping"},
           req[r].pc = "counted" \/ pc # "rolesInstalled",
           Goto(r, pc)
    PROVE  /\ req'[r] \in Local
           /\ req'[r].pc = pc /\ req'[r].u = req[r].u
  <1>1. \/ req[r] \in [pc : PlainPcs, u : Users]
        \/ req[r] \in [pc : RedeemPcs, u : Users, k : Nat]
    BY RequestOf, EndingShape
  <1>2. req'[r] = [req[r] EXCEPT !.pc = pc]
    BY GotoMoves, ReqMoves
  <1>3. CASE req[r] \in [pc : PlainPcs, u : Users]
    <2>1. req'[r] \in [pc : PlainPcs, u : Users]
      BY <1>2, <1>3 DEF PlainPcs
    <2> QED BY <1>2, <1>3, <2>1 DEF Local
  <1>4. CASE req[r] \in [pc : RedeemPcs, u : Users, k : Nat]
    <2>1. req'[r] \in [pc : RedeemPcs, u : Users, k : Nat]
      BY <1>2, <1>4 DEF RedeemPcs
    <2> QED BY <1>2, <1>4, <2>1 DEF Local
  <1> QED BY <1>1, <1>3, <1>4

LEMMA RedeemGoto ==
    ASSUME Types, NEW r \in Requests, req[r].pc \in {"redeeming", "accepting"},
           NEW pc \in RedeemPcs, Goto(r, pc)
    PROVE  /\ req'[r] \in Local
           /\ req'[r].pc = pc /\ req'[r].u = req[r].u
  <1>1. req[r] \in [pc : RedeemPcs, u : Users, k : Nat]
    BY RequestOf, RedeemShape
  <1>2. req'[r] = [req[r] EXCEPT !.pc = pc]
    BY GotoMoves, ReqMoves
  <1>3. req'[r] \in [pc : RedeemPcs, u : Users, k : Nat]
    BY <1>1, <1>2
  <1> QED BY <1>1, <1>2, <1>3 DEF Local

LEMMA LinkingGoto ==
    ASSUME Types, NEW r \in Requests, req[r].pc = "retiring", Goto(r, "linking")
    PROVE  /\ req'[r] \in Local
           /\ req'[r].pc = "linking" /\ req'[r].u = req[r].u /\ req'[r].purpose = req[r].purpose
  <1>1. req[r] \in [pc : {"retiring", "linking"}, u : Users, purpose : {"invite", "reset"}]
    BY RequestOf, LinkingShape
  <1>2. req'[r] = [req[r] EXCEPT !.pc = "linking"]
    BY GotoMoves, ReqMoves
  <1>3. req'[r] \in [pc : {"retiring", "linking"}, u : Users, purpose : {"invite", "reset"}]
    BY <1>1, <1>2
  <1> QED BY <1>1, <1>2, <1>3 DEF Local

LEMMA RowGoto ==
    ASSUME Types, NEW r \in Requests, req[r].pc = "suspending", Goto(r, "saving")
    PROVE  /\ req'[r] \in Local
           /\ req'[r].pc = "saving" /\ req'[r].u = req[r].u /\ req'[r].row = req[r].row
  <1>1. req[r] \in [pc : {"suspending", "saving"}, u : Users, row : KnownRow]
    BY RequestOf, RowShape
  <1>2. req'[r] = [req[r] EXCEPT !.pc = "saving"]
    BY GotoMoves, ReqMoves
  <1>3. req'[r] \in [pc : {"suspending", "saving"}, u : Users, row : KnownRow]
    BY <1>1, <1>2
  <1> QED BY <1>1, <1>2, <1>3 DEF Local

\* The other requests of a step that moves one on or answers it.
LEMMA OneMoves ==
    ASSUME Types, NEW r \in Requests, Answer(r) \/ \E pc : Goto(r, pc)
    PROVE  /\ \A s \in Requests : s # r => req'[s] = req[s]
           /\ req' = [s \in Requests |-> req'[s]]
           /\ Answer(r) => req'[r] = Idle
  <1>1. CASE Answer(r)
    BY <1>1, ReqMoves DEF Answer
  <1>2. ASSUME NEW pc, Goto(r, pc)
        PROVE  /\ \A s \in Requests : s # r => req'[s] = req[s]
               /\ req' = [s \in Requests |-> req'[s]]
    BY <1>2, ReqMoves, GotoMoves
  <1>3. Answer(r) => req'[r] = Idle
    BY ReqMoves DEF Answer
  <1> QED BY <1>1, <1>2, <1>3

LEMMA AnswerKeepsTypes ==
    ASSUME Types, NEW r \in Requests, Answer(r), Tables',
           \A u \in Users : Known(u) => Known(u)',
           DOMAIN refresh \subseteq DOMAIN refresh', DOMAIN link \subseteq DOMAIN link',
           role' = role \/ role'[SuperAdmin].live
    PROVE  Types'
  <1>1. Remembers(req[r])'
    BY OneMoves, IdleIsRemembered DEF Remembers
  <1> QED BY <1>1, OneMoves, StepKeepsTypes

LEMMA OpenSessionTypes ==
    ASSUME Types, NEW r \in Requests, OpenSession(r)
    PROVE  Types'
  <1> DEFINE q == req[r]
             new == [user |-> q.u, live |-> TRUE, login |-> Len(refresh) + 1]
  <1>1. q \in [pc : {"signedIn"}, u : Users, tv : Nat]
    BY RequestOf, SignedInShape DEF OpenSession, At
  <1>2. refresh \in Seq(RefreshRow) /\ Len(refresh) \in Nat
    BY DEF Types, Tables
  <1>3. new \in RefreshRow
    BY <1>1, <1>2 DEF RefreshRow
  <1>4. /\ refresh' = Append(refresh, new) /\ access' = access \cup {[user |-> q.u, tv |-> q.tv]}
        /\ UNCHANGED <<user, role, link>> /\ Answer(r)
    BY DEF OpenSession
  <1>5. new.login = Len(refresh) + 1
    OBVIOUS
  <1> HIDE DEF new
  <1>6. /\ refresh' \in Seq(RefreshRow) /\ DOMAIN refresh \subseteq DOMAIN refresh'
        /\ \A i \in DOMAIN refresh' : refresh'[i].login \in 1..Len(refresh')
    BY <1>2, <1>3, <1>4, <1>5, RowAdded DEF Types, Tables
  <1>7. access' \subseteq [user : Users, tv : Nat]
    BY <1>1, <1>4 DEF Types, Tables
  <1>8. Tables'
    BY <1>4, <1>6, <1>7, RefreshWritten
  <1> QED BY <1>4, <1>6, <1>8, AnswerKeepsTypes DEF Known

LEMMA ReadBackTypes ==
    ASSUME Types, NEW r \in Requests, ReadBack(r)
    PROVE  Types'
  <1> DEFINE q == [pc |-> "signedIn", u |-> req[r].u, tv |-> user[req[r].u].tv]
  <1>1. req[r].u \in Users
    BY RequestOf, PlainShape DEF ReadBack, At, PlainPcs
  <1>2. user[req[r].u].tv \in Nat
    BY <1>1 DEF Types, Tables, UserRow
  <1>3. Remembers(q)
    BY <1>1, <1>2 DEF Remembers, Local, KnownPcs, TokenPcs
  <1>4. req' = [req EXCEPT ![r] = q] /\ UNCHANGED <<rows, access>>
    BY DEF ReadBack, Types
  <1> HIDE DEF q
  <1> QED BY <1>3, <1>4, ReadKeepsTypes

\* Refresh tokens that are only killed.
LEMMA TokensKilled ==
    ASSUME Types, DOMAIN refresh' = DOMAIN refresh,
           refresh' = [i \in DOMAIN refresh |-> refresh'[i]],
           \A i \in DOMAIN refresh : \/ refresh'[i] = refresh[i]
                                     \/ refresh'[i] = [refresh[i] EXCEPT !.live = FALSE],
           UNCHANGED <<user, role, link, access>>
    PROVE  Tables' /\ Len(refresh') = Len(refresh)
  <1>1. refresh \in Seq(RefreshRow) /\ \A i \in DOMAIN refresh : refresh[i] \in RefreshRow
    BY TokenUser DEF Types, Tables
  <1>2. \A i \in DOMAIN refresh : refresh'[i] \in RefreshRow /\ refresh'[i].login = refresh[i].login
    BY <1>1 DEF RefreshRow
  <1>3. refresh' \in Seq(RefreshRow) /\ Len(refresh') = Len(refresh)
    BY <1>1, <1>2, RowsWritten
  <1>4. \A i \in DOMAIN refresh' : refresh'[i].login \in 1..Len(refresh')
    BY <1>2, <1>3 DEF Types, Tables
  <1>5. access' \subseteq [user : Users, tv : Nat]
    BY DEF Types, Tables
  <1> QED BY <1>3, <1>4, <1>5, RefreshWritten

LEMMA RevokeAllTypes ==
    ASSUME Types, NEW r \in Requests, RevokeAllForUser(r)
    PROVE  Types'
  <1>1. /\ refresh' = AllRevoked(req[r].u) /\ UNCHANGED <<user, role, link, access>>
        /\ req[r].pc \in {"reused", "inactive", "leaving", "passwordSet", "suspending"}
    BY DEF RevokeAllForUser, AfterRevoking
  <1>2. /\ DOMAIN refresh' = DOMAIN refresh
        /\ refresh' = [i \in DOMAIN refresh |-> refresh'[i]]
        /\ \A i \in DOMAIN refresh : \/ refresh'[i] = refresh[i]
                                     \/ refresh'[i] = [refresh[i] EXCEPT !.live = FALSE]
    BY <1>1 DEF AllRevoked
  <1>3. Tables'
    BY <1>1, <1>2, TokensKilled
  <1>4. \A u \in Users : Known(u) => Known(u)'
    BY <1>1 DEF Known
  <1>5. CASE req[r].pc \in {"reused", "inactive"}
    <2>1. Answer(r)
      BY <1>5 DEF RevokeAllForUser, AfterRevoking
    <2> QED BY <1>1, <1>2, <1>3, <1>4, <2>1, AnswerKeepsTypes
  <1>6. CASE req[r].pc \in {"leaving", "passwordSet"}
    <2>1. Goto(r, "bumping")
      BY <1>6 DEF RevokeAllForUser, AfterRevoking
    <2>2. req'[r] \in Local /\ req'[r].pc = "bumping" /\ req'[r].u = req[r].u
      BY <1>6, <2>1, EndingGoto
    <2>3. Known(req[r].u)
      BY <1>6, RequestOf DEF Remembers, KnownPcs
    <2>4. Remembers(req[r])'
      BY <1>1, <2>2, <2>3 DEF Remembers, Known, TokenPcs
    <2> QED BY <1>1, <1>2, <1>3, <1>4, <2>1, <2>4, OneMoves, StepKeepsTypes
  <1>7. CASE req[r].pc = "suspending"
    <2>1. Goto(r, "saving")
      BY <1>7 DEF RevokeAllForUser, AfterRevoking
    <2>2. req'[r] \in Local /\ req'[r].pc = "saving" /\ req'[r].u = req[r].u
      BY <1>7, <2>1, RowGoto
    <2>3. Known(req[r].u)
      BY <1>7, RequestOf DEF Remembers, KnownPcs
    <2>4. Remembers(req[r])'
      BY <1>1, <2>2, <2>3 DEF Remembers, Known, TokenPcs
    <2> QED BY <1>1, <1>2, <1>3, <1>4, <2>1, <2>4, OneMoves, StepKeepsTypes
  <1> QED BY <1>1, <1>5, <1>6, <1>7

\* The row of a user a handler works on, changed in some columns.
LEMMA KnownUsersRow ==
    ASSUME Types, NEW u \in Users, Known(u)
    PROVE  user[u] \in KnownRow /\ role[user[u].role].live
  BY DEF Types, Tables, KnownRow, Known

LEMMA BumpTypes ==
    ASSUME Types, NEW r \in Requests, BumpTokenVersion(r)
    PROVE  Types'
  <1> DEFINE u == req[r].u
             row == [user[u] EXCEPT !.tv = user[u].tv + 1]
  <1>1. u \in Users /\ Known(u)
    BY RequestOf, PlainShape DEF BumpTokenVersion, At, Remembers, KnownPcs, PlainPcs
  <1>2. user[u] \in KnownRow /\ role[user[u].role].live
    BY <1>1, KnownUsersRow
  <1>3. row \in KnownRow /\ row.role = user[u].role
    BY <1>2 DEF KnownRow, UserRow
  <1>4. user' = [user EXCEPT ![u] = row] /\ UNCHANGED <<role, refresh, link, access>> /\ Answer(r)
    BY DEF BumpTokenVersion, Types, Tables
  <1> HIDE DEF row, u
  <1>5. Tables' /\ \A v \in Users : Known(v) => Known(v)'
    BY <1>1, <1>2, <1>3, <1>4, UserWritten
  <1> QED BY <1>4, <1>5, AnswerKeepsTypes

LEMMA SetPasswordTypes ==
    ASSUME Types, NEW r \in Requests, SetPassword(r)
    PROVE  Types'
  <1> DEFINE u == req[r].u
             pc == IF At(r, "accepting") THEN "stored" ELSE "passwordSet"
             row == IF At(r, "accepting")
                    THEN [user[u] EXCEPT !.password = TRUE, !.status = "active"]
                    ELSE [user[u] EXCEPT !.password = TRUE]
  <1>1. u \in Users /\ Known(u)
    BY RequestOf, PlainShape DEF SetPassword, Remembers, KnownPcs, PlainPcs, RedeemPcs
  <1>2. user[u] \in KnownRow /\ role[user[u].role].live
    BY <1>1, KnownUsersRow
  <1>3. row \in KnownRow /\ row.role = user[u].role
    BY <1>2 DEF KnownRow, UserRow
  <1>4. /\ user' = [user EXCEPT ![u] = row] /\ Goto(r, pc)
        /\ UNCHANGED <<role, refresh, link, access>>
    BY DEF SetPassword, Types, Tables
  <1>5. req'[r] \in Local /\ req'[r].pc = pc /\ req'[r].u = u
    <2>1. CASE At(r, "accepting")
      BY <1>4, <2>1, RedeemGoto DEF At, RedeemPcs
    <2>2. CASE ~At(r, "accepting")
      <3>1. req[r].pc = "resetting"
        BY <2>2 DEF SetPassword, At
      <3> QED BY <1>4, <2>2, <3>1, EndingGoto
    <2> QED BY <2>1, <2>2
  <1>6. pc \notin TokenPcs \cup {"redeeming", "rolesInstalled", "roleRemoving"}
    BY DEF TokenPcs
  <1> HIDE DEF row, u, pc
  <1>7. Tables' /\ \A v \in Users : Known(v) => Known(v)'
    BY <1>1, <1>2, <1>3, <1>4, UserWritten
  <1>8. Remembers(req[r])'
    <2>1. user'[u].status # "none"
      BY <1>1, <1>3, <1>4, <1>2, UserWritten DEF KnownRow
    <2> QED BY <1>5, <1>6, <2>1 DEF Remembers, Known
  <1> QED BY <1>4, <1>7, <1>8, OneMoves, StepKeepsTypes

LEMMA LinkTypes ==
    ASSUME Types, NEW r \in Requests, RetireLinks(r) \/ InsertLink(r) \/ RedeemLink(r)
    PROVE  Types'
  <1>0. /\ Tables /\ link \in Seq(LinkRow)
        /\ \A k \in DOMAIN link : link[k] \in LinkRow /\ Known(link[k].user)
    BY LinkUser DEF Types, Tables
  <1>1. UNCHANGED <<user, role, refresh, access>>
    BY DEF RetireLinks, InsertLink, RedeemLink
  <1>2. \A u \in Users : Known(u) => Known(u)'
    BY <1>1 DEF Known
  <1>3. ASSUME DOMAIN link' = DOMAIN link, link' = [k \in DOMAIN link |-> link'[k]],
               \A k \in DOMAIN link : \/ link'[k] = link[k]
                                      \/ link'[k] = [link[k] EXCEPT !.used = TRUE]
        PROVE  Tables'
    <2>1. \A k \in DOMAIN link : link'[k] \in LinkRow /\ link'[k].user = link[k].user
      BY <1>0, <1>3 DEF LinkRow
    <2>2. link' \in Seq(LinkRow)
      BY <1>0, <1>3, <2>1, RowsWritten
    <2> QED BY <1>0, <1>1, <1>3, <2>1, <2>2, LinkWritten
  <1>4. CASE RetireLinks(r)
    <2>1. /\ DOMAIN link' = DOMAIN link /\ link' = [k \in DOMAIN link |-> link'[k]]
          /\ \A k \in DOMAIN link : \/ link'[k] = link[k]
                                    \/ link'[k] = [link[k] EXCEPT !.used = TRUE]
      BY <1>4 DEF RetireLinks
    <2>2. Goto(r, "linking") /\ req[r].pc = "retiring"
      BY <1>4 DEF RetireLinks, At
    <2>3. req'[r] \in Local /\ req'[r].pc = "linking" /\ req'[r].u = req[r].u
      BY <2>2, LinkingGoto
    <2>4. Known(req[r].u)
      BY <2>2, RequestOf DEF Remembers, KnownPcs
    <2>5. Remembers(req[r])'
      BY <1>1, <2>3, <2>4 DEF Remembers, Known, TokenPcs
    <2> QED BY <1>1, <1>2, <1>3, <2>1, <2>2, <2>5, OneMoves, StepKeepsTypes
  <1>5. CASE RedeemLink(r)
    <2>1. /\ DOMAIN link' = DOMAIN link /\ link' = [k \in DOMAIN link |-> link'[k]]
          /\ \A k \in DOMAIN link : \/ link'[k] = link[k]
                                    \/ link'[k] = [link[k] EXCEPT !.used = TRUE]
      BY <1>5 DEF RedeemLink
    <2> DEFINE pc == IF link[req[r].k].purpose = "reset" THEN "resetting" ELSE "accepting"
    <2>2. Goto(r, pc) /\ req[r].pc = "redeeming" /\ pc \in {"resetting", "accepting"}
      BY <1>5 DEF RedeemLink, At
    <2> HIDE DEF pc
    <2>3. req'[r] \in Local /\ req'[r].pc = pc /\ req'[r].u = req[r].u
      BY <2>2, RedeemGoto DEF RedeemPcs
    <2>4. Known(req[r].u)
      BY <2>2, RequestOf DEF Remembers, KnownPcs
    <2>5. Remembers(req[r])'
      BY <1>1, <2>2, <2>3, <2>4 DEF Remembers, Known, TokenPcs
    <2> QED BY <1>1, <1>2, <1>3, <2>1, <2>2, <2>5, OneMoves, StepKeepsTypes
  <1>6. CASE InsertLink(r)
    <2> DEFINE new == [user |-> req[r].u, purpose |-> req[r].purpose, used |-> FALSE]
    <2>1. link' = Append(link, new) /\ Answer(r) /\ req[r].pc = "linking"
      BY <1>6 DEF InsertLink, At
    <2>2. req[r] \in [pc : {"retiring", "linking"}, u : Users, purpose : {"invite", "reset"}]
      BY <2>1, RequestOf, LinkingShape
    <2>3. Known(req[r].u)
      BY <2>1, RequestOf DEF Remembers, KnownPcs
    <2>4. new \in LinkRow /\ Known(new.user)
      BY <2>2, <2>3 DEF LinkRow
    <2> HIDE DEF new
    <2>5. /\ link' \in Seq(LinkRow) /\ DOMAIN link \subseteq DOMAIN link'
          /\ \A k \in DOMAIN link' : Known(link'[k].user)
      BY <1>0, <2>1, <2>4, RowAdded
    <2>6. Tables'
      BY <1>1, <2>5, LinkWritten
    <2> QED BY <1>1, <1>2, <2>1, <2>5, <2>6, AnswerKeepsTypes
  <1> QED BY <1>4, <1>5, <1>6

LEMMA RotationTypes ==
    ASSUME Types, NEW r \in Requests, IssueSuccessor(r) \/ SpendToken(r) \/ SignRefreshed(r)
    PROVE  Types'
  <1> DEFINE q == req[r]
  <1>0. /\ q.pc \in {"rotating", "succeeded", "rotated"} /\ q.i \in DOMAIN refresh
        /\ q.u \in Users /\ refresh \in Seq(RefreshRow)
        /\ UNCHANGED <<user, role, link>>
    BY RequestOf, PlainShape
       DEF IssueSuccessor, SpendToken, SignRefreshed, At, Remembers, TokenPcs, Types, Tables, rows
  <1>1. \A u \in Users : Known(u) => Known(u)'
    BY <1>0 DEF Known
  <1>2. ASSUME NEW pc \in {"succeeded", "rotated", "inactive"}, Goto(r, pc), Tables',
               DOMAIN refresh \subseteq DOMAIN refresh'
        PROVE  Types'
    <2>1. req'[r] \in Local /\ req'[r].pc = pc /\ req'[r].i = q.i
      BY <1>0, <1>2, TokenGoto DEF TokenPcs
    <2>2. Remembers(req[r])'
      BY <1>0, <1>2, <2>1 DEF Remembers, KnownPcs, TokenPcs
    <2> QED BY <1>0, <1>1, <1>2, <2>2, OneMoves, StepKeepsTypes
  <1>3. CASE IssueSuccessor(r)
    <2> DEFINE new == [user |-> q.u, live |-> TRUE, login |-> refresh[q.i].login]
    <2>1. refresh' = Append(refresh, new) /\ Goto(r, "succeeded") /\ access' = access
      BY <1>3 DEF IssueSuccessor
    <2>2. new \in RefreshRow /\ new.login \in 1..Len(refresh)
      BY <1>0, TokenUser DEF Types, Tables, RefreshRow
    <2> HIDE DEF new
    <2>3. /\ refresh' \in Seq(RefreshRow) /\ DOMAIN refresh \subseteq DOMAIN refresh'
          /\ \A i \in DOMAIN refresh' : refresh'[i].login \in 1..Len(refresh')
      BY <1>0, <2>1, <2>2, RowAdded DEF Types, Tables
    <2>4. access' \subseteq [user : Users, tv : Nat]
      BY <2>1 DEF Types, Tables
    <2>5. Tables'
      BY <1>0, <2>3, <2>4, RefreshWritten
    <2> QED BY <1>2, <2>1, <2>3, <2>5
  <1>4. CASE SpendToken(r)
    <2>1. refresh' = [refresh EXCEPT ![q.i].live = FALSE] /\ Goto(r, "rotated") /\ access' = access
      BY <1>4 DEF SpendToken
    <2>2. /\ DOMAIN refresh' = DOMAIN refresh
          /\ refresh' = [i \in DOMAIN refresh |-> refresh'[i]]
          /\ \A i \in DOMAIN refresh : \/ refresh'[i] = refresh[i]
                                       \/ refresh'[i] = [refresh[i] EXCEPT !.live = FALSE]
      BY <2>1
    <2>3. Tables'
      BY <1>0, <2>1, <2>2, TokensKilled
    <2> QED BY <1>2, <2>1, <2>2, <2>3
  <1>5. CASE SignRefreshed(r)
    <2>1. refresh' = refresh
      BY <1>5 DEF SignRefreshed, rows
    <2>2. access' \subseteq [user : Users, tv : Nat]
      <3>1. access' = access \/ access' = access \cup {[user |-> q.u, tv |-> user[q.u].tv]}
        BY <1>5 DEF SignRefreshed
      <3>2. user[q.u].tv \in Nat
        BY <1>0 DEF Types, Tables, UserRow
      <3> QED BY <1>0, <3>1, <3>2 DEF Types, Tables
    <2>3. Tables'
      BY <1>0, <2>1, <2>2, RefreshWritten DEF Types, Tables
    <2>4. Answer(r) \/ Goto(r, "inactive")
      BY <1>5 DEF SignRefreshed
    <2> QED BY <1>0, <1>1, <1>2, <2>1, <2>3, <2>4, AnswerKeepsTypes
  <1> QED BY <1>3, <1>4, <1>5

LEMMA FirstUserTypes ==
    ASSUME Types, NEW r \in Requests, InstallRoles(r) \/ InsertFirstUser(r)
    PROVE  Types'
  <1>1. CASE InstallRoles(r)
    <2>1. /\ role' = [ro \in Roles |-> IF ro \in SystemRoles THEN BuiltIn(ro) ELSE role[ro]]
          /\ UNCHANGED <<user, refresh, link, access>> /\ Goto(r, "rolesInstalled")
          /\ req[r].pc = "counted"
      BY <1>1 DEF InstallRoles, At
    <2>2. role' \in [Roles -> RoleRow]
      BY <2>1 DEF BuiltIn, RoleRow, Types, Tables
    <2>3. \A u \in Users : Known(u) => role'[user[u].role].live
      <3>1. \A u \in Users : user[u].role \in Roles
        BY DEF Types, Tables, UserRow
      <3> QED BY <2>1, <3>1 DEF BuiltIn, Types, Tables
    <2>4. Tables'
      BY <2>1, <2>2, <2>3, RoleWritten
    <2>5. req'[r] \in Local /\ req'[r].pc = "rolesInstalled"
      BY <2>1, EndingGoto
    <2>6. role'[SuperAdmin].live
      BY <2>1, RoleAssumption DEF BuiltIn
    <2>7. Remembers(req[r])'
      BY <2>5, <2>6 DEF Remembers, KnownPcs, TokenPcs
    <2>8. \A u \in Users : Known(u) => Known(u)'
      BY <2>1 DEF Known
    <2> QED BY <2>1, <2>4, <2>6, <2>7, <2>8, OneMoves, StepKeepsTypes
  <1>2. CASE InsertFirstUser(r)
    <2> DEFINE row == NewUser(SuperAdmin, "active")
    <2>1. /\ user' = [user EXCEPT ![req[r].u] = row] /\ Goto(r, "stored")
          /\ UNCHANGED <<role, refresh, link, access>> /\ req[r].pc = "rolesInstalled"
      BY <1>2 DEF InsertFirstUser, At
    <2>2. row \in KnownRow /\ row.role = SuperAdmin /\ role[SuperAdmin].live
      BY <2>1, RoleAssumption, RequestOf DEF NewUser, KnownRow, UserRow, Remembers
    <2>3. req[r].u \in Users
      BY <2>1, RequestOf, PlainShape DEF PlainPcs
    <2>4. req'[r] \in Local /\ req'[r].pc = "stored"
      BY <2>1, EndingGoto
    <2>5. Remembers(req[r])'
      BY <2>4 DEF Remembers, KnownPcs, TokenPcs
    <2> HIDE DEF row
    <2>6. Tables' /\ \A v \in Users : Known(v) => Known(v)'
      BY <2>1, <2>2, <2>3, UserWritten
    <2> QED BY <2>1, <2>5, <2>6, OneMoves, StepKeepsTypes
  <1> QED BY <1>1, <1>2

LEMMA InsertInvitedTypes ==
    ASSUME Types, NEW r \in Requests, InsertInvited(r)
    PROVE  Types'
  <1> DEFINE u == req[r].u
             row == NewUser(req[r].role, "invited")
             q == [pc |-> "retiring", u |-> u, purpose |-> "invite"]
  <1>1. req[r] \in [pc : {"inviting"}, u : Users, role : Roles]
    BY RequestOf, InvitingShape DEF InsertInvited, At
  <1>2. row \in KnownRow /\ row.role = req[r].role
    BY <1>1 DEF NewUser, KnownRow, UserRow
  <1>3. /\ user' = [user EXCEPT ![u] = row] /\ role[req[r].role].live
        /\ req' = [req EXCEPT ![r] = q] /\ UNCHANGED <<role, refresh, link, access>>
    BY DEF InsertInvited, Types
  <1>4. q \in Local /\ q.pc = "retiring" /\ q.u = u
    BY <1>1 DEF Local
  <1>5. u \in Users
    BY <1>1
  <1> HIDE DEF row, q, u
  <1>6. /\ Tables' /\ \A v \in Users : Known(v) => Known(v)'
        /\ user'[u].status # "none"
    BY <1>2, <1>3, <1>5, UserWritten
  <1>7. /\ req'[r] = q
        /\ \A s \in Requests : s # r => req'[s] = req[s]
        /\ req' = [s \in Requests |-> req'[s]]
    BY <1>3, ReqMoves
  <1>8. Remembers(req[r])'
    BY <1>4, <1>6, <1>7 DEF Remembers, Known, TokenPcs
  <1> QED BY <1>3, <1>6, <1>7, <1>8, StepKeepsTypes

LEMMA SaveUserTypes ==
    ASSUME Types, NEW r \in Requests, SaveUser(r)
    PROVE  Types'
  <1> DEFINE u == req[r].u
             row == req[r].row
  <1>1. u \in Users /\ row \in KnownRow
    BY RequestOf, RowShape DEF SaveUser, At
  <1>2. /\ user' = [user EXCEPT ![u] = row] /\ role[row.role].live
        /\ UNCHANGED <<role, refresh, link, access>> /\ Answer(r)
    BY DEF SaveUser
  <1> HIDE DEF row, u
  <1>3. Tables' /\ \A v \in Users : Known(v) => Known(v)'
    BY <1>1, <1>2, UserWritten
  <1> QED BY <1>2, <1>3, AnswerKeepsTypes

LEMMA RoleTypes ==
    ASSUME Types, NEW r \in Requests, SaveRole(r) \/ DeleteRole(r)
    PROVE  Types'
  <1>0. /\ role \in [Roles -> RoleRow] /\ \A u \in Users : Known(u) => role[user[u].role].live
        /\ \A u \in Users : user[u].role \in Roles
        /\ UNCHANGED <<user, refresh, link, access>> /\ Answer(r)
    BY DEF Types, Tables, UserRow, SaveRole, DeleteRole
  <1>1. \A u \in Users : Known(u) => Known(u)'
    BY <1>0 DEF Known
  <1>2. CASE SaveRole(r)
    <2>1. req[r] \in [pc : {"roleSaving"}, role : Roles, perms : SUBSET PermKeys]
      BY <1>2, RequestOf, RoleShape DEF SaveRole, At
    <2>2. role' = [role EXCEPT ![req[r].role] = [live |-> TRUE, perms |-> req[r].perms]]
      BY <1>2 DEF SaveRole
    <2>3. role' \in [Roles -> RoleRow] /\ \A ro \in Roles : role[ro].live => role'[ro].live
      BY <1>0, <2>1, <2>2 DEF RoleRow
    <2>4. Tables'
      BY <1>0, <2>3, RoleWritten
    <2>5. Remembers(req[r])'
      BY <1>0, OneMoves, IdleIsRemembered DEF Remembers
    <2>6. ASSUME NEW s \in Requests, s # r PROVE Remembers(req[s])'
      <3>1. req'[s] = req[s] /\ Remembers(req[s]) /\ req[s] \in Local
        BY <1>0, <2>6, OneMoves, RequestOf
      <3>2. role[SuperAdmin].live => role'[SuperAdmin].live
        BY <2>3, RoleAssumption
      <3> QED BY <1>0, <3>1, <3>2 DEF Remembers, Known
    <2>7. req' = [s \in Requests |-> req'[s]]
      BY <1>0, OneMoves
    <2> QED BY <2>4, <2>5, <2>6, <2>7 DEF Types
  <1>3. CASE DeleteRole(r)
    <2>1. req[r] \in [pc : {"roleRemoving"}, role : Roles] /\ req[r].role \notin SystemRoles
      BY <1>3, RequestOf, RoleShape DEF DeleteRole, At, Remembers
    <2>2. /\ role' = [role EXCEPT ![req[r].role] = NoRole]
          /\ \A u \in Users : Known(u) => user[u].role # req[r].role
      BY <1>3 DEF DeleteRole, Holders, Known
    <2>3. /\ role' \in [Roles -> RoleRow]
          /\ \A ro \in Roles : ro # req[r].role => role'[ro] = role[ro]
      BY <1>0, <2>1, <2>2 DEF RoleRow, NoRole
    <2>4. Tables'
      BY <1>0, <2>2, <2>3, RoleWritten
    <2>5. Remembers(req[r])'
      BY <1>0, OneMoves, IdleIsRemembered DEF Remembers
    <2>6. ASSUME NEW s \in Requests, s # r PROVE Remembers(req[s])'
      <3>1. req'[s] = req[s] /\ Remembers(req[s]) /\ req[s] \in Local
        BY <1>0, <2>6, OneMoves, RequestOf
      <3>2. role'[SuperAdmin] = role[SuperAdmin]
        BY <2>1, <2>3, RoleAssumption
      <3> QED BY <1>0, <3>1, <3>2 DEF Remembers, Known
    <2>7. req' = [s \in Requests |-> req'[s]]
      BY <1>0, OneMoves
    <2> QED BY <2>4, <2>5, <2>6, <2>7 DEF Types
  <1> QED BY <1>2, <1>3

LEMMA TypesKept ==
    ASSUME Types, [Next]_vars
    PROVE  Types'
  <1>1. CASE UNCHANGED vars
    <2>1. /\ user' = user /\ role' = role /\ refresh' = refresh /\ link' = link
          /\ access' = access /\ req' = req
      BY <1>1 DEF vars
    <2>2. Tables'
      BY <2>1, SameTables DEF Types, rows
    <2>3. \A r \in Requests : Remembers(req[r])'
      BY <2>1 DEF Types, Remembers, Known
    <2> QED BY <2>1, <2>2, <2>3 DEF Types
  <1>2. ASSUME NEW r \in Requests, Arrive(r) PROVE Types'
    BY <1>2, ArriveKeepsTypes
  <1>3. ASSUME NEW r \in Requests, Advance(r) PROVE Types'
    BY <1>3, OpenSessionTypes, ReadBackTypes, RevokeAllTypes, BumpTypes, SetPasswordTypes,
       LinkTypes, RotationTypes, FirstUserTypes, InsertInvitedTypes, SaveUserTypes, RoleTypes
       DEF Advance
  <1>4. ASSUME NEW r \in Requests, Fail(r) PROVE Types'
    <2>1. Answer(r) /\ UNCHANGED <<user, role, refresh, link, access>>
      BY <1>4 DEF Fail, rows
    <2>2. Tables' /\ \A u \in Users : Known(u) => Known(u)'
      BY <2>1, SameTables DEF Types, Known, rows
    <2> QED BY <2>1, <2>2, AnswerKeepsTypes
  <1> QED BY <1>1, <1>2, <1>3, <1>4 DEF Next

LEMMA TypesInit == Init => Types
  <1> SUFFICES ASSUME Init PROVE Types
    OBVIOUS
  <1>1. /\ refresh = <<>> /\ link = <<>> /\ access = {} /\ torn = {}
        /\ req = [r \in Requests |-> Idle]
    BY DEF Init
  <1>2. /\ user \in [Users -> UserRow] /\ role \in [Roles -> RoleRow]
        /\ \A u \in Users : ~Known(u) => user[u] = NoUser
        /\ \A u \in Users : Known(u) => role[user[u].role].live
    <2>0. NoUser \in UserRow /\ NoRole \in RoleRow /\ NoUser.status = "none"
      BY RoleAssumption DEF NoUser, UserRow, NoRole, RoleRow
    <2>1. CASE user = [u \in Users |-> NoUser] /\ role = [ro \in Roles |-> NoRole]
      BY <2>0, <2>1 DEF Known
    <2>2. CASE /\ role \in [Roles -> {NoRole} \cup {BuiltIn(ro) : ro \in Roles}]
               /\ user \in [Users -> {NoUser} \cup {NewUser(ro, s) :
                     ro \in Roles, s \in {"invited", "active", "suspended"}}]
               /\ \A u \in Users : user[u] # NoUser => role[user[u].role].live
      <3>1. \A ro \in Roles : BuiltIn(ro) \in RoleRow
        BY DEF BuiltIn, RoleRow
      <3>2. \A ro \in Roles, s \in {"invited", "active", "suspended"} :
               NewUser(ro, s) \in UserRow /\ NewUser(ro, s).status # "none"
        BY DEF NewUser, UserRow
      <3>3. \A u \in Users : user[u] \in UserRow /\ (user[u] = NoUser \/ user[u].status # "none")
        BY <2>0, <2>2, <3>2
      <3>4. user \in [Users -> UserRow] /\ role \in [Roles -> RoleRow]
        BY <2>0, <2>2, <3>1, <3>3
      <3> QED BY <2>0, <2>2, <3>3, <3>4 DEF Known
    <2> QED BY <2>1, <2>2 DEF Init
  <1>3. /\ refresh \in Seq(RefreshRow) /\ link \in Seq(LinkRow)
        /\ DOMAIN link = {} /\ DOMAIN refresh = {}
    BY <1>1
  <1>4. Tables
    BY <1>1, <1>2, <1>3 DEF Tables
  <1> QED BY <1>1, <1>4, IdleIsRemembered DEF Types

LEMMA TypesHold == Spec => []Types
  BY TypesInit, TypesKept, PTL DEF Spec
-----------------------------------------------------------------------------
(***************************************************************************)
(* The refresh tokens that have been issued and those the requests in      *)
(* flight may still insert are never more than MaxRefresh.                 *)
(***************************************************************************)
Inserting == {"counted", "rolesInstalled", "stored", "signedIn", "rotating", "redeeming",
              "accepting"}

Inserters == {r \in Requests : req[r].pc \in Inserting}

Budget ==
    /\ Len(refresh) + Cardinality(Inserters) <= MaxRefresh
    /\ torn \subseteq 1..MaxRefresh

LEMMA InsertersCount ==
    /\ IsFiniteSet(Inserters) /\ Cardinality(Inserters) \in Nat
    /\ \A X : X \subseteq Inserters => IsFiniteSet(X) /\ Cardinality(X) <= Cardinality(Inserters)
  <1>1. IsFiniteSet(Requests)
    BY BoundAssumption
  <1>2. IsFiniteSet(Inserters)
    BY <1>1, FS_Subset DEF Inserters
  <1> QED BY <1>2, FS_Subset, FS_CardinalityType

LEMMA BudgetStays ==
    ASSUME Types, Budget, Len(refresh') = Len(refresh), torn' \subseteq 1..MaxRefresh,
           \A s \in Requests : req'[s].pc \in Inserting => req[s].pc \in Inserting
    PROVE  Budget'
  <1>1. Inserters' \subseteq Inserters
    BY DEF Inserters
  <1>2. Cardinality(Inserters') <= Cardinality(Inserters) /\ IsFiniteSet(Inserters')
    BY <1>1, InsertersCount
  <1>3. Cardinality(Inserters') \in Nat /\ Cardinality(Inserters) \in Nat
    BY <1>2, InsertersCount, FS_CardinalityType
  <1>4. Len(refresh) \in Nat /\ MaxRefresh \in Nat
    BY BoundAssumption DEF Types, Tables
  <1> QED BY <1>2, <1>3, <1>4 DEF Budget

LEMMA BudgetSpent ==
    ASSUME Types, Budget, Len(refresh') = Len(refresh) + 1, torn' = torn,
           NEW r \in Requests, req[r].pc \in Inserting, req'[r].pc \notin Inserting,
           \A s \in Requests : s # r => req'[s] = req[s]
    PROVE  Budget'
  <1>1. r \in Inserters /\ Inserters' \subseteq Inserters \ {r}
    BY DEF Inserters
  <1>2. /\ IsFiniteSet(Inserters \ {r})
        /\ Cardinality(Inserters \ {r}) = Cardinality(Inserters) - 1
    BY <1>1, InsertersCount, FS_RemoveElement
  <1>3. IsFiniteSet(Inserters') /\ Cardinality(Inserters') <= Cardinality(Inserters \ {r})
    BY <1>1, <1>2, FS_Subset
  <1>4. Cardinality(Inserters') \in Nat /\ Cardinality(Inserters) \in Nat
    BY <1>3, InsertersCount, FS_CardinalityType
  <1>5. Len(refresh) \in Nat /\ MaxRefresh \in Nat
    BY BoundAssumption DEF Types, Tables
  <1> QED BY <1>2, <1>3, <1>4, <1>5 DEF Budget

LEMMA BudgetAsked ==
    ASSUME Types, Budget, NEW r \in Requests, req[r] = Idle, RoomForRefresh,
           \A s \in Requests : s # r => req'[s] = req[s], UNCHANGED <<refresh, torn>>
    PROVE  Budget'
  <1> DEFINE flying == {s \in Requests : req[s] # Idle}
  <1>1. IsFiniteSet(flying) /\ Cardinality(flying) \in Nat
    BY BoundAssumption, FS_Subset, FS_CardinalityType
  <1>2. Inserters' \subseteq flying \cup {r}
    BY DEF Inserters, Inserting, Idle
  <1>3. r \notin flying
    OBVIOUS
  <1>4. Len(refresh) + Cardinality(flying) < MaxRefresh
    BY DEF RoomForRefresh, InFlight
  <1> HIDE DEF flying
  <1>5. IsFiniteSet(flying \cup {r}) /\ Cardinality(flying \cup {r}) = Cardinality(flying) + 1
    BY <1>1, <1>3, FS_AddElement
  <1>6. IsFiniteSet(Inserters') /\ Cardinality(Inserters') <= Cardinality(flying) + 1
    BY <1>2, <1>5, FS_Subset
  <1>7. Cardinality(Inserters') \in Nat
    BY <1>6, FS_CardinalityType
  <1>8. Len(refresh) \in Nat /\ MaxRefresh \in Nat
    BY BoundAssumption DEF Types, Tables
  <1>9. Len(refresh') + Cardinality(Inserters') <= MaxRefresh
    BY <1>1, <1>4, <1>6, <1>7, <1>8
  <1> QED BY <1>9 DEF Budget

\* Where a step leaves its request, when that is not a place to insert from.
LEMMA BudgetOfOne ==
    ASSUME Types, Budget, NEW r \in Requests,
           \A s \in Requests : s # r => req'[s] = req[s],
           req'[r].pc \notin Inserting \/ req[r].pc \in Inserting,
           Len(refresh') = Len(refresh), torn' = torn
    PROVE  Budget'
  <1>1. torn' \subseteq 1..MaxRefresh
    BY DEF Budget
  <1>2. \A s \in Requests : req'[s].pc \in Inserting => req[s].pc \in Inserting
    OBVIOUS
  <1> QED BY <1>1, <1>2, BudgetStays

LEMMA ArriveKeepsBudget ==
    ASSUME Types, Budget, NEW r \in Requests, Arrive(r)
    PROVE  Budget'
  <1>1. ASSUME NEW op, NEW q, Begin(r, op, q), RoomForRefresh \/ q.pc \notin Inserting
        PROVE  Budget'
    <2>1. /\ req[r] = Idle /\ req' = [req EXCEPT ![r] = q] /\ UNCHANGED <<refresh, torn>>
      BY <1>1 DEF Begin, rows
    <2>2. req'[r] = q /\ \A s \in Requests : s # r => req'[s] = req[s]
      BY <2>1, ReqMoves
    <2>3. CASE RoomForRefresh
      BY <2>1, <2>2, <2>3, BudgetAsked
    <2>4. CASE q.pc \notin Inserting
      <3>1. Len(refresh') = Len(refresh) /\ torn' = torn
        BY <2>1
      <3> QED BY <2>2, <2>4, <3>1, BudgetOfOne
    <2> QED BY <1>1, <2>3, <2>4
  <1>2. ASSUME NEW u \in Users, \/ CountUsers(r, u) \/ ReadForLogin(r, u) \/ LogoutAll(r, u)
                                \/ ChangePassword(r, u) \/ ForgotPassword(r, u)
        PROVE  Budget'
    BY <1>1, <1>2 DEF CountUsers, ReadForLogin, LogoutAll, ChangePassword, ForgotPassword, Inserting
  <1>3. ASSUME NEW i \in DOMAIN refresh, ReadRefreshToken(r, i) PROVE Budget'
    BY <1>1, <1>3 DEF ReadRefreshToken
  <1>4. ASSUME NEW i \in DOMAIN refresh, Logout(r, i) PROVE Budget'
    <2>1. /\ refresh' = [refresh EXCEPT ![i].live = FALSE] /\ req' = req /\ torn' = torn
          /\ UNCHANGED <<user, role, link, access>>
      BY <1>4 DEF Logout
    <2>2. /\ DOMAIN refresh' = DOMAIN refresh
          /\ refresh' = [j \in DOMAIN refresh |-> refresh'[j]]
          /\ \A j \in DOMAIN refresh : \/ refresh'[j] = refresh[j]
                                       \/ refresh'[j] = [refresh[j] EXCEPT !.live = FALSE]
      BY <2>1
    <2>4. Len(refresh') = Len(refresh)
      BY <2>1, <2>2, TokensKilled
    <2>3. torn' \subseteq 1..MaxRefresh
      BY <2>1 DEF Budget
    <2> QED BY <2>1, <2>3, <2>4, BudgetStays
  <1>5. ASSUME NEW k \in DOMAIN link, ReadLink(r, k) PROVE Budget'
    BY <1>1, <1>5 DEF ReadLink
  <1>6. ASSUME NEW a \in Users, NEW u \in Users, ResendInvite(r, a, u) PROVE Budget'
    BY <1>1, <1>6 DEF ResendInvite, Inserting
  <1>7. ASSUME NEW op, NEW u, NEW ro, NEW s, Edit(r, op, u, ro, s) PROVE Budget'
    <2>1. Begin(r, op, EditState(u, ro, s))
      BY <1>7, EditBegins
    <2>2. EditState(u, ro, s).pc \notin Inserting
      BY DEF EditState, Inserting
    <2> QED BY <1>1, <2>1, <2>2
  <1>8. ASSUME NEW a \in Users, NEW u \in Users, ToggleStatus(r, a, u) PROVE Budget'
    BY <1>7, <1>8 DEF ToggleStatus
  <1>9. ASSUME NEW a \in Users, NEW u \in Users, NEW ro \in Roles, Invite(r, a, u, ro)
        PROVE  Budget'
    BY <1>1, <1>9 DEF Invite, Inserting
  <1>10. ASSUME NEW a \in Users, NEW u \in Users, NEW ro \in Roles,
                NEW s \in {"invited", "active", "suspended"}, PatchUser(r, a, u, ro, s)
         PROVE  Budget'
    BY <1>7, <1>10 DEF PatchUser
  <1>11. ASSUME NEW a \in Users, NEW ro \in Roles, PatchRole(r, a, ro) \/ RemoveRole(r, a, ro)
         PROVE  Budget'
    BY <1>1, <1>11 DEF PatchRole, RemoveRole, Inserting
  <1>12. ASSUME NEW a \in Users, NEW ro \in Roles, NEW perms \in PermSets,
                CreateRole(r, a, ro, perms) \/ SetPerms(r, a, ro, perms)
         PROVE  Budget'
    BY <1>1, <1>12 DEF CreateRole, SetPerms, Inserting
  <1> QED BY <1>2, <1>3, <1>4, <1>5, <1>6, <1>8, <1>9, <1>10, <1>11, <1>12 DEF Arrive

LEMMA AdvanceKeepsBudget ==
    ASSUME Types, Budget, NEW r \in Requests, Advance(r)
    PROVE  Budget'
  <1> USE DEF Inserting, Idle
  <1>0. refresh \in Seq(RefreshRow) /\ Len(refresh) \in Nat
    BY DEF Types, Tables
  <1>1. CASE OpenSession(r)
    <2>1. /\ \E new : refresh' = Append(refresh, new)
          /\ torn' = torn /\ Answer(r) /\ req[r].pc = "signedIn"
      BY <1>1 DEF OpenSession, At
    <2>2. Len(refresh') = Len(refresh) + 1
      BY <1>0, <2>1
    <2>3. req'[r].pc \notin Inserting /\ \A s \in Requests : s # r => req'[s] = req[s]
      BY <2>1, OneMoves
    <2> QED BY <2>1, <2>2, <2>3, BudgetSpent
  <1>2. CASE IssueSuccessor(r)
    <2>1. /\ \E new : refresh' = Append(refresh, new)
          /\ torn' = torn /\ Goto(r, "succeeded") /\ req[r].pc = "rotating"
      BY <1>2 DEF IssueSuccessor, At
    <2>2. Len(refresh') = Len(refresh) + 1
      BY <1>0, <2>1
    <2>3. req'[r].pc = "succeeded"
      BY <2>1, TokenGoto DEF TokenPcs
    <2> QED BY <2>1, <2>2, <2>3, OneMoves, BudgetSpent
  <1>3. CASE ReadBack(r)
    <2>1. req' = [req EXCEPT ![r] = [pc |-> "signedIn", u |-> req[r].u, tv |-> user[req[r].u].tv]]
          /\ refresh' = refresh /\ torn' = torn /\ req[r].pc = "stored"
      BY <1>3 DEF ReadBack, At, rows, Types
    <2>2. \A s \in Requests : s # r => req'[s] = req[s]
      BY <2>1, ReqMoves
    <2> QED BY <2>1, <2>2, BudgetOfOne
  <1>4. CASE RevokeAllForUser(r)
    <2>1. refresh' = AllRevoked(req[r].u) /\ torn' = torn
      BY <1>4 DEF RevokeAllForUser
    <2>2. /\ DOMAIN refresh' = DOMAIN refresh
          /\ refresh' = [i \in DOMAIN refresh |-> refresh'[i]]
          /\ \A i \in DOMAIN refresh : \/ refresh'[i] = refresh[i]
                                       \/ refresh'[i] = [refresh[i] EXCEPT !.live = FALSE]
      BY <2>1 DEF AllRevoked
    <2>3. Len(refresh') = Len(refresh)
      BY <1>4, <2>2, TokensKilled DEF RevokeAllForUser
    <2>4. req'[r].pc \notin Inserting /\ \A s \in Requests : s # r => req'[s] = req[s]
      <3>1. CASE Answer(r)
        BY <3>1, OneMoves
      <3>2. CASE Goto(r, "bumping") /\ req[r].pc \in {"leaving", "passwordSet"}
        BY <3>2, OneMoves, EndingGoto
      <3>3. CASE Goto(r, "saving") /\ req[r].pc = "suspending"
        BY <3>3, OneMoves, RowGoto
      <3> QED BY <1>4, <3>1, <3>2, <3>3 DEF RevokeAllForUser, AfterRevoking
    <2> QED BY <2>1, <2>3, <2>4, BudgetOfOne
  <1>5. CASE SpendToken(r)
    <2>1. refresh' = [refresh EXCEPT ![req[r].i].live = FALSE] /\ Goto(r, "rotated")
          /\ torn' = torn /\ req[r].pc = "succeeded" /\ UNCHANGED <<user, role, link, access>>
      BY <1>5 DEF SpendToken, At
    <2>2. /\ DOMAIN refresh' = DOMAIN refresh
          /\ refresh' = [i \in DOMAIN refresh |-> refresh'[i]]
          /\ \A i \in DOMAIN refresh : \/ refresh'[i] = refresh[i]
                                       \/ refresh'[i] = [refresh[i] EXCEPT !.live = FALSE]
      BY <2>1
    <2>3. Len(refresh') = Len(refresh)
      BY <2>1, <2>2, TokensKilled
    <2>4. req'[r].pc = "rotated"
      BY <2>1, TokenGoto DEF TokenPcs
    <2> QED BY <2>1, <2>3, <2>4, OneMoves, BudgetOfOne
  <1>6. CASE SignRefreshed(r)
    <2>1. refresh' = refresh /\ torn' = torn /\ req[r].pc = "rotated"
          /\ (Answer(r) \/ Goto(r, "inactive"))
      BY <1>6 DEF SignRefreshed, At, rows
    <2>2. req'[r].pc \notin Inserting
      BY <2>1, OneMoves, TokenGoto DEF TokenPcs
    <2> QED BY <2>1, <2>2, OneMoves, BudgetOfOne
  <1>7. CASE SetPassword(r) \/ RedeemLink(r) \/ InstallRoles(r) \/ InsertFirstUser(r)
             \/ RetireLinks(r)
    <2>1. refresh' = refresh /\ torn' = torn
      BY <1>7 DEF SetPassword, RedeemLink, InstallRoles, InsertFirstUser, RetireLinks
    <2>2. \E pc : Goto(r, pc)
      BY <1>7 DEF SetPassword, RedeemLink, InstallRoles, InsertFirstUser, RetireLinks
    <2>3. req[r].pc \in Inserting \/ req'[r].pc \notin Inserting
      <3>1. CASE req[r].pc = "resetting" /\ Goto(r, "passwordSet")
        BY <3>1, EndingGoto
      <3>2. CASE req[r].pc = "retiring" /\ Goto(r, "linking")
        BY <3>2, LinkingGoto
      <3> QED BY <1>7, <3>1, <3>2
          DEF SetPassword, RedeemLink, InstallRoles, InsertFirstUser, RetireLinks, At
    <2> QED BY <2>1, <2>2, <2>3, OneMoves, BudgetOfOne
  <1>8. CASE BumpTokenVersion(r) \/ InsertLink(r) \/ SaveUser(r) \/ SaveRole(r) \/ DeleteRole(r)
    <2>1. refresh' = refresh /\ torn' = torn /\ Answer(r)
      BY <1>8 DEF BumpTokenVersion, InsertLink, SaveUser, SaveRole, DeleteRole
    <2> QED BY <2>1, OneMoves, BudgetOfOne
  <1>9. CASE InsertInvited(r)
    <2>1. req' = [req EXCEPT ![r] = [pc |-> "retiring", u |-> req[r].u, purpose |-> "invite"]]
          /\ refresh' = refresh /\ torn' = torn
      BY <1>9 DEF InsertInvited, Types
    <2>2. req'[r].pc = "retiring" /\ \A s \in Requests : s # r => req'[s] = req[s]
      BY <2>1, ReqMoves
    <2> QED BY <2>1, <2>2, BudgetOfOne
  <1> QED BY <1>1, <1>2, <1>3, <1>4, <1>5, <1>6, <1>7, <1>8, <1>9 DEF Advance

LEMMA BudgetHolds == Spec => []Budget
  <1>1. Init => Budget
    <2> SUFFICES ASSUME Init PROVE Budget
      OBVIOUS
    <2>1. refresh = <<>> /\ torn = {} /\ Inserters = {}
      BY DEF Init, Inserters, Inserting, Idle
    <2>2. Len(refresh) = 0 /\ Cardinality(Inserters) = 0
      BY <2>1, FS_EmptySet
    <2> QED BY <2>1, <2>2, BoundAssumption DEF Budget
  <1>2. Types /\ Budget /\ [Next]_vars => Budget'
    <2> SUFFICES ASSUME Types, Budget, [Next]_vars PROVE Budget'
      OBVIOUS
    <2>1. CASE UNCHANGED vars
      BY <2>1 DEF vars, Budget, Inserters
    <2>2. ASSUME NEW r \in Requests, Fail(r) PROVE Budget'
      <3>1. Answer(r) /\ refresh' = refresh
        BY <2>2 DEF Fail, rows
      <3>2. \A s \in Requests : req'[s].pc \in Inserting => req[s].pc \in Inserting
        BY <3>1, OneMoves DEF Idle, Inserting
      <3>3. torn' \subseteq 1..MaxRefresh
        <4>1. CASE At(r, "succeeded")
          <5>1. refresh[req[r].i].login \in 1..Len(refresh)
            BY <4>1, RequestOf DEF At, Remembers, TokenPcs, Types, Tables
          <5>2. Len(refresh) <= MaxRefresh /\ Len(refresh) \in Nat /\ MaxRefresh \in Nat
            BY InsertersCount, BoundAssumption DEF Budget, Types, Tables
          <5>3. refresh[req[r].i].login \in 1..MaxRefresh
            BY <5>1, <5>2
          <5> QED BY <2>2, <4>1, <5>3 DEF Fail, Budget
        <4>2. CASE ~At(r, "succeeded")
          BY <2>2, <4>2 DEF Fail, Budget
        <4> QED BY <4>1, <4>2
      <3> QED BY <3>1, <3>2, <3>3, BudgetStays
    <2> QED BY <2>1, <2>2, ArriveKeepsBudget, AdvanceKeepsBudget DEF Next
  <1> QED BY <1>1, <1>2, TypesHold, PTL DEF Spec

\* Whatever requests overlap or fail half-way: every user row is typed and
\* holds a role that exists, so that no handler finds a user without one.
THEOREM SessionTypes == Spec => []TypeOK
  <1>1. Types /\ Budget => TypeOK
    <2> SUFFICES ASSUME Types, Budget PROVE TypeOK
      OBVIOUS
    <2>1. /\ \A i \in DOMAIN refresh : refresh[i] \in RefreshRow
          /\ \A k \in DOMAIN link : link[k] \in LinkRow
      BY LinkUser, TokenUser DEF Types
    <2> QED BY <2>1 DEF Types, Tables, Known, Budget, TypeOK
  <1> QED BY <1>1, TypesHold, BudgetHolds, PTL
-----------------------------------------------------------------------------
(***************************************************************************)
(* From here on requests run one at a time.  Each may still fail at any    *)
(* await, so every prefix of every handler is followed by every other one. *)
(* With two in flight none of the following holds: a token presented twice *)
(* is rotated twice, a row loaded before a suspension is saved after it.   *)
(***************************************************************************)
Alone == \A r, s \in Requests : r = s

\* Tokens are killed at most: none is added, and none changes hands.
TokensOnlyDie ==
    /\ DOMAIN refresh' = DOMAIN refresh
    /\ Len(refresh') = Len(refresh)
    /\ \A i \in DOMAIN refresh : /\ refresh'[i].user = refresh[i].user
                                 /\ refresh'[i].login = refresh[i].login
                                 /\ refresh'[i].live => refresh[i].live

LEMMA SomeDie ==
    ASSUME Types,
           \/ refresh' = refresh
           \/ \E i : refresh' = [refresh EXCEPT ![i].live = FALSE]
           \/ \E u : refresh' = AllRevoked(u)
    PROVE  TokensOnlyDie
  <1>1. refresh \in Seq(RefreshRow) /\ \A i \in DOMAIN refresh : refresh[i] \in RefreshRow
    BY TokenUser DEF Types, Tables
  <1>2. /\ DOMAIN refresh' = DOMAIN refresh
        /\ refresh' = [i \in DOMAIN refresh |-> refresh'[i]]
        /\ \A i \in DOMAIN refresh : \/ refresh'[i] = refresh[i]
                                     \/ refresh'[i] = [refresh[i] EXCEPT !.live = FALSE]
    <2>1. CASE refresh' = refresh
      BY <1>1, <2>1
    <2>2. ASSUME NEW i, refresh' = [refresh EXCEPT ![i].live = FALSE]
          PROVE  /\ DOMAIN refresh' = DOMAIN refresh
                 /\ refresh' = [j \in DOMAIN refresh |-> refresh'[j]]
                 /\ \A j \in DOMAIN refresh : \/ refresh'[j] = refresh[j]
                                              \/ refresh'[j] = [refresh[j] EXCEPT !.live = FALSE]
      BY <2>2
    <2>3. ASSUME NEW u, refresh' = AllRevoked(u)
          PROVE  /\ DOMAIN refresh' = DOMAIN refresh
                 /\ refresh' = [j \in DOMAIN refresh |-> refresh'[j]]
                 /\ \A j \in DOMAIN refresh : \/ refresh'[j] = refresh[j]
                                              \/ refresh'[j] = [refresh[j] EXCEPT !.live = FALSE]
      BY <2>3 DEF AllRevoked
    <2> QED BY <2>1, <2>2, <2>3
  <1>3. \A i \in DOMAIN refresh : /\ refresh'[i] \in RefreshRow
                                  /\ refresh'[i].user = refresh[i].user
                                  /\ refresh'[i].login = refresh[i].login
                                  /\ refresh'[i].live => refresh[i].live
    BY <1>1, <1>2 DEF RefreshRow
  <1>4. Len(refresh') = Len(refresh)
    BY <1>1, <1>2, <1>3, RowsWritten
  <1> QED BY <1>2, <1>3, <1>4 DEF TokensOnlyDie

\* A request arrives: a logout, which kills one token, or a handler that has
\* only read.  Of what it has read, this is what matters.
Starting == {"counted", "leaving", "resetting", "retiring", "redeeming", "inviting",
             "roleSaving", "roleRemoving", "reused"}

ArrivesToSignIn(r) ==
    \E u \in Users : /\ user[u].status = "active"
                    /\ req'[r] = [pc |-> "signedIn", u |-> u, tv |-> user[u].tv]

ArrivesToRotate(r) ==
    \E i \in DOMAIN refresh : /\ refresh[i].live /\ refresh' = refresh
                              /\ req'[r] = [pc |-> "rotating", u |-> refresh[i].user, i |-> i]

ArrivesToEdit(r) ==
    \E a \in Users, u \in Users, ro \in Roles, s \in {"invited", "active", "suspended"} :
       /\ May(a, "user.update")
       /\ user[u].status # "none"
       /\ a = u => ro = user[u].role /\ s = "active"
       /\ req'[r] = EditState(u, ro, s)

LEMMA WhatArrives ==
    ASSUME Types, NEW r \in Requests, Arrive(r)
    PROVE  /\ req[r] = Idle /\ TokensOnlyDie /\ UNCHANGED <<user, role, link, access, torn>>
           /\ \A s \in Requests : s # r => req'[s] = req[s]
           /\ \/ req'[r] = Idle \/ req'[r].pc \in Starting
              \/ ArrivesToSignIn(r) \/ ArrivesToRotate(r) \/ ArrivesToEdit(r)
  <1> DEFINE Frame == /\ req[r] = Idle /\ TokensOnlyDie
                      /\ UNCHANGED <<user, role, link, access, torn>>
                      /\ \A s \in Requests : s # r => req'[s] = req[s]
             Goal == Frame /\ \/ req'[r] = Idle \/ req'[r].pc \in Starting
                              \/ ArrivesToSignIn(r) \/ ArrivesToRotate(r) \/ ArrivesToEdit(r)
  <1>1. ASSUME NEW op, NEW q, Begin(r, op, q) PROVE Frame /\ req'[r] = q /\ refresh' = refresh
    BY <1>1, ReqMoves, SomeDie DEF Begin, rows
  <1> HIDE DEF Frame
  <1>2. ASSUME NEW op, NEW q, Begin(r, op, q), q.pc \in Starting PROVE Goal
    BY <1>1, <1>2
  <1>3. ASSUME NEW u \in Users, \/ CountUsers(r, u) \/ LogoutAll(r, u)
                                \/ ChangePassword(r, u) \/ ForgotPassword(r, u)
        PROVE  Goal
    BY <1>2, <1>3 DEF CountUsers, LogoutAll, ChangePassword, ForgotPassword, Starting
  <1>4. ASSUME NEW u \in Users, ReadForLogin(r, u) PROVE Goal
    BY <1>1, <1>4 DEF ReadForLogin, ArrivesToSignIn
  <1>5. ASSUME NEW i \in DOMAIN refresh, ReadRefreshToken(r, i) PROVE Goal
    <2>1. CASE refresh[i].live
      <3>1. Begin(r, "refresh", [pc |-> "rotating", u |-> refresh[i].user, i |-> i])
        BY <1>5, <2>1 DEF ReadRefreshToken
      <3> QED BY <1>1, <2>1, <3>1 DEF ArrivesToRotate
    <2>2. CASE ~refresh[i].live
      BY <1>2, <1>5, <2>2 DEF ReadRefreshToken, Starting
    <2> QED BY <2>1, <2>2
  <1>6. ASSUME NEW i \in DOMAIN refresh, Logout(r, i) PROVE Goal
    BY <1>6, SomeDie DEF Logout, Frame
  <1>7. ASSUME NEW k \in DOMAIN link, ReadLink(r, k) PROVE Goal
    BY <1>2, <1>7 DEF ReadLink, Starting
  <1>8. ASSUME NEW a \in Users, NEW u \in Users, ResendInvite(r, a, u) PROVE Goal
    BY <1>2, <1>8 DEF ResendInvite, Starting
  <1>9. ASSUME NEW a \in Users, NEW u \in Users, NEW ro \in Roles, Invite(r, a, u, ro)
        PROVE  Goal
    BY <1>2, <1>9 DEF Invite, Starting
  <1>10. ASSUME NEW a \in Users, NEW u \in Users, NEW ro \in Roles,
                NEW s \in {"invited", "active", "suspended"}, NEW op,
                May(a, "user.update"), user[u].status # "none", a = u => ro = user[u].role, MayApply(a, u, s),
                Edit(r, op, u, ro, s)
         PROVE  Goal
    <2>1. a = u => s = "active"
      BY <1>10, SignedInIsKnown DEF May, MayApply
    <2>2. ArrivesToEdit(r)
      BY <1>1, <1>10, <2>1, EditBegins DEF ArrivesToEdit
    <2> QED BY <1>1, <1>10, <2>2, EditBegins
  <1>11. ASSUME NEW a \in Users, NEW u \in Users, ToggleStatus(r, a, u) PROVE Goal
    <2>1. user[u].role \in Roles
      BY DEF Types, Tables, UserRow
    <2> QED BY <1>10, <1>11, <2>1 DEF ToggleStatus
  <1>12. ASSUME NEW a \in Users, NEW u \in Users, NEW ro \in Roles,
                NEW s \in {"invited", "active", "suspended"}, PatchUser(r, a, u, ro, s)
         PROVE  Goal
    BY <1>10, <1>12 DEF PatchUser
  <1>13. ASSUME NEW a \in Users, NEW ro \in Roles, PatchRole(r, a, ro) \/ RemoveRole(r, a, ro)
         PROVE  Goal
    BY <1>2, <1>13 DEF PatchRole, RemoveRole, Starting
  <1>14. ASSUME NEW a \in Users, NEW ro \in Roles, NEW perms \in PermSets,
                CreateRole(r, a, ro, perms) \/ SetPerms(r, a, ro, perms)
         PROVE  Goal
    BY <1>2, <1>14 DEF CreateRole, SetPerms, Starting
  <1>15. Goal
    BY <1>3, <1>4, <1>5, <1>6, <1>7, <1>8, <1>9, <1>11, <1>12, <1>13, <1>14 DEF Arrive
  <1> QED BY <1>15 DEF Frame

\* Where each step leaves its request.
GoesTo(r, pc) == req'[r].pc = pc /\ req'[r].u = req[r].u

LEMMA WhereStepsLead ==
    ASSUME Types, NEW r \in Requests
    PROVE  /\ OpenSession(r) \/ BumpTokenVersion(r) \/ InsertLink(r) \/ SaveUser(r)
                 \/ SaveRole(r) \/ DeleteRole(r) \/ Fail(r) => req'[r] = Idle
           /\ ReadBack(r) => GoesTo(r, "signedIn") /\ req'[r].tv = user[req[r].u].tv
           /\ RevokeAllForUser(r) =>
                 \/ req'[r] = Idle
                 \/ At(r, "suspending") /\ GoesTo(r, "saving") /\ req'[r].row = req[r].row
                 \/ (At(r, "leaving") \/ At(r, "passwordSet")) /\ GoesTo(r, "bumping")
           /\ SignRefreshed(r) => req'[r] = Idle \/ req'[r].pc = "inactive"
           /\ SetPassword(r) => \/ At(r, "accepting") /\ GoesTo(r, "stored")
                                \/ At(r, "resetting") /\ GoesTo(r, "passwordSet")
           /\ RedeemLink(r) => GoesTo(r, "resetting") \/ GoesTo(r, "accepting")
           /\ InstallRoles(r) => GoesTo(r, "rolesInstalled")
           /\ InsertFirstUser(r) => GoesTo(r, "stored")
           /\ RetireLinks(r) => GoesTo(r, "linking") /\ req'[r].purpose = req[r].purpose
           /\ IssueSuccessor(r) => GoesTo(r, "succeeded") /\ req'[r].i = req[r].i
           /\ SpendToken(r) => GoesTo(r, "rotated") /\ req'[r].i = req[r].i
           /\ InsertInvited(r) => GoesTo(r, "retiring")
  <1> USE DEF At, GoesTo
  <1>1. OpenSession(r) \/ BumpTokenVersion(r) \/ InsertLink(r) \/ SaveUser(r)
           \/ SaveRole(r) \/ DeleteRole(r) \/ Fail(r) => req'[r] = Idle
    BY OneMoves
       DEF OpenSession, BumpTokenVersion, InsertLink, SaveUser, SaveRole, DeleteRole, Fail
  <1>2. ReadBack(r) => GoesTo(r, "signedIn") /\ req'[r].tv = user[req[r].u].tv
    <2>1. ReadBack(r) => req'[r] = [pc |-> "signedIn", u |-> req[r].u, tv |-> user[req[r].u].tv]
      BY ReqMoves DEF ReadBack, Types
    <2> QED BY <2>1
  <1>3. RevokeAllForUser(r) =>
           \/ req'[r] = Idle
           \/ At(r, "suspending") /\ GoesTo(r, "saving") /\ req'[r].row = req[r].row
           \/ (At(r, "leaving") \/ At(r, "passwordSet")) /\ GoesTo(r, "bumping")
    <2>1. RevokeAllForUser(r) =>
             \/ Answer(r)
             \/ Goto(r, "bumping") /\ req[r].pc \in {"leaving", "passwordSet"}
             \/ Goto(r, "saving") /\ req[r].pc = "suspending"
      BY DEF RevokeAllForUser, AfterRevoking
    <2> QED BY <2>1, OneMoves, EndingGoto, RowGoto
  <1>4. SignRefreshed(r) => req'[r] = Idle \/ req'[r].pc = "inactive"
    <2>1. SignRefreshed(r) => req[r].pc = "rotated" /\ (Answer(r) \/ Goto(r, "inactive"))
      BY DEF SignRefreshed
    <2> QED BY <2>1, OneMoves, TokenGoto DEF TokenPcs
  <1>5. SetPassword(r) => \/ At(r, "accepting") /\ GoesTo(r, "stored")
                          \/ At(r, "resetting") /\ GoesTo(r, "passwordSet")
    <2>1. SetPassword(r) => \/ req[r].pc = "accepting" /\ Goto(r, "stored")
                            \/ req[r].pc = "resetting" /\ Goto(r, "passwordSet")
      BY DEF SetPassword
    <2> QED BY <2>1, EndingGoto, RedeemGoto DEF RedeemPcs
  <1>6. RedeemLink(r) => GoesTo(r, "resetting") \/ GoesTo(r, "accepting")
    <2>1. RedeemLink(r) => req[r].pc = "redeeming" /\ (Goto(r, "resetting") \/ Goto(r, "accepting"))
      BY DEF RedeemLink
    <2> QED BY <2>1, RedeemGoto DEF RedeemPcs
  <1>7. InstallRoles(r) => GoesTo(r, "rolesInstalled")
    BY EndingGoto DEF InstallRoles
  <1>8. InsertFirstUser(r) => GoesTo(r, "stored")
    BY EndingGoto DEF InsertFirstUser
  <1>9. RetireLinks(r) => GoesTo(r, "linking") /\ req'[r].purpose = req[r].purpose
    BY LinkingGoto DEF RetireLinks
  <1>10. IssueSuccessor(r) => GoesTo(r, "succeeded") /\ req'[r].i = req[r].i
    <2>1. IssueSuccessor(r) => req[r].pc = "rotating" /\ Goto(r, "succeeded")
      BY DEF IssueSuccessor
    <2> QED BY <2>1, TokenGoto DEF TokenPcs
  <1>11. SpendToken(r) => GoesTo(r, "rotated") /\ req'[r].i = req[r].i
    <2>1. SpendToken(r) => req[r].pc = "succeeded" /\ Goto(r, "rotated")
      BY DEF SpendToken
    <2> QED BY <2>1, TokenGoto DEF TokenPcs
  <1>12. InsertInvited(r) => GoesTo(r, "retiring")
    <2>1. InsertInvited(r) => req'[r] = [pc |-> "retiring", u |-> req[r].u, purpose |-> "invite"]
      BY ReqMoves DEF InsertInvited, Types
    <2> QED BY <2>1
  <1> QED BY <1>1, <1>2, <1>3, <1>4, <1>5, <1>6, <1>7, <1>8, <1>9, <1>10, <1>11, <1>12

\* Three steps, of rotation and login, issue or spend a token; every other
\* step only kills.
LEMMA WhatAdvances ==
    ASSUME Types, NEW r \in Requests, Advance(r)
    PROVE  \/ OpenSession(r) \/ IssueSuccessor(r) \/ SpendToken(r)
           \/ /\ TokensOnlyDie /\ torn' = torn
              /\ ~At(r, "succeeded") /\ req'[r].pc \notin {"rotating", "succeeded"}
  <1>1. CASE RevokeAllForUser(r)
    <2>1. TokensOnlyDie /\ torn' = torn
      BY <1>1, SomeDie DEF RevokeAllForUser
    <2>2. req'[r].pc \in {"idle", "bumping", "saving"}
      BY <1>1, WhereStepsLead DEF GoesTo, Idle
    <2> QED BY <1>1, <2>1, <2>2 DEF RevokeAllForUser, AfterRevoking, At
  <1>2. CASE \/ ReadBack(r) \/ SignRefreshed(r) \/ SetPassword(r) \/ RedeemLink(r) \/ InstallRoles(r)
             \/ InsertFirstUser(r) \/ RetireLinks(r) \/ BumpTokenVersion(r) \/ InsertLink(r)
             \/ SaveUser(r) \/ SaveRole(r) \/ DeleteRole(r) \/ InsertInvited(r)
    <2>1. refresh' = refresh /\ torn' = torn /\ ~At(r, "succeeded")
      BY <1>2 DEF ReadBack, SignRefreshed, SetPassword, RedeemLink, InstallRoles, InsertFirstUser,
                  RetireLinks, BumpTokenVersion, InsertLink, SaveUser, SaveRole, DeleteRole,
                  InsertInvited, rows, At
    <2>2. req'[r].pc \in {"idle", "signedIn", "inactive", "stored", "passwordSet", "resetting",
                          "accepting", "rolesInstalled", "linking", "retiring"}
      BY <1>2, WhereStepsLead DEF GoesTo, Idle
    <2> QED BY <2>1, <2>2, SomeDie
  <1> QED BY <1>1, <1>2 DEF Advance
-----------------------------------------------------------------------------
(***************************************************************************)
(* One live token per login.  What a rotation knows between its steps: the *)
(* presented token is still live when the successor is inserted, and after *)
(* that it and the successor, the last row, are the only live ones.        *)
(***************************************************************************)
Rotation(r) ==
    /\ At(r, "rotating") => refresh[req[r].i].live
    /\ At(r, "succeeded") =>
          \A j \in DOMAIN refresh :
             refresh[j].live /\ refresh[j].login = refresh[req[r].i].login =>
                refresh[j].login \in torn \/ j = req[r].i \/ j = Len(refresh)

Rotations == OneLiveTokenPerLogin /\ \A r \in Requests : Rotation(r)

\* Between requests, and in one that is not half-way through a rotation.
Settled ==
    \A i, j \in DOMAIN refresh :
       refresh[i].live /\ refresh[j].live /\ refresh[i].login = refresh[j].login =>
          i = j \/ refresh[i].login \in torn

LEMMA SettledUnlessRotating ==
    ASSUME Alone, Rotations, NEW r \in Requests, ~At(r, "succeeded")
    PROVE  Settled
  BY DEF Alone, Rotations, OneLiveTokenPerLogin, Settled

LEMMA SettledIsEnough ==
    ASSUME Alone, NEW r \in Requests, Settled',
           req'[r].pc # "succeeded", req'[r].pc = "rotating" => refresh'[req'[r].i].live
    PROVE  Rotations'
  BY DEF Alone, Rotations, Rotation, OneLiveTokenPerLogin, Settled, At

LEMMA DyingKeepsSettled ==
    ASSUME Settled, TokensOnlyDie, torn \subseteq torn'
    PROVE  Settled'
  BY DEF Settled, TokensOnlyDie

LEMMA RotationsKept ==
    ASSUME Alone, Types, Rotations, [Next]_vars
    PROVE  Rotations'
  <1>1. CASE UNCHANGED vars
    BY <1>1 DEF vars, Rotations, Rotation, OneLiveTokenPerLogin, At
  <1>2. ASSUME NEW r \in Requests, Arrive(r) PROVE Rotations'
    <2>1. req[r] = Idle /\ TokensOnlyDie /\ torn' = torn
      BY <1>2, WhatArrives
    <2>2. Settled'
      BY <2>1, SettledUnlessRotating, DyingKeepsSettled DEF At, Idle
    <2>3. req'[r].pc # "succeeded" /\ (req'[r].pc = "rotating" => refresh'[req'[r].i].live)
      <3>1. CASE req'[r] = Idle \/ req'[r].pc \in Starting
        BY <3>1 DEF Starting, Idle
      <3>2. CASE ArrivesToSignIn(r)
        BY <3>2 DEF ArrivesToSignIn
      <3>4. CASE ArrivesToRotate(r)
        BY <3>4 DEF ArrivesToRotate
      <3>3. CASE ArrivesToEdit(r)
        <4>1. req'[r].pc \in {"suspending", "saving"}
          BY <3>3, EditPc DEF ArrivesToEdit
        <4> QED BY <4>1
      <3> QED BY <1>2, <3>1, <3>2, <3>3, <3>4, WhatArrives
    <2> QED BY <2>2, <2>3, SettledIsEnough
  <1>3. ASSUME NEW r \in Requests, Fail(r) PROVE Rotations'
    <2>1. /\ Answer(r) /\ refresh' = refresh
          /\ torn' = IF At(r, "succeeded") THEN torn \cup {refresh[req[r].i].login} ELSE torn
      BY <1>3 DEF Fail, rows
    <2>2. req'[r] = Idle
      BY <2>1, OneMoves
    <2>3. CASE ~At(r, "succeeded")
      <3>1. Settled'
        BY <2>1, <2>3, SettledUnlessRotating, SomeDie, DyingKeepsSettled
      <3> QED BY <2>2, <3>1, SettledIsEnough DEF Idle
    <2>4. CASE At(r, "succeeded")
      <3>1. Settled'
        BY <2>1, <2>4 DEF Settled, Rotations, OneLiveTokenPerLogin, Alone
      <3> QED BY <2>2, <3>1, SettledIsEnough DEF Idle
    <2> QED BY <2>3, <2>4
  <1>4. ASSUME NEW r \in Requests, OpenSession(r) PROVE Rotations'
    <2> DEFINE new == [user |-> req[r].u, live |-> TRUE, login |-> Len(refresh) + 1]
    <2>1. /\ refresh' = Append(refresh, new) /\ torn' = torn /\ Answer(r) /\ ~At(r, "succeeded")
          /\ new.login = Len(refresh) + 1
      BY <1>4 DEF OpenSession, At
    <2>2. refresh \in Seq(RefreshRow) /\ Len(refresh) \in Nat
          /\ \A i \in DOMAIN refresh : refresh[i].login \in 1..Len(refresh)
      BY DEF Types, Tables
    <2>3. Settled
      BY <2>1, SettledUnlessRotating
    <2> HIDE DEF new
    <2>4. \A i \in DOMAIN refresh' :
             \/ i \in DOMAIN refresh /\ refresh'[i] = refresh[i] /\ refresh[i].login \in 1..Len(refresh)
             \/ i = Len(refresh) + 1 /\ refresh'[i].login = Len(refresh) + 1
      BY <2>1, <2>2
    <2>5. Settled'
      BY <2>1, <2>2, <2>3, <2>4 DEF Settled
    <2>6. req'[r] = Idle
      BY <2>1, OneMoves
    <2> QED BY <2>5, <2>6, SettledIsEnough DEF Idle
  <1>5. ASSUME NEW r \in Requests, IssueSuccessor(r) PROVE Rotations'
    <2> DEFINE q == req[r]
               new == [user |-> q.u, live |-> TRUE, login |-> refresh[q.i].login]
    <2>1. /\ refresh' = Append(refresh, new) /\ torn' = torn /\ Goto(r, "succeeded")
          /\ q.pc = "rotating" /\ new.login = refresh[q.i].login
      BY <1>5 DEF IssueSuccessor, At
    <2>2. req'[r].pc = "succeeded" /\ req'[r].i = q.i /\ q.i \in DOMAIN refresh
      BY <2>1, RequestOf, TokenGoto DEF TokenPcs, Remembers
    <2>3. Settled /\ refresh[q.i].live
      BY <2>1, SettledUnlessRotating DEF At, Rotations, Rotation
    <2>4. refresh \in Seq(RefreshRow) /\ Len(refresh) \in Nat
      BY DEF Types, Tables
    <2> HIDE DEF new, q
    <2>5. /\ Len(refresh') = Len(refresh) + 1
          /\ \A i \in DOMAIN refresh' :
             \/ i \in DOMAIN refresh /\ refresh'[i] = refresh[i]
             \/ i = Len(refresh') /\ refresh'[i].login = refresh[q.i].login
          /\ refresh'[q.i] = refresh[q.i]
      BY <2>1, <2>2, <2>4
    <2>6. Rotation(r)'
      BY <2>1, <2>2, <2>3, <2>5 DEF Settled, Rotation, At
    <2>7. OneLiveTokenPerLogin'
      <3>1. ASSUME NEW i \in DOMAIN refresh', NEW j \in DOMAIN refresh',
                   refresh'[i].live, refresh'[j].live, refresh'[i].login = refresh'[j].login
            PROVE  \/ i = j \/ refresh'[i].login \in torn'
                   \/ refresh'[req'[r].i].login = refresh'[i].login
        BY <2>1, <2>2, <2>3, <2>5, <3>1 DEF Settled
      <3>2. At(r, "succeeded")'
        BY <2>2 DEF At
      <3> QED BY <3>1, <3>2 DEF OneLiveTokenPerLogin
    <2> QED BY <2>6, <2>7 DEF Rotations, Alone
  <1>6. ASSUME NEW r \in Requests, SpendToken(r) PROVE Rotations'
    <2> DEFINE i0 == req[r].i
    <2>1. /\ refresh' = [refresh EXCEPT ![i0].live = FALSE] /\ torn' = torn
          /\ Goto(r, "rotated") /\ req[r].pc = "succeeded"
      BY <1>6 DEF SpendToken, At
    <2>2. req'[r].pc = "rotated" /\ i0 \in DOMAIN refresh
      BY <2>1, RequestOf, TokenGoto DEF TokenPcs, Remembers
    <2>3. /\ \A j \in DOMAIN refresh :
                refresh[j].live /\ refresh[j].login = refresh[i0].login =>
                   refresh[j].login \in torn \/ j = i0 \/ j = Len(refresh)
          /\ \A i, j \in DOMAIN refresh :
                refresh[i].live /\ refresh[j].live /\ refresh[i].login = refresh[j].login =>
                   \/ i = j
                   \/ refresh[i].login \in torn
                   \/ refresh[i0].login = refresh[i].login
      BY <2>1 DEF Alone, Rotations, Rotation, OneLiveTokenPerLogin, At
    <2> HIDE DEF i0
    <2>4. ~refresh'[i0].live
      <3>1. refresh[i0] \in RefreshRow
        BY <2>2, TokenUser DEF Types
      <3> QED BY <2>1, <2>2, <3>1 DEF RefreshRow
    <2>5. TokensOnlyDie
      BY <2>1, SomeDie
    <2>6. Settled'
      BY <2>1, <2>3, <2>4, <2>5 DEF Settled, TokensOnlyDie
    <2> QED BY <2>2, <2>6, SettledIsEnough
  <1>7. ASSUME NEW r \in Requests, TokensOnlyDie, torn' = torn,
               ~At(r, "succeeded"), req'[r].pc \notin {"rotating", "succeeded"}
        PROVE  Rotations'
    BY <1>7, SettledUnlessRotating, DyingKeepsSettled, SettledIsEnough
  <1>8. ASSUME NEW r \in Requests, Advance(r) PROVE Rotations'
    BY <1>4, <1>5, <1>6, <1>7, <1>8, WhatAdvances
  <1> QED BY <1>1, <1>2, <1>3, <1>8 DEF Next

\* Requests one at a time, each of which may fail at any await: however often
\* a login's refresh token is rotated, it has one token that works, except a
\* login of which a rotation has failed between its two statements.
THEOREM RotationLeavesOneToken == ASSUME Alone PROVE Spec => []OneLiveTokenPerLogin
  <1>1. Init => Rotations
    BY DEF Init, Rotations, Rotation, OneLiveTokenPerLogin, At, Idle
  <1>2. Types /\ Rotations /\ [Next]_vars => Rotations'
    BY RotationsKept
  <1>3. Rotations => OneLiveTokenPerLogin
    BY DEF Rotations
  <1> QED BY <1>1, <1>2, <1>3, TypesHold, PTL DEF Spec
-----------------------------------------------------------------------------
(***************************************************************************)
(* One usable link of a purpose.  Between retiring the earlier links and   *)
(* inserting the new one there is none.                                    *)
(***************************************************************************)
Retired(r) ==
    At(r, "linking") =>
       \A k \in DOMAIN link :
          link[k].user = req[r].u /\ link[k].purpose = req[r].purpose => link[k].used

Links == OneUsableLink /\ \A r \in Requests : Retired(r)

\* Links that are only used up, by a step that does not lead to issuing one.
LEMMA UsingKeepsLinks ==
    ASSUME Alone, OneUsableLink, NEW r \in Requests, req'[r].pc # "linking",
           DOMAIN link' = DOMAIN link,
           \A k \in DOMAIN link : /\ link'[k].user = link[k].user
                                  /\ link'[k].purpose = link[k].purpose
                                  /\ link[k].used => link'[k].used,
           \A k \in DOMAIN link : link'[k].used \in BOOLEAN
    PROVE  Links'
  BY DEF Alone, Links, Retired, OneUsableLink, At

LEMMA LinksKept ==
    ASSUME Alone, Types, Links, [Next]_vars
    PROVE  Links'
  <1>0. link \in Seq(LinkRow) /\ Len(link) \in Nat /\ \A k \in DOMAIN link : link[k] \in LinkRow
    BY LinkUser DEF Types, Tables
  <1>1. CASE UNCHANGED vars
    BY <1>1 DEF vars, Links, Retired, OneUsableLink, At
  <1>2. ASSUME NEW r \in Requests, link' = link, req'[r].pc # "linking" PROVE Links'
    BY <1>0, <1>2, UsingKeepsLinks DEF Links, LinkRow
  <1>3. ASSUME NEW r \in Requests, Arrive(r) PROVE Links'
    <2>1. link' = link
      BY <1>3, WhatArrives
    <2>2. req'[r].pc # "linking"
      <3>1. CASE req'[r] = Idle \/ req'[r].pc \in Starting
        BY <3>1 DEF Starting, Idle
      <3>2. CASE ArrivesToSignIn(r)
        BY <3>2 DEF ArrivesToSignIn
      <3>3. CASE ArrivesToRotate(r)
        BY <3>3 DEF ArrivesToRotate
      <3>4. CASE ArrivesToEdit(r)
        <4>1. req'[r].pc \in {"suspending", "saving"}
          BY <3>4, EditPc DEF ArrivesToEdit
        <4> QED BY <4>1
      <3> QED BY <1>3, <3>1, <3>2, <3>3, <3>4, WhatArrives
    <2> QED BY <1>2, <2>1, <2>2
  <1>4. ASSUME NEW r \in Requests, Fail(r) PROVE Links'
    <2>1. link' = link /\ req'[r] = Idle
      BY <1>4, WhereStepsLead DEF Fail, rows
    <2> QED BY <1>2, <2>1 DEF Idle
  <1>5. ASSUME NEW r \in Requests, RetireLinks(r) PROVE Links'
    <2>1. /\ DOMAIN link' = DOMAIN link
          /\ \A k \in DOMAIN link :
                link'[k] = IF link[k].user = req[r].u /\ link[k].purpose = req[r].purpose
                           THEN [link[k] EXCEPT !.used = TRUE] ELSE link[k]
      BY <1>5 DEF RetireLinks
    <2>2. req'[r].u = req[r].u /\ req'[r].purpose = req[r].purpose
      BY <1>5, WhereStepsLead DEF GoesTo
    <2>3. \A k \in DOMAIN link :
             /\ link'[k].user = link[k].user /\ link'[k].purpose = link[k].purpose
             /\ link[k].used => link'[k].used
             /\ link[k].user = req[r].u /\ link[k].purpose = req[r].purpose => link'[k].used
      BY <1>0, <2>1 DEF LinkRow
    <2> QED BY <2>1, <2>2, <2>3 DEF Alone, Links, Retired, OneUsableLink
  <1>6. ASSUME NEW r \in Requests, RedeemLink(r) PROVE Links'
    <2>1. link' = [link EXCEPT ![req[r].k].used = TRUE]
      BY <1>6 DEF RedeemLink
    <2>2. /\ DOMAIN link' = DOMAIN link
          /\ \A k \in DOMAIN link : link'[k] = link[k] \/ link'[k] = [link[k] EXCEPT !.used = TRUE]
      BY <2>1
    <2>3. \A k \in DOMAIN link : /\ link'[k].user = link[k].user
                                 /\ link'[k].purpose = link[k].purpose
                                 /\ link[k].used => link'[k].used
                                 /\ link'[k].used \in BOOLEAN
      BY <1>0, <2>2 DEF LinkRow
    <2>4. req'[r].pc # "linking"
      BY <1>6, WhereStepsLead DEF GoesTo
    <2> QED BY <2>2, <2>3, <2>4, UsingKeepsLinks DEF Links
  <1>7. ASSUME NEW r \in Requests, InsertLink(r) PROVE Links'
    <2> DEFINE new == [user |-> req[r].u, purpose |-> req[r].purpose, used |-> FALSE]
    <2>1. /\ link' = Append(link, new) /\ At(r, "linking")
          /\ new.user = req[r].u /\ new.purpose = req[r].purpose
      BY <1>7 DEF InsertLink
    <2>2. req'[r] = Idle
      BY <1>7, WhereStepsLead
    <2> HIDE DEF new
    <2>3. \A k \in DOMAIN link' :
             \/ k \in DOMAIN link /\ link'[k] = link[k]
             \/ k = Len(link) + 1 /\ link'[k] = new
      BY <1>0, <2>1
    <2>4. OneUsableLink'
      BY <2>1, <2>3 DEF Links, Retired, OneUsableLink
    <2> QED BY <2>2, <2>4 DEF Links, Retired, Alone, At, Idle
  <1>8. ASSUME NEW r \in Requests,
               \/ OpenSession(r) \/ ReadBack(r) \/ RevokeAllForUser(r) \/ BumpTokenVersion(r)
               \/ SetPassword(r) \/ InstallRoles(r) \/ InsertFirstUser(r) \/ IssueSuccessor(r)
               \/ SpendToken(r) \/ SignRefreshed(r) \/ InsertInvited(r) \/ SaveUser(r)
               \/ SaveRole(r) \/ DeleteRole(r)
        PROVE  Links'
    <2>1. link' = link
      BY <1>8 DEF OpenSession, ReadBack, RevokeAllForUser, BumpTokenVersion, SetPassword, InstallRoles,
                  InsertFirstUser, IssueSuccessor, SpendToken, SignRefreshed, InsertInvited,
                  SaveUser, SaveRole, DeleteRole, rows
    <2>2. req'[r].pc \in {"idle", "signedIn", "bumping", "saving", "stored", "passwordSet",
                          "rolesInstalled", "succeeded", "rotated", "inactive", "retiring"}
      BY <1>8, WhereStepsLead DEF GoesTo, Idle
    <2> QED BY <1>2, <2>1, <2>2
  <1> QED BY <1>1, <1>3, <1>4, <1>5, <1>6, <1>7, <1>8 DEF Next, Advance

\* Requests one at a time: whichever of invite, resend and forgot-password
\* issues links, fails between its two statements or is retried, a user has
\* at most one link of a purpose that still opens the account.
THEOREM LinksStaySingle == ASSUME Alone PROVE Spec => []OneUsableLink
  <1>1. Init => Links
    BY DEF Init, Links, Retired, OneUsableLink, At, Idle
  <1>2. Types /\ Links /\ [Next]_vars => Links'
    BY LinksKept
  <1>3. Links => OneUsableLink
    BY DEF Links
  <1> QED BY <1>1, <1>2, <1>3, TypesHold, PTL DEF Spec
-----------------------------------------------------------------------------
(***************************************************************************)
(* Administrators.  A handler that edits a user was asked for by another   *)
(* administrator, or by the user, who then keeps status and role.          *)
(***************************************************************************)
Editing == {"suspending", "saving"}

Keeper(r) ==
    req[r].pc \in Editing =>
       \/ \E a \in Admins : a # req[r].u
       \/ req[r].row.status = "active" /\ "user.update" \in role[req[r].row.role].perms

Keepers == \A r \in Requests : Keeper(r)

LEMMA EditingHasKeeper ==
    ASSUME Types, NEW r \in Requests, ArrivesToEdit(r), UNCHANGED <<user, role>>
    PROVE  Keeper(r)'
  <1>1. PICK a \in Users, u \in Users, ro \in Roles, s \in {"invited", "active", "suspended"} :
           /\ May(a, "user.update")
           /\ a = u => ro = user[u].role /\ s = "active"
           /\ req'[r] = EditState(u, ro, s)
    BY DEF ArrivesToEdit
  <1>2. a \in Admins
    BY <1>1, SignedInIsKnown DEF May, Admins
  <1>3. req'[r].u = u
    BY <1>1, EditPc
  <1>4. req'[r].row.status = s /\ req'[r].row.role = ro
    <2>1. req'[r].row = EditedCopy(u, ro, s)
      BY <1>1 DEF EditState
    <2> QED BY <2>1, EditedRow DEF Types
  <1>5. Admins' = Admins
    BY DEF Admins
  <1> QED BY <1>1, <1>2, <1>3, <1>4, <1>5 DEF Keeper, May

LEMMA KeepersKept ==
    ASSUME Alone, Types, Keepers, [Next]_vars
    PROVE  Keepers'
  <1>1. CASE UNCHANGED vars
    BY <1>1 DEF vars, Keepers, Keeper, Admins
  <1>2. ASSUME NEW r \in Requests, req'[r].pc \notin Editing PROVE Keepers'
    BY <1>2 DEF Keepers, Keeper, Alone
  <1>3. ASSUME NEW r \in Requests, Arrive(r) PROVE Keepers'
    <2>1. UNCHANGED <<user, role>>
      BY <1>3, WhatArrives
    <2>2. CASE req'[r] = Idle \/ req'[r].pc \in Starting
      BY <1>2, <2>2 DEF Starting, Idle, Editing
    <2>3. CASE ArrivesToSignIn(r)
      BY <1>2, <2>3 DEF ArrivesToSignIn, Editing
    <2>4. CASE ArrivesToRotate(r)
      BY <1>2, <2>4 DEF ArrivesToRotate, Editing
    <2>5. CASE ArrivesToEdit(r)
      BY <2>1, <2>5, EditingHasKeeper DEF Keepers, Alone
    <2> QED BY <1>3, <2>2, <2>3, <2>4, <2>5, WhatArrives
  <1>4. ASSUME NEW r \in Requests, RevokeAllForUser(r) PROVE Keepers'
    <2>1. CASE At(r, "suspending") /\ GoesTo(r, "saving") /\ req'[r].row = req[r].row
      <3>1. UNCHANGED <<user, role>>
        BY <1>4 DEF RevokeAllForUser
      <3>2. Admins' = Admins
        BY <3>1 DEF Admins
      <3>3. Keeper(r)'
        BY <2>1, <3>1, <3>2 DEF Keepers, Keeper, Editing, At, GoesTo
      <3> QED BY <3>3 DEF Keepers, Alone
    <2>2. CASE req'[r] = Idle \/ GoesTo(r, "bumping")
      BY <1>2, <2>2 DEF GoesTo, Idle, Editing
    <2> QED BY <1>4, <2>1, <2>2, WhereStepsLead
  <1>5. ASSUME NEW r \in Requests, Advance(r) \/ Fail(r), ~RevokeAllForUser(r) PROVE Keepers'
    <2>1. req'[r].pc \in {"idle", "signedIn", "stored", "passwordSet", "resetting", "accepting", "linking",
                          "rolesInstalled", "succeeded", "rotated", "inactive", "retiring"}
      BY <1>5, WhereStepsLead DEF Advance, GoesTo, Idle
    <2> QED BY <1>2, <2>1 DEF Editing
  <1> QED BY <1>1, <1>3, <1>4, <1>5 DEF Next

LEMMA AdminsKept ==
    ASSUME Types, Keepers, [Next]_vars, Admins # {}, role' = role
    PROVE  Admins' # {}
  <1>1. ASSUME \A u \in Admins : user'[u].status = "active" /\ user'[u].role = user[u].role
        PROVE  Admins' # {}
    BY <1>1 DEF Admins
  <1>2. CASE user' = user
    BY <1>1, <1>2 DEF Admins
  <1>3. ASSUME NEW u \in Users, NEW row, user' = [user EXCEPT ![u] = row]
        PROVE  /\ user'[u] = row
               /\ \A v \in Users : v # u => user'[v] = user[v]
    BY <1>3 DEF Types, Tables
  <1>4. ASSUME NEW r \in Requests, BumpTokenVersion(r) \/ SetPassword(r) PROVE Admins' # {}
    <2>1. req[r].u \in Users
      BY <1>4, RequestOf, PlainShape DEF BumpTokenVersion, SetPassword, At, PlainPcs, RedeemPcs
    <2>2. user[req[r].u] \in UserRow
      BY <2>1 DEF Types, Tables
    <2>3. \/ user' = [user EXCEPT ![req[r].u].tv = @ + 1]
          \/ user' = [user EXCEPT ![req[r].u].password = TRUE]
          \/ user' = [user EXCEPT ![req[r].u].password = TRUE, ![req[r].u].status = "active"]
      BY <1>4 DEF BumpTokenVersion, SetPassword
    <2>4. /\ \A v \in Users : v # req[r].u => user'[v] = user[v]
          /\ user'[req[r].u].role = user[req[r].u].role
          /\ user'[req[r].u].status \in {user[req[r].u].status, "active"}
      <3>1. CASE user' = [user EXCEPT ![req[r].u].tv = @ + 1]
        BY <2>1, <2>2, <3>1 DEF Types, Tables, UserRow
      <3>2. CASE user' = [user EXCEPT ![req[r].u].password = TRUE]
        BY <2>1, <2>2, <3>2 DEF Types, Tables, UserRow
      <3>3. CASE user' = [user EXCEPT ![req[r].u].password = TRUE, ![req[r].u].status = "active"]
        BY <2>1, <2>2, <3>3 DEF Types, Tables, UserRow
      <3> QED BY <2>3, <3>1, <3>2, <3>3
    <2> QED BY <1>1, <2>4 DEF Admins
  <1>5. ASSUME NEW r \in Requests, InsertFirstUser(r) \/ InsertInvited(r) PROVE Admins' # {}
    <2>1. req[r].u \in Users /\ user[req[r].u].status = "none"
      BY <1>5, RequestOf, PlainShape DEF InsertFirstUser, InsertInvited, At, PlainPcs
    <2>2. \A v \in Users : v # req[r].u => user'[v] = user[v]
      BY <1>3, <1>5, <2>1 DEF InsertFirstUser, InsertInvited
    <2> QED BY <1>1, <2>1, <2>2 DEF Admins
  <1>6. ASSUME NEW r \in Requests, SaveUser(r) PROVE Admins' # {}
    <2>1. req[r].u \in Users
      BY <1>6, RequestOf, PlainShape DEF SaveUser, At
    <2>2. user'[req[r].u] = req[r].row /\ \A v \in Users : v # req[r].u => user'[v] = user[v]
      BY <1>3, <1>6, <2>1 DEF SaveUser
    <2>3. Keeper(r) /\ req[r].pc \in Editing
      BY <1>6 DEF Keepers, SaveUser, At, Editing
    <2> QED BY <2>1, <2>2, <2>3 DEF Keeper, Admins
  <1>7. ASSUME NEW r \in Requests, Arrive(r) PROVE Admins' # {}
    BY <1>2, <1>7, WhatArrives
  <1>8. ASSUME NEW r \in Requests, Advance(r) \/ Fail(r) PROVE Admins' # {}
    <2>1. CASE \/ OpenSession(r) \/ ReadBack(r) \/ RevokeAllForUser(r) \/ RetireLinks(r) \/ InsertLink(r)
               \/ InstallRoles(r) \/ IssueSuccessor(r) \/ SpendToken(r) \/ SignRefreshed(r)
               \/ RedeemLink(r) \/ SaveRole(r) \/ DeleteRole(r) \/ Fail(r)
      <3>1. user' = user
        BY <2>1 DEF OpenSession, ReadBack, RevokeAllForUser, RetireLinks, InsertLink, InstallRoles,
                    IssueSuccessor, SpendToken, SignRefreshed, RedeemLink, SaveRole, DeleteRole,
                    Fail, rows
      <3> QED BY <1>2, <3>1
    <2> QED BY <1>4, <1>5, <1>6, <1>8, <2>1 DEF Advance
  <1> QED BY <1>2, <1>7, <1>8 DEF Next, vars

\* Requests one at a time: no invite, suspension, activation or change of a
\* user's role takes away the last administrator who could undo it.
THEOREM AdministratorsRemain == ASSUME Alone PROVE Spec => AnAdministratorRemains
  <1>1. Init => Keepers
    BY DEF Init, Keepers, Keeper, Idle, Editing
  <1>2. Types /\ Keepers /\ [Next]_vars => Keepers'
    BY KeepersKept
  <1>3. Types /\ Keepers /\ [Next]_vars => [Admins # {} /\ role' = role => Admins' # {}]_vars
    BY AdminsKept
  <1> QED BY <1>1, <1>2, <1>3, TypesHold, PTL DEF Spec, AnAdministratorRemains
-----------------------------------------------------------------------------
(***************************************************************************)
(* Suspension and sign-out.  No access token is newer than its user's row, *)
(* and a handler that is about to issue tokens works for a user who is not *)
(* suspended; one that is about to write a row writes a token version that *)
(* does not go back, and a suspended row only over a user whose tokens are *)
(* dead and whose version it moves on.                                     *)
(***************************************************************************)
Older == \A t \in access : t.tv <= user[t.user].tv

Guarded(r) ==
    /\ req[r].pc \in {"stored", "signedIn", "rotating", "succeeded", "rotated"} =>
          user[req[r].u].status # "suspended"
    /\ At(r, "signedIn") => req[r].tv = user[req[r].u].tv
    /\ At(r, "bumping") => LiveOf(req[r].u) = {}
    /\ At(r, "suspending") => req[r].row.tv > user[req[r].u].tv
    /\ At(r, "saving") =>
          /\ req[r].row.tv >= user[req[r].u].tv
          /\ req[r].row.status = "suspended" =>
                /\ LiveOf(req[r].u) = {}
                /\ user[req[r].u].status = "suspended" \/ req[r].row.tv > user[req[r].u].tv

Out == Older /\ SuspendedIsOut /\ \A r \in Requests : Guarded(r)

Unguarded == {"idle", "counted", "rolesInstalled", "leaving", "resetting", "passwordSet", "accepting",
              "retiring", "linking", "redeeming", "inviting", "roleSaving", "roleRemoving",
              "reused", "inactive"}

LEMMA AccessOf ==
    ASSUME Types, NEW t \in access
    PROVE  t.user \in Users /\ t.tv \in Nat /\ user[t.user].tv \in Nat
  BY DEF Types, Tables, UserRow

LEMMA UnguardedIsGuarded ==
    ASSUME NEW r \in Requests, req'[r].pc \in Unguarded
    PROVE  Guarded(r)'
  BY DEF Guarded, At, Unguarded

\* Steps that write neither users nor access tokens, and kill at most.
LEMMA DyingKeepsOut ==
    ASSUME Alone, Types, Out, NEW r \in Requests, Guarded(r)',
           UNCHANGED <<user, access>>, TokensOnlyDie
    PROVE  Out'
  <1>1. Older'
    BY DEF Out, Older
  <1>2. \A u \in Users : LiveOf(u) = {} => LiveOf(u)' = {}
    BY DEF LiveOf, TokensOnlyDie
  <1>3. SuspendedIsOut'
    BY <1>2 DEF Out, SuspendedIsOut, SignedOut
  <1> QED BY <1>1, <1>3 DEF Out, Alone

\* Steps that write one user's row.
LEMMA UserWriteKeepsOut ==
    ASSUME Alone, Types, Out, NEW r \in Requests, Guarded(r)', UNCHANGED <<refresh, access>>,
           NEW u \in Users, \A v \in Users : v # u => user'[v] = user[v],
           user'[u].tv \in Nat, user'[u].tv >= user[u].tv,
           user'[u].status = "suspended" =>
              LiveOf(u) = {} /\ (user[u].status = "suspended" \/ user'[u].tv > user[u].tv)
    PROVE  Out'
  <1>1. \A t \in access : /\ t.user \in Users /\ t.tv \in Nat /\ user[t.user].tv \in Nat
                          /\ t.tv <= user[t.user].tv
    BY AccessOf DEF Out, Older
  <1>2. Older'
    BY <1>1 DEF Older
  <1>3. ASSUME NEW v \in Users, user'[v].status = "suspended" PROVE SignedOut(v)'
    <2>1. LiveOf(v)' = LiveOf(v)
      BY DEF LiveOf
    <2>2. CASE v # u
      BY <1>3, <2>1, <2>2 DEF Out, SuspendedIsOut, SignedOut
    <2>3. CASE v = u /\ user[u].status = "suspended"
      <3>1. \A t \in access : t.user = u => t.tv < user[u].tv
        BY <2>3 DEF Out, SuspendedIsOut, SignedOut
      <3>2. user[u].tv \in Nat
        BY DEF Types, Tables, UserRow
      <3>3. \A t \in access : t.user = u => t.tv < user'[u].tv
        BY <1>1, <3>1, <3>2
      <3> QED BY <1>3, <2>1, <2>3, <3>3 DEF SignedOut
    <2>4. CASE v = u /\ user'[u].tv > user[u].tv
      <3>1. user[u].tv \in Nat
        BY DEF Types, Tables, UserRow
      <3>2. \A t \in access : t.user = u => t.tv < user'[u].tv
        BY <1>1, <2>4, <3>1
      <3> QED BY <1>3, <2>1, <2>4, <3>2 DEF SignedOut
    <2> QED BY <1>3, <2>2, <2>3, <2>4
  <1> QED BY <1>2, <1>3 DEF Out, Alone, SuspendedIsOut

\* Steps that give tokens to a user who is not suspended.
LEMMA IssueKeepsOut ==
    ASSUME Alone, Types, Out, NEW r \in Requests, Guarded(r)', user' = user,
           NEW u \in Users, user[u].status # "suspended",
           \/ refresh' = refresh
           \/ \E new \in RefreshRow : new.user = u /\ refresh' = Append(refresh, new),
           access' = access \/ access' = access \cup {[user |-> u, tv |-> user[u].tv]}
    PROVE  Out'
  <1>1. user[u].tv \in Nat /\ refresh \in Seq(RefreshRow)
    BY DEF Types, Tables, UserRow
  <1>2. Older'
    BY <1>1 DEF Out, Older
  <1>3. ASSUME NEW v \in Users, user[v].status = "suspended" PROVE SignedOut(v)'
    <2>1. v # u
      BY <1>3
    <2>2. LiveOf(v) = {} /\ \A t \in access : t.user = v => t.tv < user[v].tv
      BY <1>3 DEF Out, SuspendedIsOut, SignedOut
    <2>3. LiveOf(v)' = {}
      <3>1. CASE refresh' = refresh
        BY <2>2, <3>1 DEF LiveOf
      <3>2. ASSUME NEW new \in RefreshRow, new.user = u, refresh' = Append(refresh, new)
            PROVE  LiveOf(v)' = {}
        <4>1. \A i \in DOMAIN refresh' : \/ i \in DOMAIN refresh /\ refresh'[i] = refresh[i]
                                         \/ refresh'[i] = new
          BY <1>1, <3>2, RowAdded
        <4> QED BY <2>1, <2>2, <3>2, <4>1 DEF LiveOf
      <3> QED BY <3>1, <3>2
    <2>4. \A t \in access' : t.user = v => t.tv < user[v].tv
      BY <2>1, <2>2
    <2> QED BY <2>3, <2>4 DEF SignedOut
  <1> QED BY <1>2, <1>3 DEF Out, Alone, SuspendedIsOut

LEMMA ArrivalIsGuarded ==
    ASSUME Types, Out, NEW r \in Requests, Arrive(r)
    PROVE  Guarded(r)'
  <1>0. user' = user /\ TokensOnlyDie
    BY WhatArrives
  <1>1. CASE req'[r] = Idle \/ req'[r].pc \in Starting
    BY <1>1, UnguardedIsGuarded DEF Starting, Unguarded, Idle
  <1>2. CASE ArrivesToSignIn(r)
    <2>1. PICK u \in Users : /\ user[u].status = "active"
                             /\ req'[r] = [pc |-> "signedIn", u |-> u, tv |-> user[u].tv]
      BY <1>2 DEF ArrivesToSignIn
    <2>2. req'[r].pc = "signedIn" /\ req'[r].u = u /\ req'[r].tv = user[u].tv
      BY <2>1
    <2> QED BY <1>0, <2>1, <2>2 DEF Guarded, At
  <1>3. CASE ArrivesToRotate(r)
    <2>1. PICK i \in DOMAIN refresh :
             /\ refresh[i].live
             /\ req'[r] = [pc |-> "rotating", u |-> refresh[i].user, i |-> i]
      BY <1>3 DEF ArrivesToRotate
    <2>2. req'[r].pc = "rotating" /\ req'[r].u = refresh[i].user
      BY <2>1
    <2>3. refresh[i].user \in Users /\ i \in LiveOf(refresh[i].user)
      BY <2>1, TokenUser DEF LiveOf, Types
    <2>4. user[refresh[i].user].status # "suspended"
      BY <2>3 DEF Out, SuspendedIsOut, SignedOut
    <2> QED BY <1>0, <2>2, <2>4 DEF Guarded, At
  <1>4. CASE ArrivesToEdit(r)
    <2>1. PICK a \in Users, u \in Users, ro \in Roles, s \in {"invited", "active", "suspended"} :
             req'[r] = EditState(u, ro, s)
      BY <1>4 DEF ArrivesToEdit
    <2>2. /\ req'[r].pc = IF s = "suspended" /\ user[u].status # s THEN "suspending" ELSE "saving"
          /\ req'[r].u = u /\ req'[r].row = EditedCopy(u, ro, s)
      BY <2>1 DEF EditState
    <2>3. /\ req'[r].row.status = s
          /\ req'[r].row.tv = user[u].tv + (IF s = "suspended" /\ user[u].status # s THEN 1 ELSE 0)
      BY <2>2, EditedRow DEF Types
    <2>4. user[u].tv \in Nat
      BY DEF Types, Tables, UserRow
    <2>5. LiveOf(u) = {} => LiveOf(u)' = {}
      BY <1>0 DEF LiveOf, TokensOnlyDie
    <2>6. CASE s = "suspended" /\ user[u].status # s
      <3>1. req'[r].pc = "suspending" /\ req'[r].row.tv = user[u].tv + 1
        BY <2>2, <2>3, <2>6
      <3> QED BY <1>0, <2>2, <2>4, <3>1 DEF Guarded, At
    <2>7. CASE ~(s = "suspended" /\ user[u].status # s)
      <3>1. req'[r].pc = "saving" /\ req'[r].row.tv = user[u].tv
        BY <2>2, <2>3, <2>4, <2>7
      <3>2. s = "suspended" => user[u].status = "suspended" /\ LiveOf(u) = {}
        BY <2>7 DEF Out, SuspendedIsOut, SignedOut
      <3>3. s = "suspended" => (LiveOf(req[r].u) = {})'
        BY <2>2, <2>5, <3>2 DEF LiveOf
      <3>4. s = "suspended" => user'[req'[r].u].status = "suspended"
        BY <1>0, <2>2, <3>2
      <3>5. req'[r].row.tv >= user'[req'[r].u].tv
        BY <1>0, <2>2, <2>4, <3>1
      <3> QED BY <2>3, <3>1, <3>3, <3>4, <3>5 DEF Guarded, At
    <2> QED BY <2>6, <2>7
  <1> QED BY <1>1, <1>2, <1>3, <1>4, WhatArrives

LEMMA ServiceKeepsOut ==
    ASSUME Alone, Types, Out, NEW r \in Requests,
           \/ ReadBack(r) \/ RevokeAllForUser(r) \/ SpendToken(r) \/ RetireLinks(r) \/ InsertLink(r)
           \/ InstallRoles(r) \/ RedeemLink(r) \/ SaveRole(r) \/ DeleteRole(r) \/ Fail(r)
    PROVE  Out'
  <1>1. /\ UNCHANGED <<user, access>>
        /\ \/ refresh' = refresh
           \/ \E i : refresh' = [refresh EXCEPT ![i].live = FALSE]
           \/ \E u : refresh' = AllRevoked(u)
    BY DEF ReadBack, RevokeAllForUser, SpendToken, RetireLinks, InsertLink, InstallRoles,
           RedeemLink, SaveRole, DeleteRole, Fail, rows
  <1>2. TokensOnlyDie
    BY <1>1, SomeDie
  <1>3. Guarded(r)'
    <2>1. CASE ReadBack(r)
      <3>1. /\ GoesTo(r, "signedIn") /\ req'[r].tv = user[req[r].u].tv
            /\ req[r].pc = "stored"
        BY <2>1, WhereStepsLead DEF ReadBack, At
      <3>2. user[req[r].u].status # "suspended"
        BY <3>1 DEF Out, Guarded
      <3> QED BY <1>1, <3>1, <3>2 DEF Guarded, At, GoesTo
    <2>2. CASE RevokeAllForUser(r)
      <3>1. CASE req'[r] = Idle
        BY <3>1, UnguardedIsGuarded DEF Unguarded, Idle
      <3>2. LiveOf(req[r].u)' = {} \/ req'[r].u # req[r].u
        <4>1. refresh' = AllRevoked(req[r].u)
          BY <2>2 DEF RevokeAllForUser
        <4>2. \A i \in DOMAIN refresh : refresh[i] \in RefreshRow
          BY TokenUser DEF Types
        <4>3. \A i \in DOMAIN refresh' : refresh'[i].user = req[r].u => ~refresh'[i].live
          BY <4>1, <4>2 DEF AllRevoked, RefreshRow
        <4> QED BY <4>3 DEF LiveOf
      <3>3. CASE At(r, "suspending") /\ GoesTo(r, "saving") /\ req'[r].row = req[r].row
        <4>1. req[r].row.tv > user[req[r].u].tv
          BY <3>3 DEF Out, Guarded
        <4>2. req[r].u \in Users /\ req[r].row \in KnownRow
          BY <3>3, RequestOf, RowShape DEF At
        <4>3. user[req[r].u].tv \in Nat /\ req[r].row.tv \in Nat
          BY <4>2 DEF Types, Tables, KnownRow, UserRow
        <4> QED BY <1>1, <3>2, <3>3, <4>1, <4>3 DEF Guarded, At, GoesTo
      <3>4. CASE GoesTo(r, "bumping")
        BY <3>2, <3>4 DEF Guarded, At, GoesTo
      <3> QED BY <2>2, <3>1, <3>3, <3>4, WhereStepsLead
    <2>3. CASE SpendToken(r)
      <3>1. GoesTo(r, "rotated") /\ req[r].pc = "succeeded"
        BY <2>3, WhereStepsLead DEF SpendToken, At
      <3>2. user[req[r].u].status # "suspended"
        BY <3>1 DEF Out, Guarded
      <3> QED BY <1>1, <3>1, <3>2 DEF Guarded, At, GoesTo
    <2>4. CASE RetireLinks(r) \/ InsertLink(r) \/ InstallRoles(r) \/ RedeemLink(r) \/ SaveRole(r)
               \/ DeleteRole(r) \/ Fail(r)
      <3>1. req'[r].pc \in {"idle", "linking", "rolesInstalled", "resetting", "accepting"}
        BY <2>4, WhereStepsLead DEF GoesTo, Idle
      <3> QED BY <3>1, UnguardedIsGuarded DEF Unguarded
    <2> QED BY <2>1, <2>2, <2>3, <2>4
  <1> QED BY <1>1, <1>2, <1>3, DyingKeepsOut

LEMMA IssuingKeepsOut ==
    ASSUME Alone, Types, Out, NEW r \in Requests,
           OpenSession(r) \/ IssueSuccessor(r) \/ SignRefreshed(r)
    PROVE  Out'
  <1> DEFINE u == req[r].u
  <1>1. u \in Users /\ req[r].pc \in {"signedIn", "rotating", "rotated"} /\ user' = user
    BY RequestOf, PlainShape DEF OpenSession, IssueSuccessor, SignRefreshed, At, TokenPcs, rows
  <1>2. user[u].status # "suspended" /\ (At(r, "signedIn") => req[r].tv = user[u].tv)
    BY <1>1 DEF Out, Guarded, At
  <1>3. CASE OpenSession(r)
    <2> DEFINE new == [user |-> u, live |-> TRUE, login |-> Len(refresh) + 1]
    <2>1. refresh' = Append(refresh, new) /\ access' = access \cup {[user |-> u, tv |-> user[u].tv]}
      BY <1>2, <1>3 DEF OpenSession
    <2>2. Len(refresh) \in Nat
      BY DEF Types, Tables
    <2>3. new \in RefreshRow /\ new.user = u
      BY <1>1, <2>2 DEF RefreshRow
    <2>4. Guarded(r)'
      BY <1>3, WhereStepsLead, UnguardedIsGuarded DEF Unguarded, Idle
    <2> HIDE DEF new, u
    <2> QED BY <1>1, <1>2, <2>1, <2>3, <2>4, IssueKeepsOut
  <1>4. CASE IssueSuccessor(r)
    <2> DEFINE new == [user |-> u, live |-> TRUE, login |-> refresh[req[r].i].login]
    <2>1. refresh' = Append(refresh, new) /\ access' = access /\ req[r].pc = "rotating"
      BY <1>4 DEF IssueSuccessor, At
    <2>2. req[r].i \in DOMAIN refresh
      BY <2>1, RequestOf DEF Remembers, TokenPcs
    <2>3. refresh[req[r].i].login \in Nat
      BY <2>2, TokenUser DEF RefreshRow, Types
    <2>4. new \in RefreshRow /\ new.user = u
      BY <1>1, <2>3 DEF RefreshRow
    <2>5. Guarded(r)'
      BY <1>1, <1>2, <1>4, WhereStepsLead DEF Guarded, At, GoesTo
    <2> HIDE DEF new, u
    <2> QED BY <1>1, <1>2, <2>1, <2>4, <2>5, IssueKeepsOut
  <1>5. CASE SignRefreshed(r)
    <2>1. /\ refresh' = refresh
          /\ access' = access \/ access' = access \cup {[user |-> u, tv |-> user[u].tv]}
      BY <1>5 DEF SignRefreshed, rows
    <2>2. Guarded(r)'
      BY <1>5, WhereStepsLead, UnguardedIsGuarded DEF Unguarded, Idle
    <2> HIDE DEF u
    <2> QED BY <1>1, <1>2, <2>1, <2>2, IssueKeepsOut
  <1> QED BY <1>3, <1>4, <1>5

LEMMA UserWritesKeepOut ==
    ASSUME Alone, Types, Out, NEW r \in Requests,
           \/ BumpTokenVersion(r) \/ SetPassword(r) \/ InsertFirstUser(r) \/ InsertInvited(r)
           \/ SaveUser(r)
    PROVE  Out'
  <1> DEFINE u == req[r].u
  <1>1. /\ u \in Users /\ UNCHANGED <<refresh, access>>
        /\ req[r].pc \in {"bumping", "resetting", "accepting", "rolesInstalled", "inviting", "saving"}
    BY RequestOf, PlainShape
       DEF BumpTokenVersion, SetPassword, InsertFirstUser, InsertInvited, SaveUser, At,
           PlainPcs, RedeemPcs
  <1>2. user[u] \in UserRow /\ user \in [Users -> UserRow]
    BY <1>1 DEF Types, Tables
  <1>3. ASSUME NEW row, user' = [user EXCEPT ![u] = row]
        PROVE  user'[u] = row /\ \A v \in Users : v # u => user'[v] = user[v]
    BY <1>1, <1>2, <1>3
  <1>4. user[u].status = "suspended" => LiveOf(u) = {}
    BY <1>1 DEF Out, SuspendedIsOut, SignedOut
  <1>5. ASSUME \A v \in Users : v # u => user'[v] = user[v], Guarded(r)',
               user'[u].tv \in Nat, user'[u].tv >= user[u].tv,
               user'[u].status = "suspended" =>
                  LiveOf(u) = {} /\ (user[u].status = "suspended" \/ user'[u].tv > user[u].tv)
        PROVE  Out'
    <2> HIDE DEF u
    <2> QED BY <1>1, <1>5, UserWriteKeepsOut
  <1>6. CASE BumpTokenVersion(r)
    <2>1. user' = [user EXCEPT ![u] = [user[u] EXCEPT !.tv = user[u].tv + 1]]
      BY <1>6 DEF BumpTokenVersion
    <2>2. user'[u] = [user[u] EXCEPT !.tv = user[u].tv + 1] /\ \A v \in Users : v # u => user'[v] = user[v]
      BY <1>3, <2>1
    <2>3. user'[u].tv = user[u].tv + 1 /\ user'[u].status = user[u].status /\ user[u].tv \in Nat
      BY <1>2, <2>2 DEF UserRow
    <2>4. Guarded(r)'
      <3>1. req'[r].pc = "idle"
        BY <1>6, WhereStepsLead DEF Idle
      <3> QED BY <3>1, UnguardedIsGuarded DEF Unguarded
    <2>5. user'[u].tv \in Nat /\ user'[u].tv > user[u].tv /\ user'[u].tv >= user[u].tv
      BY <2>3
    <2> QED BY <1>4, <1>5, <2>2, <2>3, <2>4, <2>5
  <1>7. CASE SetPassword(r)
    <2> DEFINE row == IF At(r, "accepting")
                      THEN [user[u] EXCEPT !.password = TRUE, !.status = "active"]
                      ELSE [user[u] EXCEPT !.password = TRUE]
    <2>1. user' = [user EXCEPT ![u] = row]
      BY <1>7 DEF SetPassword
    <2>2. user'[u] = row /\ \A v \in Users : v # u => user'[v] = user[v]
      BY <1>3, <2>1
    <2>3. /\ user'[u].tv = user[u].tv /\ user[u].tv \in Nat
          /\ user'[u].status = IF At(r, "accepting") THEN "active" ELSE user[u].status
      BY <1>2, <2>2 DEF UserRow
    <2> HIDE DEF row
    <2>4. Guarded(r)'
      <3>1. CASE At(r, "accepting") /\ GoesTo(r, "stored")
        BY <2>3, <3>1 DEF Guarded, At, GoesTo
      <3>2. CASE GoesTo(r, "passwordSet")
        BY <3>2, UnguardedIsGuarded DEF GoesTo, Unguarded
      <3> QED BY <1>7, <3>1, <3>2, WhereStepsLead
    <2>5. user'[u].tv \in Nat /\ user'[u].tv >= user[u].tv
      BY <2>3
    <2> QED BY <1>4, <1>5, <2>2, <2>3, <2>4, <2>5
  <1>8. CASE InsertFirstUser(r) \/ InsertInvited(r)
    <2> DEFINE row == IF InsertFirstUser(r) THEN NewUser(SuperAdmin, "active")
                      ELSE NewUser(req[r].role, "invited")
    <2>1. /\ user[u].status = "none"
          /\ row.tv = 0 /\ row.status \in {"active", "invited"}
      BY <1>8 DEF InsertFirstUser, InsertInvited, NewUser
    <2>2. user' = [user EXCEPT ![u] = row]
      BY <1>8 DEF InsertFirstUser, InsertInvited, At
    <2> HIDE DEF row
    <2>3. user[u].tv = 0
      BY <1>1, <2>1 DEF Types, Tables, Known, NoUser
    <2>4. user'[u] = row /\ \A v \in Users : v # u => user'[v] = user[v]
      BY <1>3, <2>2
    <2>5. Guarded(r)'
      <3>1. CASE GoesTo(r, "stored")
        BY <2>1, <2>4, <3>1 DEF Guarded, At, GoesTo
      <3>2. CASE GoesTo(r, "retiring")
        BY <3>2, UnguardedIsGuarded DEF GoesTo, Unguarded
      <3> QED BY <1>8, <3>1, <3>2, WhereStepsLead
    <2>6. user'[u].tv \in Nat /\ user'[u].tv >= user[u].tv /\ user'[u].status # "suspended"
      BY <2>1, <2>3, <2>4
    <2> QED BY <1>5, <2>4, <2>5, <2>6
  <1>9. CASE SaveUser(r)
    <2>1. user' = [user EXCEPT ![u] = req[r].row] /\ At(r, "saving")
      BY <1>9 DEF SaveUser
    <2>2. user'[u] = req[r].row /\ \A v \in Users : v # u => user'[v] = user[v]
      BY <1>3, <2>1
    <2>3. req[r].row.tv \in Nat
      BY <2>1, RequestOf, RowShape DEF At, KnownRow, UserRow
    <2>4. /\ req[r].row.tv >= user[u].tv
          /\ req[r].row.status = "suspended" =>
                LiveOf(u) = {} /\ (user[u].status = "suspended" \/ req[r].row.tv > user[u].tv)
      BY <2>1 DEF Out, Guarded
    <2>5. Guarded(r)'
      <3>1. req'[r].pc = "idle"
        BY <1>9, WhereStepsLead DEF Idle
      <3> QED BY <3>1, UnguardedIsGuarded DEF Unguarded
    <2> QED BY <1>5, <2>2, <2>3, <2>4, <2>5
  <1> QED BY <1>6, <1>7, <1>8, <1>9

LEMMA OutKept ==
    ASSUME Alone, Types, Out, [Next]_vars
    PROVE  Out'
  <1>1. CASE UNCHANGED vars
    BY <1>1 DEF vars, Out, Older, SuspendedIsOut, SignedOut, LiveOf, Guarded, At
  <1>2. ASSUME NEW r \in Requests, Arrive(r) PROVE Out'
    <2>1. UNCHANGED <<user, access>> /\ TokensOnlyDie
      BY <1>2, WhatArrives
    <2> QED BY <1>2, <2>1, ArrivalIsGuarded, DyingKeepsOut
  <1>3. ASSUME NEW r \in Requests, Advance(r) \/ Fail(r) PROVE Out'
    BY <1>3, ServiceKeepsOut, IssuingKeepsOut, UserWritesKeepOut DEF Advance
  <1> QED BY <1>1, <1>2, <1>3 DEF Next

LEMMA OutHolds == ASSUME Alone PROVE Spec => []Out
  <1>1. Init => Out
    BY DEF Init, Out, Older, SuspendedIsOut, SignedOut, LiveOf, Guarded, At, Idle
  <1>2. Types /\ Out /\ [Next]_vars => Out'
    BY OutKept
  <1> QED BY <1>1, <1>2, TypesHold, PTL DEF Spec

\* Requests one at a time, each of which may fail at any await: a suspended
\* user holds no refresh token that works and no access token that a later
\* reactivation would bring back to life.
THEOREM SuspensionIsFinal == ASSUME Alone PROVE Spec => []SuspendedIsOut
  <1>1. Out => SuspendedIsOut
    BY DEF Out
  <1> QED BY <1>1, OutHolds, PTL

\* Requests one at a time: logout-all, reset-password and change-password are
\* answered with every session of the user dead, the asking one included.
THEOREM ClosingIsComplete == ASSUME Alone PROVE Spec => ClosingEndsSessions
  <1>1. ASSUME Types, Out, Out', NEW r \in Requests, NEW u \in Users,
               BumpTokenVersion(r), req[r].u = u
        PROVE  SignedOut(u)'
    <2>1. LiveOf(u) = {} /\ Older
      BY <1>1 DEF Out, Guarded, BumpTokenVersion
    <2>2. user' = [user EXCEPT ![u].tv = @ + 1] /\ UNCHANGED <<refresh, access>>
      BY <1>1 DEF BumpTokenVersion
    <2>3. user[u].tv \in Nat /\ user'[u].tv = user[u].tv + 1
      BY <1>1, <2>2 DEF Types, Tables, UserRow
    <2>4. \A t \in access : t.user = u => t.tv \in Nat /\ t.tv <= user[u].tv
      BY <1>1, <2>1, AccessOf DEF Older
    <2>5. \A t \in access' : t.user = u => t.tv < user'[u].tv
      BY <2>2, <2>3, <2>4
    <2>6. LiveOf(u)' = {}
      BY <2>1, <2>2 DEF LiveOf
    <2> QED BY <2>5, <2>6 DEF SignedOut
  <1>2. Types /\ Out /\ Out' /\ [Next]_vars =>
           [\A r \in Requests, u \in Users :
               BumpTokenVersion(r) /\ req[r].u = u => SignedOut(u)']_vars
    BY <1>1
  <1> QED BY <1>2, TypesHold, OutHolds, PTL DEF Spec, ClosingEndsSessions
=============================================================================
