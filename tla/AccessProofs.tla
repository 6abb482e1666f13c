----------------------------- MODULE AccessProofs -----------------------------
(***************************************************************************)
(* Theorems about Access for any users, tokens and requests.               *)
(*                                                                         *)
(* The argument.  Every route asks for permissions that only those roles   *)
(* have that may change its area, and the role a request is admitted with  *)
(* is the one it works with.  Users are never deleted, so that a row that  *)
(* a view shows can be written later.                                      *)
(*                                                                         *)
(* Whoever manages users is an administrator, so that his view shows one;  *)
(* the administrators it shows are still there unless another update took  *)
(* one of them since, and then the request is overtaken.  In the same way  *)
(* the account is as a request saw it unless it is overtaken.  A state is  *)
(* kept with the account only if it is the last one and not used: a start  *)
(* writes a hash that no view shows, and a callback removes what it saw.   *)
(***************************************************************************)
EXTENDS Access, FiniteSetTheorems, TLAPS

(***************************************************************************)
(* The inductive invariants.                                               *)
(***************************************************************************)

(* A view of the users shows rows that are still there.                     *)
UsersStay ==
    \A q \in Requests : request[q].at = "managing_users" =>
        \A u \in Users : request[q].view[u] # AbsentUser => user[u] # AbsentUser

Base == TypeOK /\ UsersStay /\ RolesRespected

(* A request that manages users sees an administrator, and those it sees    *)
(* are still there unless it is overtaken.                                  *)
AdminsSeen ==
    \A q \in Requests : request[q].at = "managing_users" =>
        /\ ActiveAdmins(request[q].view) # {}
        /\ q \notin overtaken => ActiveAdmins(request[q].view) \subseteq ActiveAdmins(user)

(* The account is as a request sees it unless the request is overtaken.     *)
AccountSeen ==
    \A q \in Requests \ overtaken :
        request[q].at \in AccountPhases => request[q].view = account

(* No view shows a state that was not handed out, and a callback is for the *)
(* state its view shows.                                                    *)
StatesSeen ==
    \A q \in Requests :
        /\ request[q].at \in AccountPhases /\ request[q].view.auth_meta \in AuthorizationStates
               => request[q].view.auth_meta <= started
        /\ request[q].at = "called_back" => StateValid(request[q].view, request[q].state)

(* The account keeps no state but the last one, and that only until it is   *)
(* used.                                                                    *)
LastKept ==
    /\ used \subseteq 1..started
    /\ account.auth_meta \in AuthorizationStates =>
           account.auth_meta = started /\ started \notin used

AccountSafe == AccountSeen /\ StatesSeen /\ LastKept

IInv == Base /\ AdminsSeen /\ AccountSafe

(***************************************************************************)
(* The routes and the roles.                                               *)
(***************************************************************************)

(* Whoever has the permissions a route asks for may change its area.        *)
Allowed(r) ==
    \A role \in Roles : r.requires \subseteq RolePermissions[role] => r.changes \in MayChange[role]

LEMMA PermissionsOf ==
    /\ RolePermissions["admin"] = Permissions
    /\ RolePermissions["operator"] = Permissions \ {"user.manage", "settings.manage"}
    /\ RolePermissions["viewer"] = {}
  BY DEF RolePermissions

LEMMA AreasOf ==
    /\ MayChange["admin"] = Areas
    /\ MayChange["operator"] = Areas \ {"users", "settings"}
    /\ MayChange["viewer"] = {"nothing", "file_status", "own_token"}
  BY DEF MayChange

LEMMA ReadsAllowed == ASSUME NEW handlers, NEW r \in Reads(handlers) PROVE Allowed(r)
<1>1. r.changes = "nothing"
  BY DEF Reads, Routes
<1> QED
  BY <1>1, AreasOf DEF Allowed, Roles, Areas

(* An area that viewers may not change asks for a permission, and one that  *)
(* operators may not change for one they do not have.                       *)
LEMMA RoutesAllowed ==
    ASSUME NEW handlers, NEW requires, NEW changes \in Areas, NEW r \in Routes(handlers, requires, changes),
           requires = {} => changes \in {"nothing", "file_status", "own_token"},
           changes \in {"users", "settings"} =>
                requires \cap {"user.manage", "settings.manage"} # {}
    PROVE  Allowed(r)
<1>1. r.requires = requires /\ r.changes = changes
  BY DEF Routes
<1>2. CASE requires = {}
  BY <1>1, <1>2, AreasOf DEF Allowed, Roles, Areas
<1>3. CASE requires # {}
  <2>1. ~(requires \subseteq RolePermissions["viewer"])
    BY <1>3, PermissionsOf
  <2>2. requires \subseteq RolePermissions["operator"] => changes \in MayChange["operator"]
    BY PermissionsOf, AreasOf
  <2>3. changes \in MayChange["admin"]
    BY AreasOf
  <2> QED
    BY <1>1, <2>1, <2>2, <2>3 DEF Allowed, Roles
<1> QED
  BY <1>2, <1>3

LEMMA WritesAllowed ==
    ASSUME NEW handlers, NEW permission, NEW area \in Areas,
           area \in {"users", "settings"} => permission \in {"user.manage", "settings.manage"},
           NEW r \in Writes(handlers, permission, area)
    PROVE  Allowed(r)
  BY RoutesAllowed DEF Writes

LEMMA EachAllowed == \A r \in AllRoutes : Allowed(r)
<1> USE ReadsAllowed, WritesAllowed, RoutesAllowed DEF Areas
<1>1. \A r \in AssetRoutes : Allowed(r)
  BY DEF AssetRoutes
<1>2. \A r \in AuthRoutes : Allowed(r)
  BY DEF AuthRoutes
<1>3. \A r \in CompetitorRoutes : Allowed(r)
  BY DEF CompetitorRoutes
<1>4. \A r \in ParseTaskRoutes : Allowed(r)
  BY DEF ParseTaskRoutes
<1>5. \A r \in MonitorRoutes : Allowed(r)
  BY DEF MonitorRoutes
<1>6. \A r \in CreativePlanRoutes : Allowed(r)
  BY DEF CreativePlanRoutes
<1>7. \A r \in DashboardRoutes : Allowed(r)
  BY DEF DashboardRoutes
<1>8. \A r \in DemoDataRoutes : Allowed(r)
  BY DEF DemoDataRoutes
<1>9. \A r \in DiagnosisRoutes : Allowed(r)
  BY DEF DiagnosisRoutes
<1>10. \A r \in GenerationJobRoutes : Allowed(r)
  BY DEF GenerationJobRoutes
<1>11. \A r \in ImportRoutes : Allowed(r)
  BY DEF ImportRoutes
<1>12. \A r \in InventoryRoutes : Allowed(r)
  BY DEF InventoryRoutes
<1>13. \A r \in InventoryAdviceRoutes : Allowed(r)
  BY DEF InventoryAdviceRoutes
<1>14. \A r \in PromotionLinkRoutes : Allowed(r)
  BY DEF PromotionLinkRoutes
<1>15. \A r \in RecommendationRoutes : Allowed(r)
  BY DEF RecommendationRoutes
<1>16. \A r \in ExperimentRoutes : Allowed(r)
  BY DEF ExperimentRoutes
<1>17. \A r \in PerformanceRoutes : Allowed(r)
  BY DEF PerformanceRoutes
<1>18. \A r \in ReviewReportRoutes : Allowed(r)
  BY DEF ReviewReportRoutes
<1>19. \A r \in PlatformAccountRoutes : Allowed(r)
  BY DEF PlatformAccountRoutes
<1>20. \A r \in ProductRoutes : Allowed(r)
  BY DEF ProductRoutes
<1>21. \A r \in ProductMappingRoutes : Allowed(r)
  BY DEF ProductMappingRoutes
<1>22. \A r \in SettingsRoutes : Allowed(r)
  BY DEF SettingsRoutes
<1>23. \A r \in SkuRoutes : Allowed(r)
  BY DEF SkuRoutes
<1>24. \A r \in StoreRoutes : Allowed(r)
  BY DEF StoreRoutes
<1>25. \A r \in UserRoutes : Allowed(r)
  BY DEF UserRoutes
<1> QED
  BY <1>1, <1>2, <1>3, <1>4, <1>5, <1>6, <1>7, <1>8, <1>9, <1>10, <1>11, <1>12, <1>13, <1>14,
     <1>15, <1>16, <1>17, <1>18, <1>19, <1>20, <1>21, <1>22, <1>23, <1>24, <1>25 DEF AllRoutes

(***************************************************************************)
(* Types, rows that stay, and roles: whatever overlaps.                    *)
(***************************************************************************)

LEMMA RequestShape ==
    ASSUME NEW s \in RequestStates
    PROVE  /\ s.at = "signing_in" => s.user \in Users /\ s.role \in Roles
           /\ s.at = "signing_out" => s.token \in Tokens
           /\ s.at = "managing_users" => s.view \in [Users -> UserRows]
           /\ s.at \in AccountPhases => s.view \in AccountRows
           /\ s.at = "called_back" => s.state \in AuthorizationStates
<1>1. CASE s = Idle
  BY <1>1 DEF Idle, AccountPhases
<1>2. CASE s \in [at: {"signing_in"}, user: Users, role: Roles]
  BY <1>2 DEF AccountPhases
<1>3. CASE s \in [at: {"handling"}, role: Roles, changes: Areas \ {"users", "account", "own_token"}]
  BY <1>3 DEF AccountPhases
<1>4. CASE s \in [at: {"signing_out"}, token: Tokens]
  BY <1>4 DEF AccountPhases
<1>5. CASE s \in [at: {"managing_users"}, role: Roles, view: [Users -> UserRows]]
  BY <1>5 DEF AccountPhases
<1>6. CASE s \in [at: {"managing_account"}, role: Roles, view: AccountRows]
  BY <1>6 DEF AccountPhases
<1>7. CASE s \in [at: {"called_back"}, state: AuthorizationStates, view: AccountRows]
  BY <1>7 DEF AccountPhases
<1> QED
  BY <1>1, <1>2, <1>3, <1>4, <1>5, <1>6, <1>7 DEF RequestStates

(* What a request may be at without a lie about its role.                   *)
Respects(s) ==
    s.at \in {"handling", "managing_users", "managing_account"} =>
        Changing(s) \in MayChange[s.role]

LEMMA AdmittedRole ==
    ASSUME TypeOK, NEW t \in Tokens, NEW area, Admitted(t, area)
    PROVE  /\ Began(t) \in Roles
           /\ area \in MayChange[Began(t)]
<1>1. token[t] \in Claims
  BY DEF TypeOK, Admitted, Authenticated
<1>2. user[token[t].user] \in UserRows /\ user[token[t].user].status = "active"
  BY <1>1 DEF TypeOK, Claims, Admitted, Authenticated, Active
<1>3. Began(t) \in Roles /\ RoleOf(t) = Began(t)
  BY <1>2 DEF UserRows, Began, RoleOf
<1>4. PICK r \in AllRoutes : r.changes = area /\ r.requires \subseteq RolePermissions[RoleOf(t)]
  BY DEF Admitted, RouteKinds, Granted
<1> QED
  BY <1>3, <1>4, EachAllowed DEF Allowed

(* Users are not deleted.                                                   *)
NoneDeleted == \A u \in Users : user[u] # AbsentUser => user'[u] # AbsentUser

LEMMA MovesBase ==
    ASSUME Base, NEW q \in Requests, NEW s \in RequestStates, NEW passed \in SUBSET Requests,
           Goto(q, s, passed), Respects(s),
           s.at = "managing_users" => \A u \in Users : s.view[u] # AbsentUser => user[u] # AbsentUser,
           NoneDeleted, user' \in [Users -> UserRows],
           token' \in [Tokens -> Claims \cup {NoToken}], revoked' \subseteq Tokens,
           account' \in AccountRows, started' \in 0..MaxStates, used' \subseteq AuthorizationStates
    PROVE  Base'
<1>1. request \in [Requests -> RequestStates] /\ overtaken \subseteq Requests
  BY DEF Base, TypeOK
<1>2. request'[q] = s /\ \A r \in Requests \ {q} : request'[r] = request[r]
  BY <1>1 DEF Goto
<1>3. TypeOK'
  BY <1>1 DEF TypeOK, Goto
<1>4. UsersStay'
  BY <1>2 DEF Base, UsersStay, NoneDeleted
<1>5. RolesRespected'
  BY <1>2 DEF Base, RolesRespected, Respects, Changing
<1> QED
  BY <1>3, <1>4, <1>5 DEF Base

LEMMA BeginsBase ==
    ASSUME Base, NEW q \in Requests, NEW s \in RequestStates, NEW passed \in SUBSET Requests,
           Goto(q, s, passed), Respects(s),
           s.at = "managing_users" => s.view = user,
           UNCHANGED <<user, token, revoked, account, started, used>>
    PROVE  Base'
  BY MovesBase DEF Base, TypeOK, NoneDeleted

LEMMA EndsBase ==
    ASSUME Base, NEW q \in Requests, NEW passed \in SUBSET Requests, Goto(q, Idle, passed),
           NoneDeleted, user' \in [Users -> UserRows],
           token' \in [Tokens -> Claims \cup {NoToken}], revoked' \subseteq Tokens,
           account' \in AccountRows, started' \in 0..MaxStates, used' \subseteq AuthorizationStates
    PROVE  Base'
<1>1. Idle \in RequestStates /\ Respects(Idle) /\ Idle.at # "managing_users"
  BY DEF Idle, RequestStates, Respects
<1> QED
  BY <1>1, MovesBase

LEMMA WriteAccountTypes ==
    ASSUME account \in AccountRows, NEW seen,
           NEW meta \in {NoMetadata, WithoutState} \cup AuthorizationStates,
           NEW status \in {"pending", "authorized", "failed", "expired", "revoked"},
           WriteAccount(seen, status, meta)
    PROVE  account' \in AccountRows
  BY DEF WriteAccount, Assigned, AccountRows

LEMMA UserChangesBase ==
    ASSUME Base, NEW q \in Requests, NEW u \in Users, NEW role \in Roles, NEW status \in Statuses,
           CreateUser(q, u, role, status) \/ UpdateUser(q, u, role, status)
    PROVE  Base'
<1>1. TypeOK
  BY DEF Base
<1>2. \E row \in UserRows \ {AbsentUser} : user' = [user EXCEPT ![u] = row]
  <2>1. CASE CreateUser(q, u, role, status)
    <3>1. [role |-> role, status |-> status] \in UserRows \ {AbsentUser}
      BY DEF UserRows, AbsentUser, Roles
    <3> QED
      BY <2>1, <3>1 DEF CreateUser
  <2>2. CASE UpdateUser(q, u, role, status)
    <3> DEFINE seen == request[q].view[u]
               row == [role |-> Assigned(user[u].role, seen.role, role),
                       status |-> Assigned(user[u].status, seen.status, status)]
    <3>1. user' = [user EXCEPT ![u] = row]
      BY <2>2 DEF UpdateUser
    <3>2. user[u] # AbsentUser /\ user[u] \in UserRows
      BY <1>1, <2>2 DEF UpdateUser, Base, UsersStay, TypeOK
    <3>3. user[u].role \in Roles /\ user[u].status \in Statuses
      BY <3>2 DEF UserRows, AbsentUser
    <3>4. row.role \in Roles /\ row.status \in Statuses
      BY <3>3 DEF Assigned
    <3>5. row \in UserRows \ {AbsentUser}
      BY <3>4 DEF UserRows, AbsentUser, Roles
    <3> QED
      BY <3>1, <3>5
  <2> QED
    BY <2>1, <2>2
<1>3. NoneDeleted /\ user' \in [Users -> UserRows]
  BY <1>1, <1>2 DEF NoneDeleted, TypeOK
<1> QED
  BY <1>1, <1>3, EndsBase DEF CreateUser, UpdateUser, Passed, TypeOK

LEMMA SignsInOrOutBase ==
    ASSUME Base, NEW q \in Requests, SignsInOrOut(q)
    PROVE  Base'
<1>1. TypeOK /\ request[q] \in RequestStates
  BY DEF Base, TypeOK
<1>2. UNCHANGED user => NoneDeleted
  BY DEF NoneDeleted
<1>3. ASSUME NEW u \in Users, BeginLogin(q, u) PROVE Base'
  <2>1. PICK s : s = [at |-> "signing_in", user |-> u, role |-> user[u].role]
    OBVIOUS
  <2>2. user[u].role \in Roles
    BY <1>1, <1>3 DEF TypeOK, UserRows, BeginLogin, Active
  <2>3. s \in [at: {"signing_in"}, user: Users, role: Roles]
    BY <2>1, <2>2
  <2>4. s \in RequestStates /\ Respects(s) /\ s.at # "managing_users"
    BY <2>1, <2>3 DEF RequestStates, Respects
  <2> QED
    BY <1>3, <2>1, <2>4, BeginsBase DEF BeginLogin
<1>4. ASSUME NEW t \in Tokens, EndLogin(q, t) PROVE Base'
  <2>1. [user |-> request[q].user, role |-> request[q].role] \in Claims
    BY <1>1, <1>4, RequestShape DEF EndLogin, Claims
  <2>2. token' \in [Tokens -> Claims \cup {NoToken}]
    BY <1>1, <1>4, <2>1 DEF EndLogin, TypeOK
  <2> QED
    BY <1>1, <1>2, <1>4, <2>2, EndsBase DEF EndLogin, TypeOK
<1>5. ASSUME NEW t \in Tokens, BeginLogout(q, t) PROVE Base'
  <2>1. PICK s : s = [at |-> "signing_out", token |-> t]
    OBVIOUS
  <2>2. s \in [at: {"signing_out"}, token: Tokens]
    BY <2>1
  <2>3. s \in RequestStates /\ Respects(s) /\ s.at # "managing_users"
    BY <2>1, <2>2 DEF RequestStates, Respects
  <2> QED
    BY <1>5, <2>1, <2>3, BeginsBase DEF BeginLogout
<1>6. CASE Logout(q)
  <2>1. revoked' \subseteq Tokens
    BY <1>1, <1>6, RequestShape DEF Logout, TypeOK
  <2> QED
    BY <1>1, <1>2, <1>6, <2>1, EndsBase DEF Logout, TypeOK
<1> QED
  BY <1>3, <1>4, <1>5, <1>6 DEF SignsInOrOut

LEMMA HandlesBase ==
    ASSUME Base, NEW q \in Requests, Handles(q)
    PROVE  Base'
<1>1. TypeOK
  BY DEF Base
<1>2. ASSUME NEW t \in Tokens, NEW area \in Areas \ {"users", "account", "own_token"},
             BeginHandling(q, t, area)
      PROVE  Base'
  <2>1. PICK s : s = [at |-> "handling", role |-> Began(t), changes |-> area]
    OBVIOUS
  <2>2. Began(t) \in Roles /\ area \in MayChange[Began(t)]
    BY <1>1, <1>2, AdmittedRole DEF BeginHandling
  <2>3. s \in [at: {"handling"}, role: Roles, changes: Areas \ {"users", "account", "own_token"}]
    BY <2>1, <2>2
  <2>4. s \in RequestStates /\ s.at # "managing_users"
    BY <2>1, <2>3 DEF RequestStates
  <2>5. Respects(s)
    BY <2>1, <2>2 DEF Respects, Changing
  <2> QED
    BY <1>2, <2>1, <2>4, <2>5, BeginsBase DEF BeginHandling
<1>3. CASE Leave(q)
  BY <1>1, <1>3, EndsBase DEF Leave, TypeOK, NoneDeleted
<1> QED
  BY <1>2, <1>3 DEF Handles

LEMMA ManagesBase ==
    ASSUME Base, NEW q \in Requests, ManagesUsers(q) \/ ManagesAccount(q)
    PROVE  Base'
<1>1. TypeOK
  BY DEF Base
<1>2. UNCHANGED user => NoneDeleted
  BY DEF NoneDeleted
<1>3. ASSUME NEW t \in Tokens, BeginManagingUsers(q, t) PROVE Base'
  <2>1. PICK s : s = [at |-> "managing_users", role |-> Began(t), view |-> user]
    OBVIOUS
  <2>2. Began(t) \in Roles /\ "users" \in MayChange[Began(t)]
    BY <1>1, <1>3, AdmittedRole DEF BeginManagingUsers
  <2>3. s \in [at: {"managing_users"}, role: Roles, view: [Users -> UserRows]]
    BY <1>1, <2>1, <2>2 DEF TypeOK
  <2>4. s \in RequestStates /\ s.view = user
    BY <2>1, <2>3 DEF RequestStates
  <2>5. Respects(s)
    BY <2>1, <2>2 DEF Respects, Changing
  <2> QED
    BY <1>3, <2>1, <2>4, <2>5, BeginsBase DEF BeginManagingUsers
<1>4. ASSUME NEW t \in Tokens, BeginManagingAccount(q, t) PROVE Base'
  <2>1. PICK s : s = [at |-> "managing_account", role |-> Began(t), view |-> account]
    OBVIOUS
  <2>2. Began(t) \in Roles /\ "account" \in MayChange[Began(t)]
    BY <1>1, <1>4, AdmittedRole DEF BeginManagingAccount
  <2>3. s \in [at: {"managing_account"}, role: Roles, view: AccountRows]
    BY <1>1, <2>1, <2>2 DEF TypeOK
  <2>4. s \in RequestStates /\ s.at # "managing_users"
    BY <2>1, <2>3 DEF RequestStates
  <2>5. Respects(s)
    BY <2>1, <2>2 DEF Respects, Changing
  <2> QED
    BY <1>4, <2>1, <2>4, <2>5, BeginsBase DEF BeginManagingAccount
<1>5. CASE CreateAccount(q)
  <2>1. account' \in AccountRows
    BY <1>5, StateAssumption DEF CreateAccount, AccountRows
  <2> QED
    BY <1>1, <1>2, <1>5, <2>1, EndsBase DEF CreateAccount, EndAccountRequest, Passed, TypeOK
<1>6. CASE StartAuthorization(q)
  <2>1. started' \in 0..MaxStates
    BY <1>1, <1>6, StateAssumption DEF StartAuthorization, TypeOK
  <2>2. account' \in AccountRows
    <3>1. PICK n : n = started'
      OBVIOUS
    <3>2. WriteAccount(request[q].view, "pending", n) /\ n \in AuthorizationStates
      BY <1>1, <1>6, <2>1, <3>1 DEF StartAuthorization, AuthorizationStates, TypeOK
    <3> QED
      BY <1>1, <3>2, WriteAccountTypes DEF TypeOK
  <2> QED
    BY <1>1, <1>2, <1>6, <2>1, <2>2, EndsBase
    DEF StartAuthorization, EndAccountRequest, Passed, TypeOK
<1>7. CASE RevokeAuthorization(q)
  <2>1. account' \in AccountRows
    BY <1>1, <1>7, StateAssumption, WriteAccountTypes DEF RevokeAuthorization, TypeOK
  <2> QED
    BY <1>1, <1>2, <1>7, <2>1, EndsBase
    DEF RevokeAuthorization, EndAccountRequest, Passed, TypeOK
<1> QED
  BY <1>3, <1>4, <1>5, <1>6, <1>7, UserChangesBase DEF ManagesUsers, ManagesAccount

LEMMA CallsBackBase ==
    ASSUME Base, NEW q \in Requests, CallsBack(q)
    PROVE  Base'
<1>1. TypeOK /\ request[q] \in RequestStates
  BY DEF Base, TypeOK
<1>2. ASSUME NEW state \in AuthorizationStates, BeginCallback(q, state) PROVE Base'
  <2>1. PICK s : s = [at |-> "called_back", state |-> state, view |-> account]
    OBVIOUS
  <2>2. s \in [at: {"called_back"}, state: AuthorizationStates, view: AccountRows]
    BY <1>1, <2>1 DEF TypeOK
  <2>3. s \in RequestStates /\ Respects(s) /\ s.at # "managing_users"
    BY <2>1, <2>2 DEF RequestStates, Respects
  <2> QED
    BY <1>2, <2>1, <2>3, BeginsBase DEF BeginCallback
<1>3. ASSUME NEW result \in {"authorized", "failed", "expired"}, CompleteAuthorization(q, result)
      PROVE  Base'
  <2>1. account' \in AccountRows
    BY <1>1, <1>3, StateAssumption, WriteAccountTypes DEF CompleteAuthorization, TypeOK
  <2>2. used' \subseteq AuthorizationStates
    BY <1>1, <1>3, RequestShape DEF CompleteAuthorization, TypeOK
  <2> QED
    BY <1>1, <1>3, <2>1, <2>2, EndsBase
    DEF CompleteAuthorization, EndAccountRequest, Passed, TypeOK, NoneDeleted
<1> QED
  BY <1>2, <1>3 DEF CallsBack

LEMMA InitBase == Init => Base
<1> SUFFICES ASSUME Init PROVE Base
  OBVIOUS
<1>1. \A q \in Requests : request[q] = Idle
  BY DEF Init
<1>2. TypeOK
  BY StateAssumption
  DEF Init, TypeOK, UserRows, AbsentUser, Roles, Statuses, AbsentAccount, AccountRows, RequestStates
<1>3. UsersStay /\ RolesRespected
  BY <1>1 DEF UsersStay, RolesRespected, Idle
<1> QED
  BY <1>2, <1>3 DEF Base

LEMMA NextBase == Base /\ [Next]_vars => Base'
<1> SUFFICES ASSUME Base, [Next]_vars PROVE Base'
  OBVIOUS
<1>1. CASE UNCHANGED vars
  BY <1>1 DEF vars, Base, TypeOK, UsersStay, RolesRespected, Changing
<1> QED
  BY <1>1, SignsInOrOutBase, HandlesBase, ManagesBase, CallsBackBase DEF Next

LEMMA BaseInductive == Spec => []Base
<1> QED
  BY InitBase, NextBase, PTL DEF Spec

(***************************************************************************)
(* What requests see of the administrators.                                *)
(***************************************************************************)

(* Only administrators manage users.                                        *)
LEMMA ManagerIsAdmin ==
    ASSUME TypeOK, NEW t \in Tokens, Admitted(t, "users")
    PROVE  ActiveAdmins(user) # {}
<1>1. token[t] \in Claims /\ Active(token[t].user)
  BY DEF TypeOK, Admitted, Authenticated
<1>2. Began(t) \in Roles /\ "users" \in MayChange[Began(t)]
  BY AdmittedRole
<1>3. Began(t) = "admin"
  BY <1>2, AreasOf DEF Roles
<1>4. token[t].user \in ActiveAdmins(user)
  BY <1>1, <1>3 DEF Began, Claims, Active, ActiveAdmins, IsActiveAdmin
<1> QED
  BY <1>4

(* A step that takes no administrator away, or makes the views of those who *)
(* manage users old.                                                        *)
LEMMA MovesAdmins ==
    ASSUME Base, AdminsSeen, NEW q \in Requests, NEW s, NEW passed, Goto(q, s, passed),
           s.at = "managing_users" => ActiveAdmins(user) # {} /\ s.view = user /\ UNCHANGED user,
           \/ ActiveAdmins(user) \subseteq ActiveAdmins(user')
           \/ \A r \in Requests : request[r].at = "managing_users" => r \in passed
    PROVE  AdminsSeen'
<1>1. request'[q] = s /\ \A r \in Requests \ {q} : request'[r] = request[r]
  BY DEF Base, TypeOK, Goto
<1>2. overtaken' = (overtaken \cup passed) \ {q}
  BY DEF Goto
<1>3. ASSUME NEW r \in Requests, request'[r].at = "managing_users", r # q
      PROVE  /\ ActiveAdmins(request'[r].view) # {}
             /\ r \notin overtaken' => ActiveAdmins(request'[r].view) \subseteq ActiveAdmins(user')
  BY <1>1, <1>2, <1>3 DEF AdminsSeen
<1>4. s.at = "managing_users" => ActiveAdmins(s.view) # {}
                                 /\ ActiveAdmins(s.view) \subseteq ActiveAdmins(user')
  BY DEF ActiveAdmins
<1> QED
  BY <1>1, <1>3, <1>4 DEF AdminsSeen, ActiveAdmins

LEMMA ManagesUsersSafe ==
    ASSUME Base, AdminsSeen, NEW q \in Requests, ManagesUsers(q)
    PROVE  AdminsSeen'
<1>1. TypeOK /\ Idle.at # "managing_users"
  BY DEF Base, Idle
<1>2. ASSUME NEW t \in Tokens, BeginManagingUsers(q, t) PROVE AdminsSeen'
  <2>1. PICK s : s = [at |-> "managing_users", role |-> Began(t), view |-> user]
    OBVIOUS
  <2>2. ActiveAdmins(user) # {}
    BY <1>1, <1>2, ManagerIsAdmin DEF BeginManagingUsers
  <2>3. UNCHANGED user /\ Goto(q, s, {})
    BY <1>2, <2>1 DEF BeginManagingUsers
  <2>4. ActiveAdmins(user) \subseteq ActiveAdmins(user')
    BY <2>3 DEF ActiveAdmins
  <2> QED
    BY <2>1, <2>2, <2>3, <2>4, MovesAdmins
<1>3. ASSUME NEW u \in Users, NEW role \in Roles, NEW status \in Statuses,
             CreateUser(q, u, role, status)
      PROVE  AdminsSeen'
  <2>1. u \notin ActiveAdmins(user)
    BY <1>3 DEF CreateUser, AbsentUser, ActiveAdmins, IsActiveAdmin
  <2>2. \A v \in Users \ {u} : user'[v] = user[v]
    BY <1>1, <1>3 DEF CreateUser, TypeOK
  <2>3. ActiveAdmins(user) \subseteq ActiveAdmins(user')
    BY <2>1, <2>2 DEF ActiveAdmins
  <2> QED
    BY <1>1, <1>3, <2>3, MovesAdmins DEF CreateUser
<1>4. ASSUME NEW u \in Users, NEW role \in Roles, NEW status \in Statuses,
             UpdateUser(q, u, role, status)
      PROVE  AdminsSeen'
  <2>1. PICK passed : /\ passed = Passed(~(ActiveAdmins(user) \subseteq ActiveAdmins(user')),
                                         {"managing_users"})
                      /\ Goto(q, Idle, passed)
    BY <1>4 DEF UpdateUser
  <2>2. \/ ActiveAdmins(user) \subseteq ActiveAdmins(user')
        \/ \A r \in Requests : request[r].at = "managing_users" => r \in passed
    BY <2>1 DEF Passed
  <2> QED
    BY <1>1, <2>1, <2>2, MovesAdmins
<1> QED
  BY <1>2, <1>3, <1>4 DEF ManagesUsers

(***************************************************************************)
(* What requests see of the account.                                       *)
(***************************************************************************)

(* A step that leaves the account alone and does not look at it either.     *)
LEMMA AccountUntouched ==
    ASSUME Base, AccountSafe, NEW q \in Requests, NEW s, NEW passed, Goto(q, s, passed),
           UNCHANGED <<account, started, used>>, s.at \notin AccountPhases
    PROVE  AccountSafe'
<1>1. request'[q] = s /\ \A r \in Requests \ {q} : request'[r] = request[r]
  BY DEF Base, TypeOK, Goto
<1>2. AccountSeen'
  BY <1>1 DEF AccountSafe, AccountSeen, Goto
<1>3. StatesSeen'
  BY <1>1 DEF AccountSafe, StatesSeen, AccountPhases, StateValid
<1> QED
  BY <1>2, <1>3 DEF AccountSafe, LastKept

(* A request that begins sees the account as it is.                         *)
LEMMA BeginsAccount ==
    ASSUME Base, AccountSafe, NEW q \in Requests, NEW s, Goto(q, s, {}),
           UNCHANGED <<account, started, used>>, s.view = account,
           s.at = "called_back" => StateValid(account, s.state)
    PROVE  AccountSafe'
<1>1. request'[q] = s /\ \A r \in Requests \ {q} : request'[r] = request[r]
  BY DEF Base, TypeOK, Goto
<1>2. started \in Nat
  BY StateAssumption DEF Base, TypeOK
<1>3. AccountSeen'
  BY <1>1 DEF AccountSafe, AccountSeen, Goto
<1>4. account.auth_meta \in AuthorizationStates => account.auth_meta <= started
  BY <1>2 DEF AccountSafe, LastKept
<1>5. StatesSeen'
  BY <1>1, <1>4 DEF AccountSafe, StatesSeen, AccountPhases, StateValid
<1> QED
  BY <1>3, <1>5 DEF AccountSafe, LastKept

(* A request that wrote the account ends: who saw it before is overtaken.   *)
LEMMA EndsAccount ==
    ASSUME Base, AccountSafe, NEW q \in Requests, EndAccountRequest(q), started' \in Nat,
           started <= started', LastKept'
    PROVE  AccountSafe'
<1>1. request'[q] = Idle /\ \A r \in Requests \ {q} : request'[r] = request[r]
  BY DEF Base, TypeOK, EndAccountRequest, Goto
<1>2. overtaken' = (overtaken \cup Passed(account' # account, AccountPhases)) \ {q}
  BY DEF EndAccountRequest, Goto
<1>3. Idle.at \notin AccountPhases
  BY DEF Idle, AccountPhases
<1>4. AccountSeen'
  BY <1>1, <1>2, <1>3 DEF AccountSafe, AccountSeen, Passed
<1>5. started \in Nat
  BY StateAssumption DEF Base, TypeOK
<1>6. StatesSeen'
  <2> SUFFICES ASSUME NEW r \in Requests
               PROVE  /\ request'[r].at \in AccountPhases
                         /\ request'[r].view.auth_meta \in AuthorizationStates
                             => request'[r].view.auth_meta <= started'
                      /\ request'[r].at = "called_back"
                             => StateValid(request'[r].view, request'[r].state)
    BY DEF StatesSeen, StateValid
  <2>1. CASE r = q
    BY <1>1, <1>3, <2>1 DEF AccountPhases
  <2>2. CASE r # q
    <3>1. request'[r] = request[r]
      BY <1>1, <2>2
    <3>2. request[r].at \in AccountPhases /\ request[r].view.auth_meta \in AuthorizationStates
              => request[r].view.auth_meta <= started'
      BY <1>5 DEF AccountSafe, StatesSeen, AuthorizationStates
    <3> QED
      BY <3>1, <3>2 DEF AccountSafe, StatesSeen
  <2> QED
    BY <2>1, <2>2
<1> QED
  BY <1>4, <1>6 DEF AccountSafe

LEMMA ManagesAccountSafe ==
    ASSUME Base, AccountSafe, NEW q \in Requests, ManagesAccount(q)
    PROVE  AccountSafe'
<1>1. TypeOK /\ LastKept /\ started \in Nat /\ started <= MaxStates /\ MaxStates \in Nat
  BY StateAssumption DEF Base, TypeOK, AccountSafe
<1>2. ASSUME NEW t \in Tokens, BeginManagingAccount(q, t) PROVE AccountSafe'
  <2>1. PICK s : s = [at |-> "managing_account", role |-> Began(t), view |-> account]
    OBVIOUS
  <2> QED
    BY <1>2, <2>1, BeginsAccount DEF BeginManagingAccount
<1>3. CASE CreateAccount(q)
  <2>1. account'.auth_meta = 0
    BY <1>3 DEF CreateAccount, NoMetadata
  <2>2. LastKept'
    BY <1>1, <1>3, <2>1 DEF CreateAccount, LastKept, AuthorizationStates
  <2> QED
    BY <1>1, <1>3, <2>2, EndsAccount DEF CreateAccount
<1>4. CASE StartAuthorization(q)
  <2>1. PICK n : n = started'
    OBVIOUS
  <2>2. n = started + 1 /\ n \in AuthorizationStates /\ used' = used
        /\ WriteAccount(request[q].view, "pending", n)
    BY <1>1, <1>4, <2>1 DEF StartAuthorization, AuthorizationStates
  <2>3. request[q].view.auth_meta # n
    BY <1>1, <1>4, <2>2 DEF StartAuthorization, AccountSafe, StatesSeen, AccountPhases
  <2>4. account'.auth_meta = n
    BY <2>2, <2>3 DEF WriteAccount, Assigned
  <2>5. LastKept'
    BY <1>1, <2>1, <2>2, <2>4 DEF LastKept
  <2> QED
    BY <1>1, <1>4, <2>1, <2>2, <2>5, EndsAccount DEF StartAuthorization
<1>5. CASE RevokeAuthorization(q)
  <2>1. account'.auth_meta \in {account.auth_meta, 0}
    BY <1>5 DEF RevokeAuthorization, WriteAccount, Assigned, NoMetadata
  <2>2. LastKept'
    BY <1>1, <1>5, <2>1 DEF RevokeAuthorization, LastKept, AuthorizationStates
  <2> QED
    BY <1>1, <1>5, <2>2, EndsAccount DEF RevokeAuthorization
<1> QED
  BY <1>2, <1>3, <1>4, <1>5 DEF ManagesAccount

LEMMA CallsBackSafe ==
    ASSUME Base, AccountSafe, NEW q \in Requests, CallsBack(q)
    PROVE  AccountSafe'
<1>1. /\ TypeOK /\ LastKept /\ request[q] \in RequestStates
      /\ started \in Nat /\ started <= MaxStates /\ MaxStates \in Nat
  BY StateAssumption DEF Base, TypeOK, AccountSafe
<1>2. ASSUME NEW state \in AuthorizationStates, BeginCallback(q, state) PROVE AccountSafe'
  <2>1. PICK s : s = [at |-> "called_back", state |-> state, view |-> account]
    OBVIOUS
  <2> QED
    BY <1>2, <2>1, BeginsAccount DEF BeginCallback
<1>3. ASSUME NEW result \in {"authorized", "failed", "expired"}, CompleteAuthorization(q, result)
      PROVE  AccountSafe'
  <2>1. PICK n : n = request[q].state
    OBVIOUS
  <2>2. n \in AuthorizationStates /\ request[q].view.auth_meta = n /\ n <= started
    BY <1>1, <1>3, <2>1, RequestShape
    DEF CompleteAuthorization, AccountSafe, StatesSeen, StateValid, AccountPhases
  <2>3. account'.auth_meta = MaxStates + 1
    BY <1>1, <1>3, <2>2
    DEF CompleteAuthorization, WriteAccount, Assigned, WithoutState, AuthorizationStates
  <2>4. LastKept'
    <3>1. used' = used \cup {n} /\ started' = started /\ n \in 1..started
      BY <1>1, <1>3, <2>1, <2>2 DEF CompleteAuthorization, AuthorizationStates
    <3>2. used' \subseteq 1..started'
      BY <1>1, <3>1 DEF LastKept
    <3>3. account'.auth_meta \notin 1..MaxStates
      BY <1>1, <2>3
    <3>4. (account.auth_meta \in AuthorizationStates)' <=> account'.auth_meta \in 1..MaxStates
      BY DEF AuthorizationStates
    <3> QED
      BY <3>2, <3>3, <3>4 DEF LastKept
  <2> QED
    BY <1>1, <1>3, <2>4, EndsAccount DEF CompleteAuthorization
<1> QED
  BY <1>2, <1>3 DEF CallsBack

(***************************************************************************)
(* The steps that leave the users, or the account, alone.                  *)
(***************************************************************************)

LEMMA OthersSafe ==
    ASSUME Base, AdminsSeen, AccountSafe, NEW q \in Requests, SignsInOrOut(q) \/ Handles(q)
    PROVE  AdminsSeen' /\ AccountSafe'
<1>1. UNCHANGED <<user, account, started, used>>
  BY DEF SignsInOrOut, Handles, BeginLogin, EndLogin, BeginLogout, Logout, BeginHandling, Leave
<1>2. \E s : Goto(q, s, {}) /\ s.at \in {"idle", "signing_in", "signing_out", "handling"}
  <2>1. Idle.at = "idle"
    BY DEF Idle
  <2>2. ASSUME NEW u \in Users, BeginLogin(q, u)
        PROVE  \E s : Goto(q, s, {}) /\ s.at = "signing_in"
    BY <2>2 DEF BeginLogin
  <2>3. ASSUME NEW t \in Tokens, BeginLogout(q, t)
        PROVE  \E s : Goto(q, s, {}) /\ s.at = "signing_out"
    BY <2>3 DEF BeginLogout
  <2>4. ASSUME NEW t \in Tokens, NEW area, BeginHandling(q, t, area)
        PROVE  \E s : Goto(q, s, {}) /\ s.at = "handling"
    BY <2>4 DEF BeginHandling
  <2>5. ASSUME Goto(q, Idle, {}) PROVE \E s : Goto(q, s, {}) /\ s.at = "idle"
    BY <2>1, <2>5
  <2> QED
    BY <2>2, <2>3, <2>4, <2>5 DEF SignsInOrOut, Handles, EndLogin, Logout, Leave
<1>3. ActiveAdmins(user) \subseteq ActiveAdmins(user')
  BY <1>1 DEF ActiveAdmins
<1> QED
  BY <1>1, <1>2, <1>3, MovesAdmins, AccountUntouched DEF AccountPhases

LEMMA AccountStepsKeepAdmins ==
    ASSUME Base, AdminsSeen, NEW q \in Requests, ManagesAccount(q) \/ CallsBack(q)
    PROVE  AdminsSeen'
<1>1. Idle.at = "idle"
  BY DEF Idle
<1>2. UNCHANGED user
  BY DEF ManagesAccount, CallsBack, BeginManagingAccount, CreateAccount, StartAuthorization,
         RevokeAuthorization, BeginCallback, CompleteAuthorization
<1>3. \E s, passed : Goto(q, s, passed) /\ s.at \in {"idle", "managing_account", "called_back"}
  <2>1. ASSUME NEW t \in Tokens, BeginManagingAccount(q, t)
        PROVE  \E s : Goto(q, s, {}) /\ s.at = "managing_account"
    BY <2>1 DEF BeginManagingAccount
  <2>2. ASSUME NEW state, BeginCallback(q, state)
        PROVE  \E s : Goto(q, s, {}) /\ s.at = "called_back"
    BY <2>2 DEF BeginCallback
  <2>3. ASSUME EndAccountRequest(q) PROVE \E s, passed : Goto(q, s, passed) /\ s.at = "idle"
    BY <1>1, <2>3 DEF EndAccountRequest
  <2> QED
    BY <2>1, <2>2, <2>3
    DEF ManagesAccount, CallsBack, CreateAccount, StartAuthorization, RevokeAuthorization,
        CompleteAuthorization
<1>4. ActiveAdmins(user) \subseteq ActiveAdmins(user')
  BY <1>2 DEF ActiveAdmins
<1> QED
  BY <1>2, <1>3, <1>4, MovesAdmins

LEMMA UserStepsKeepAccount ==
    ASSUME Base, AccountSafe, NEW q \in Requests, ManagesUsers(q)
    PROVE  AccountSafe'
<1>1. Idle.at = "idle"
  BY DEF Idle
<1>2. UNCHANGED <<account, started, used>>
  BY DEF ManagesUsers, BeginManagingUsers, CreateUser, UpdateUser
<1>3. \E s, passed : Goto(q, s, passed) /\ s.at \in {"idle", "managing_users"}
  <2>1. ASSUME NEW t \in Tokens, BeginManagingUsers(q, t)
        PROVE  \E s : Goto(q, s, {}) /\ s.at = "managing_users"
    BY <2>1 DEF BeginManagingUsers
  <2>2. ASSUME NEW u, NEW role, NEW status, CreateUser(q, u, role, status)
        PROVE  \E s : Goto(q, s, {}) /\ s.at = "idle"
    BY <1>1, <2>2 DEF CreateUser
  <2>3. ASSUME NEW u, NEW role, NEW status, UpdateUser(q, u, role, status)
        PROVE  \E s, passed : Goto(q, s, passed) /\ s.at = "idle"
    BY <1>1, <2>3 DEF UpdateUser
  <2> QED
    BY <2>1, <2>2, <2>3 DEF ManagesUsers
<1> QED
  BY <1>2, <1>3, AccountUntouched DEF AccountPhases

LEMMA InitInductive == Init => IInv
<1> SUFFICES ASSUME Init PROVE IInv
  OBVIOUS
<1>1. \A q \in Requests : request[q].at = "idle"
  BY DEF Init, Idle
<1>2. AdminsSeen /\ AccountSeen /\ StatesSeen
  BY <1>1 DEF AdminsSeen, AccountSeen, StatesSeen, AccountPhases
<1>3. LastKept
  BY StateAssumption DEF Init, LastKept, AbsentAccount, NoMetadata, AuthorizationStates
<1> QED
  BY <1>2, <1>3, InitBase DEF IInv, AccountSafe

LEMMA NextInductive == IInv /\ [Next]_vars => IInv'
<1> SUFFICES ASSUME IInv, [Next]_vars PROVE IInv'
  OBVIOUS
<1>1. Base /\ AdminsSeen /\ AccountSafe /\ Base'
  BY NextBase DEF IInv
<1>2. CASE UNCHANGED vars
  BY <1>1, <1>2
  DEF vars, IInv, AdminsSeen, ActiveAdmins, AccountSafe, AccountSeen, StatesSeen, LastKept, StateValid
<1>3. ASSUME NEW q \in Requests,
             SignsInOrOut(q) \/ Handles(q) \/ ManagesUsers(q) \/ ManagesAccount(q) \/ CallsBack(q)
      PROVE  AdminsSeen' /\ AccountSafe'
  BY <1>1, <1>3, OthersSafe, AccountStepsKeepAdmins, UserStepsKeepAccount, ManagesUsersSafe,
     ManagesAccountSafe, CallsBackSafe
<1> QED
  BY <1>1, <1>2, <1>3 DEF Next, IInv

LEMMA Inductive == Spec => []IInv
<1> QED
  BY InitInductive, NextInductive, PTL DEF Spec

(***************************************************************************)
(* Theorems, for any users, tokens and requests.                           *)
(***************************************************************************)

(* Every variable keeps its type.                                           *)
THEOREM TypeCorrect == Spec => []TypeOK
<1>1. Base => TypeOK
  BY DEF Base
<1> QED
  BY <1>1, BaseInductive, PTL

(* A request works on an area only for a role that may change it, whichever *)
(* of the routes it came by and whatever happened to its user since.        *)
THEOREM RolesAreRespected == Spec => []RolesRespected
<1>1. Base => RolesRespected
  BY DEF Base
<1> QED
  BY <1>1, BaseInductive, PTL

(* Who sees more than one active administrator sees another one.            *)
LEMMA AnotherAdmin ==
    ASSUME NEW rows, NEW u, Cardinality(ActiveAdmins(rows)) > 1
    PROVE  \E v \in Users \ {u} : v \in ActiveAdmins(rows)
<1> SUFFICES ASSUME ActiveAdmins(rows) \subseteq {u} PROVE FALSE
  BY DEF ActiveAdmins
<1>1. CASE ActiveAdmins(rows) = {}
  BY <1>1, FS_EmptySet
<1>2. CASE ActiveAdmins(rows) = {u}
  <2>1. Cardinality({u}) = 1
    BY FS_Singleton
  <2> QED
    BY <1>2, <2>1
<1> QED
  BY <1>1, <1>2

(* An update that is not overtaken leaves an administrator.                 *)
LEMMA UpdateLeavesAdmin ==
    ASSUME Base, AdminsSeen, NEW q \in Requests \ overtaken, NEW u \in Users,
           NEW role \in Roles, NEW status \in Statuses, UpdateUser(q, u, role, status)
    PROVE  ActiveAdmins(user') # {}
<1> DEFINE view == request[q].view
           result == [role |-> role, status |-> status]
<1>1. /\ TypeOK
      /\ ActiveAdmins(view) # {} /\ ActiveAdmins(view) \subseteq ActiveAdmins(user)
  BY DEF Base, AdminsSeen, UpdateUser
<1>2. \A v \in Users \ {u} : user'[v] = user[v]
  BY <1>1 DEF UpdateUser, TypeOK
<1>3. CASE \E v \in Users \ {u} : v \in ActiveAdmins(view)
  BY <1>1, <1>2, <1>3 DEF ActiveAdmins
<1>4. CASE ~\E v \in Users \ {u} : v \in ActiveAdmins(view)
  <2>1. u \in ActiveAdmins(view) /\ u \in ActiveAdmins(user)
    BY <1>1, <1>4 DEF ActiveAdmins
  <2>2. Cardinality(ActiveAdmins(view)) > 1 => FALSE
    BY <1>4, AnotherAdmin
  <2>3. ~RemovesActiveAdmin(view[u], role, status)
    BY <2>2 DEF UpdateUser
  <2>4. IsActiveAdmin(view[u]) /\ IsActiveAdmin(user[u]) /\ IsActiveAdmin(result)
    BY <2>1, <2>3 DEF ActiveAdmins, RemovesActiveAdmin
  <2>5. user'[u] = [role |-> Assigned(user[u].role, view[u].role, role),
                    status |-> Assigned(user[u].status, view[u].status, status)]
    BY <1>1 DEF UpdateUser, TypeOK
  <2>6. IsActiveAdmin(user'[u])
    BY <2>4, <2>5 DEF IsActiveAdmin, Assigned
  <2> QED
    BY <2>6 DEF ActiveAdmins
<1> QED
  BY <1>3, <1>4

(* The last active administrator goes only by an update that did not see    *)
(* another one go.                                                          *)
THEOREM LastAdminIsGuarded == Spec => LastAdminGoesUnseen
<1> DEFINE Unseen ==
        AnAdminRemains /\ ~AnAdminRemains'
            => \E q \in overtaken : request[q].at = "managing_users" /\ request'[q] = Idle
<1>1. IInv /\ [Next]_vars => [Unseen]_vars
  <2> SUFFICES ASSUME IInv, AnAdminRemains, ~AnAdminRemains', NEW q \in Requests,
                      SignsInOrOut(q) \/ Handles(q) \/ ManagesUsers(q) \/ ManagesAccount(q) \/ CallsBack(q)
               PROVE  \E r \in overtaken : request[r].at = "managing_users" /\ request'[r] = Idle
    BY DEF Next, vars
  <2>1. Base /\ AdminsSeen /\ TypeOK
    BY DEF IInv, Base
  <2>2. user' # user
    BY DEF AnAdminRemains
  <2>3. \E u \in Users, role \in Roles, status \in Statuses :
            CreateUser(q, u, role, status) \/ UpdateUser(q, u, role, status)
    BY <2>2
    DEF SignsInOrOut, Handles, ManagesUsers, ManagesAccount, CallsBack, BeginLogin, EndLogin,
        BeginLogout, Logout, BeginHandling, Leave, BeginManagingUsers, BeginManagingAccount,
        CreateAccount, StartAuthorization, RevokeAuthorization, BeginCallback, CompleteAuthorization
  <2>4. PICK u \in Users, role \in Roles, status \in Statuses :
            CreateUser(q, u, role, status) \/ UpdateUser(q, u, role, status)
    BY <2>3
  <2>5. CASE CreateUser(q, u, role, status)
    <3>1. PICK v \in Users : IsActiveAdmin(user[v])
      BY DEF AnAdminRemains
    <3>2. v # u
      BY <2>5, <3>1 DEF CreateUser, AbsentUser, IsActiveAdmin
    <3>3. user'[v] = user[v]
      BY <2>1, <2>5, <3>2 DEF CreateUser, TypeOK
    <3> QED
      BY <3>1, <3>3 DEF AnAdminRemains
  <2>6. CASE UpdateUser(q, u, role, status)
    <3>1. q \in overtaken
      BY <2>1, <2>6, UpdateLeavesAdmin DEF AnAdminRemains, ActiveAdmins
    <3>2. request[q].at = "managing_users" /\ request'[q] = Idle
      BY <2>1, <2>6 DEF UpdateUser, Goto, TypeOK
    <3> QED
      BY <3>1, <3>2
  <2> QED
    BY <2>4, <2>5, <2>6
<1>2. Spec => [][Unseen]_vars
  BY <1>1, Inductive, PTL DEF Spec
<1> QED
  BY <1>2 DEF LastAdminGoesUnseen

(* A callback that nobody overtook is for the state handed out last, which  *)
(* no callback used, of an account that is still pending.                   *)
THEOREM StatesNeedOverlap == Spec => StatesReplayedByOverlap
<1> DEFINE Once ==
        \A q \in Requests \ overtaken :
            request[q].at = "called_back" /\ request'[q] = Idle /\ account' # account
                => /\ account.auth_status = "pending"
                   /\ request[q].state = started
                   /\ started \notin used
<1>1. IInv => Once
  <2> SUFFICES ASSUME IInv, NEW q \in Requests \ overtaken, request[q].at = "called_back"
               PROVE  /\ account.auth_status = "pending"
                      /\ request[q].state = started
                      /\ started \notin used
    OBVIOUS
  <2>1. request[q].view = account /\ request[q].state \in AuthorizationStates
    BY RequestShape DEF IInv, Base, TypeOK, AccountSafe, AccountSeen, AccountPhases
  <2>2. account.auth_status = "pending" /\ account.auth_meta = request[q].state
    BY <2>1 DEF IInv, AccountSafe, StatesSeen, StateValid
  <2> QED
    BY <2>1, <2>2 DEF IInv, AccountSafe, LastKept
<1>2. Spec => [][Once]_vars
  BY <1>1, Inductive, PTL
<1> QED
  BY <1>2 DEF StatesReplayedByOverlap
===============================================================================
