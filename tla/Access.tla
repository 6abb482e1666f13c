-------------------------------- MODULE Access --------------------------------
(***************************************************************************)
(* Who may do what: users and their roles, sign-in and tokens, the         *)
(* permissions each route asks for, and the authorization of a platform    *)
(* account, api/dependencies/auth.py, api/routes/*.py, services/users.py,  *)
(* services/auth.py and services/platform_accounts.py.                     *)
(*                                                                         *)
(* The first query of a request looks the token up and fixes the view in   *)
(* which the whole request reads: its user, the other users, the account.  *)
(* What it writes are the attributes whose value differs from the one in   *)
(* the view, and they are written to the latest row.                       *)
(*                                                                         *)
(* A request is known by the permission its route asks for and the area    *)
(* it changes.  What requests do to the areas of business data is the      *)
(* subject of the other modules.  Passwords, names and the expiry of       *)
(* tokens are left out: without a valid token or password a request is     *)
(* refused before it reads anything.                                       *)
(*                                                                         *)
(* overtaken is not in the code: a history variable that properties look   *)
(* at and no guard does.                                                   *)
(*                                                                         *)
(* An operator whose name extends that of the next one is a slip of the    *)
(* code that the properties below must notice; no action uses it.          *)
(***************************************************************************)
EXTENDS Naturals, FiniteSets

CONSTANTS
    Users,          \* user names
    Tokens,         \* tokens that may be issued
    Requests,       \* requests that may be under way at once
    MaxStates,      \* bound on authorizations that are started
    NoToken

ASSUME StateAssumption == MaxStates \in Nat \ {0}

VARIABLES
    user,           \* users rows
    token,          \* the claims of each token that was issued
    revoked,        \* tokens in auth_token_revocations
    account,        \* the platform account of a store
    started,        \* how many authorization states were handed out
    used,           \* authorization states a callback was accepted for
    request,        \* what each request is doing
    overtaken       \* history: requests since whose view another one took the role or
                    \* status of an active administrator, or changed the account

vars == <<user, token, revoked, account, started, used, request, overtaken>>

(***************************************************************************)
(* Roles and permissions.                                                  *)
(***************************************************************************)

Roles == {"admin", "operator", "viewer"}

Permissions == {"user.manage", "store.manage", "product.write", "inventory.write",
                "competitor.write", "ai.generate", "job.operate", "asset.review",
                "ad.confirm", "experiment.write", "performance.write", "settings.manage"}

RolePermissions ==
    [admin |-> Permissions,
     operator |-> Permissions \ {"user.manage", "settings.manage"},
     viewer |-> {}]

(***************************************************************************)
(* Routes: handlers, the permissions they ask for, the area they change.   *)
(***************************************************************************)

Areas == {"business_data", "jobs", "advertising", "experiments", "stores", "account",
          "users", "settings", "own_token", "file_status", "nothing"}

Routes(handlers, requires, changes) ==
    [handler: handlers, requires: {requires}, changes: {changes}]

Reads(handlers) == Routes(handlers, {}, "nothing")

Writes(handlers, permission, area) == Routes(handlers, {permission}, area)

AssetRoutes ==
    Reads({"get_assets", "get_asset_detail"})
    \cup Routes({"get_asset_content"}, {}, "file_status")
    \cup Writes({"post_asset_sync", "patch_asset", "post_asset_review",
                 "post_asset_file_check"}, "asset.review", "business_data")

(* Login asks for no token and is an action of its own.                     *)
AuthRoutes == Reads({"me"}) \cup Routes({"logout"}, {}, "own_token")

CompetitorRoutes ==
    Reads({"get_competitors", "get_competitor"})
    \cup Writes({"post_competitor", "patch_competitor", "delete_competitor"},
                "competitor.write", "business_data")

ParseTaskRoutes ==
    Reads({"get_parse_tasks", "get_parse_task"})
    \cup Writes({"post_parse_task", "post_parse_task_run", "post_parse_task_apply"},
                "competitor.write", "business_data")

MonitorRoutes ==
    Reads({"get_competitor_monitor", "get_competitor_monitor_snapshots"})
    \cup Writes({"post_competitor_monitor", "patch_competitor_monitor",
                 "post_competitor_monitor_run", "post_snapshot_apply"},
                "competitor.write", "business_data")
    \cup Writes({"post_run_due_monitors"}, "job.operate", "business_data")

CreativePlanRoutes ==
    Reads({"get_creative_plans", "get_creative_plan_detail", "get_creative_plan_revisions"})
    \cup Writes({"post_creative_plan_generation"}, "ai.generate", "business_data")
    \cup Writes({"patch_creative_plan", "post_creative_plan_status"},
                "product.write", "business_data")

DashboardRoutes == Reads({"get_dashboard"})

DemoDataRoutes == Writes({"post_demo_data_initialize"}, "settings.manage", "business_data")

DiagnosisRoutes ==
    Reads({"get_diagnoses", "get_diagnosis_detail"})
    \cup Writes({"post_diagnosis_generate"}, "ai.generate", "business_data")
    \cup Writes({"patch_diagnosis"}, "product.write", "business_data")

GenerationJobRoutes ==
    Reads({"get_generation_jobs", "get_generation_job_detail",
           "get_generation_job_event_timeline"})
    \cup Writes({"post_generation_job"}, "ai.generate", "jobs")
    \cup Writes({"post_generation_job_cancel", "post_generation_job_retry"},
                "job.operate", "jobs")

ImportRoutes ==
    Routes({"get_import_template", "get_import_batches", "get_import_batch",
            "get_import_errors"}, {"product.write"}, "nothing")
    \cup Writes({"post_import_upload", "post_import_confirm"}, "product.write", "business_data")

InventoryRoutes ==
    Reads({"get_inventory_list", "get_low_stock_inventory", "get_sku_inventory",
           "get_inventory_movements"})
    \cup Writes({"patch_sku_inventory", "post_inventory_adjustment"},
                "inventory.write", "business_data")

InventoryAdviceRoutes ==
    Reads({"get_latest_advice", "get_advice_runs", "get_advice_run"})
    \cup Writes({"post_inventory_advice"}, "inventory.write", "business_data")

(* The redirect of a promotion link is public and not a route here.         *)
PromotionLinkRoutes ==
    Reads({"get_promotion_links", "get_promotion_link", "get_promotion_link_statistics"})
    \cup Routes({"post_promotion_link_suggestions"}, {"product.write"}, "nothing")
    \cup Writes({"post_promotion_link", "patch_promotion_link"}, "product.write", "business_data")

RecommendationRoutes ==
    Reads({"get_ad_recommendations", "get_ad_recommendation"})
    \cup Writes({"post_ad_recommendation_generate"}, "ai.generate", "advertising")
    \cup Writes({"patch_ad_recommendation", "patch_ad_recommendation_confirmation"},
                "ad.confirm", "advertising")

ExperimentRoutes ==
    Reads({"get_ad_experiments", "get_ad_experiment"})
    \cup Writes({"post_ad_experiment_generate", "patch_ad_experiment"},
                "experiment.write", "experiments")

PerformanceRoutes ==
    Reads({"get_performance_records", "get_performance_summary", "get_performance_record"})
    \cup Writes({"post_performance_record", "patch_performance_record",
                 "delete_performance_record"}, "performance.write", "business_data")

ReviewReportRoutes ==
    Reads({"get_review_reports", "get_review_report", "get_review_report_revisions"})
    \cup Writes({"post_review_report_generate"}, "ai.generate", "business_data")
    \cup Writes({"patch_review_report"}, "performance.write", "business_data")

(* The callback of a platform asks for no token and is an action of its own. *)
PlatformAccountRoutes ==
    Reads({"get_store_platform_accounts", "get_account"})
    \cup Writes({"post_store_platform_account", "patch_account", "post_authorization_start",
                 "post_authorization_revoke"}, "store.manage", "account")

ProductRoutes ==
    Reads({"get_products", "get_product"})
    \cup Writes({"post_product", "patch_product", "patch_product_status", "delete_product"},
                "product.write", "business_data")

ProductMappingRoutes ==
    Reads({"get_product_mappings"})
    \cup Writes({"post_product_mapping", "patch_product_mapping", "delete_mapping"},
                "product.write", "business_data")

SettingsRoutes ==
    Routes({"get_system_settings"}, {"settings.manage"}, "nothing")
    \cup Writes({"patch_system_settings"}, "settings.manage", "settings")

SkuRoutes ==
    Reads({"get_skus", "get_sku"})
    \cup Writes({"post_sku", "patch_sku", "patch_sku_status"}, "inventory.write", "business_data")

StoreRoutes ==
    Reads({"get_stores", "get_store_aggregate", "get_store"})
    \cup Writes({"post_store", "patch_store"}, "store.manage", "stores")

UserRoutes ==
    Routes({"get_users"}, {"user.manage"}, "nothing")
    \cup Writes({"post_user", "patch_user"}, "user.manage", "users")

AllRoutes ==
    UNION {AssetRoutes, AuthRoutes, CompetitorRoutes, ParseTaskRoutes, MonitorRoutes,
           CreativePlanRoutes, DashboardRoutes, DemoDataRoutes, DiagnosisRoutes,
           GenerationJobRoutes, ImportRoutes, InventoryRoutes, InventoryAdviceRoutes,
           PromotionLinkRoutes, RecommendationRoutes, ExperimentRoutes, PerformanceRoutes,
           ReviewReportRoutes, PlatformAccountRoutes, ProductRoutes, ProductMappingRoutes,
           SettingsRoutes, SkuRoutes, StoreRoutes, UserRoutes}

(***************************************************************************)
(* Rows and requests.                                                      *)
(***************************************************************************)

Statuses == {"active", "inactive"}

UserRows == [role: Roles, status: Statuses] \cup {[role |-> "absent", status |-> "inactive"]}

AbsentUser == [role |-> "absent", status |-> "inactive"]

(* The token names the user, and the role the user had when it was issued.  *)
Claims == [user: Users, role: Roles]

AuthorizationStates == 1..MaxStates

(* auth_meta: null, the state whose hash is kept, or what a callback left,  *)
(* which has no hash.                                                       *)
NoMetadata == 0

WithoutState == MaxStates + 1

AccountRows ==
    [auth_status: {"absent", "unconfigured", "pending", "authorized", "failed", "expired",
                   "revoked"},
     auth_meta: {NoMetadata, WithoutState} \cup AuthorizationStates]

AbsentAccount == [auth_status |-> "absent", auth_meta |-> NoMetadata]

Idle == [at |-> "idle"]

(* role is the role of the request's user when it began, whatever the       *)
(* request itself looked at.                                                *)
RequestStates ==
    {Idle}
    \cup [at: {"signing_in"}, user: Users, role: Roles]
    \cup [at: {"handling"}, role: Roles, changes: Areas \ {"users", "account", "own_token"}]
    \cup [at: {"signing_out"}, token: Tokens]
    \cup [at: {"managing_users"}, role: Roles, view: [Users -> UserRows]]
    \cup [at: {"managing_account"}, role: Roles, view: AccountRows]
    \cup [at: {"called_back"}, state: AuthorizationStates, view: AccountRows]

(* scripts/create_admin.py has made one user an administrator.              *)
Init ==
    /\ user \in {[u \in Users |-> IF u = first THEN [role |-> "admin", status |-> "active"]
                                               ELSE AbsentUser] : first \in Users}
    /\ token = [t \in Tokens |-> NoToken]
    /\ revoked = {}
    /\ account = AbsentAccount
    /\ started = 0
    /\ used = {}
    /\ request = [q \in Requests |-> Idle]
    /\ overtaken = {}

(* passed: the requests whose view the step of q makes old.                 *)
Goto(q, state, passed) ==
    /\ request' = [request EXCEPT ![q] = state]
    /\ overtaken' = (overtaken \cup passed) \ {q}

Passed(changed, phases) == {r \in Requests : changed /\ request[r].at \in phases}

(* An attribute is written if its value differs from the one in the view.   *)
Assigned(latest, seen, value) == IF value = seen THEN latest ELSE value

(***************************************************************************)
(* Signing in and out.                                                     *)
(***************************************************************************)

Active(u) == user[u].status = "active"

(* The password is compared under the view that shows the user active; the  *)
(* row may change before the token is issued.                               *)
BeginLogin(q, u) ==
    /\ request[q] = Idle
    /\ Active(u)
    /\ Goto(q, [at |-> "signing_in", user |-> u, role |-> user[u].role], {})
    /\ UNCHANGED <<user, token, revoked, account, started, used>>

EndLogin(q, t) ==
    /\ request[q].at = "signing_in"
    /\ token[t] = NoToken
    /\ token' = [token EXCEPT ![t] = [user |-> request[q].user, role |-> request[q].role]]
    /\ Goto(q, Idle, {})
    /\ UNCHANGED <<user, revoked, account, started, used>>

Logout(q) ==
    /\ request[q].at = "signing_out"
    /\ revoked' = revoked \cup {request[q].token}
    /\ Goto(q, Idle, {})
    /\ UNCHANGED <<user, token, account, started, used>>

(***************************************************************************)
(* Admission of a request with a token.                                    *)
(***************************************************************************)

Authenticated(t) ==
    /\ token[t] # NoToken
    /\ t \notin revoked
    /\ Active(token[t].user)

RoleOfClaim(t) == token[t].role

RoleOf(t) == user[token[t].user].role

Granted(t, route) == route.requires \subseteq RolePermissions[RoleOf(t)]

(* What tells requests apart: many handlers ask for and change the same.    *)
RouteKinds == {[requires |-> r.requires, changes |-> r.changes] : r \in AllRoutes}

Admitted(t, area) ==
    /\ Authenticated(t)
    /\ \E kind \in RouteKinds : kind.changes = area /\ Granted(t, kind)

Began(t) == user[token[t].user].role

BeginHandling(q, t, area) ==
    /\ request[q] = Idle
    /\ Admitted(t, area)
    /\ Goto(q, [at |-> "handling", role |-> Began(t), changes |-> area], {})
    /\ UNCHANGED <<user, token, revoked, account, started, used>>

BeginLogout(q, t) ==
    /\ request[q] = Idle
    /\ Admitted(t, "own_token")
    /\ Goto(q, [at |-> "signing_out", token |-> t], {})
    /\ UNCHANGED <<user, token, revoked, account, started, used>>

BeginManagingUsers(q, t) ==
    /\ request[q] = Idle
    /\ Admitted(t, "users")
    /\ Goto(q, [at |-> "managing_users", role |-> Began(t), view |-> user], {})
    /\ UNCHANGED <<user, token, revoked, account, started, used>>

BeginManagingAccount(q, t) ==
    /\ request[q] = Idle
    /\ Admitted(t, "account")
    /\ Goto(q, [at |-> "managing_account", role |-> Began(t), view |-> account], {})
    /\ UNCHANGED <<user, token, revoked, account, started, used>>

(* A request ends, refused or done, without a change to what is modelled.   *)
Leave(q) ==
    /\ request[q] # Idle
    /\ Goto(q, Idle, {})
    /\ UNCHANGED <<user, token, revoked, account, started, used>>

(***************************************************************************)
(* Users.                                                                  *)
(***************************************************************************)

(* The name is unique among the latest rows.                                *)
CreateUser(q, u, role, status) ==
    /\ request[q].at = "managing_users"
    /\ user[u] = AbsentUser
    /\ user' = [user EXCEPT ![u] = [role |-> role, status |-> status]]
    /\ Goto(q, Idle, {})
    /\ UNCHANGED <<token, revoked, account, started, used>>

IsActiveAdmin(row) == row.role = "admin" /\ row.status = "active"

ActiveAdminsAnyStatus(rows) == {u \in Users : rows[u].role = "admin"}

ActiveAdmins(rows) == {u \in Users : IsActiveAdmin(rows[u])}

RemovesActiveAdmin(row, role, status) ==
    /\ IsActiveAdmin(row)
    /\ ~IsActiveAdmin([role |-> role, status |-> status])

UpdateUser(q, u, role, status) ==
    LET view == request[q].view
    IN  /\ request[q].at = "managing_users"
        /\ view[u] # AbsentUser
        /\ RemovesActiveAdmin(view[u], role, status) => Cardinality(ActiveAdmins(view)) > 1
        /\ user' = [user EXCEPT ![u] =
               [role |-> Assigned(@.role, view[u].role, role),
                status |-> Assigned(@.status, view[u].status, status)]]
        /\ Goto(q, Idle, Passed(~(ActiveAdmins(user) \subseteq ActiveAdmins(user')),
                               {"managing_users"}))
        /\ UNCHANGED <<token, revoked, account, started, used>>

(***************************************************************************)
(* The platform account.                                                   *)
(***************************************************************************)

AccountPhases == {"managing_account", "called_back"}

EndAccountRequest(q) == Goto(q, Idle, Passed(account' # account, AccountPhases))

CreateAccount(q) ==
    /\ request[q].at = "managing_account"
    /\ account = AbsentAccount
    /\ account' = [auth_status |-> "unconfigured", auth_meta |-> NoMetadata]
    /\ EndAccountRequest(q)
    /\ UNCHANGED <<user, token, revoked, started, used>>

(* The attributes of a row that was read as seen.                           *)
WriteAccount(seen, status, meta) ==
    account' = [auth_status |-> Assigned(account.auth_status, seen.auth_status, status),
                auth_meta |-> Assigned(account.auth_meta, seen.auth_meta, meta)]

StartAuthorization(q) ==
    /\ request[q].at = "managing_account"
    /\ request[q].view # AbsentAccount
    /\ started < MaxStates
    /\ started' = started + 1
    /\ WriteAccount(request[q].view, "pending", started')
    /\ EndAccountRequest(q)
    /\ UNCHANGED <<user, token, revoked, used>>

RevokeAuthorization(q) ==
    /\ request[q].at = "managing_account"
    /\ request[q].view # AbsentAccount
    /\ WriteAccount(request[q].view, "revoked", NoMetadata)
    /\ EndAccountRequest(q)
    /\ UNCHANGED <<user, token, revoked, started, used>>

(* The state a platform sends back is one that was handed out.              *)
StateValidPending(row, state) == row.auth_status = "pending"

StateValid(row, state) ==
    /\ row.auth_status = "pending"
    /\ row.auth_meta = state

BeginCallback(q, state) ==
    /\ request[q] = Idle
    /\ state <= started
    /\ StateValid(account, state)
    /\ Goto(q, [at |-> "called_back", state |-> state, view |-> account], {})
    /\ UNCHANGED <<user, token, revoked, account, started, used>>

CompleteAuthorization(q, result) ==
    /\ request[q].at = "called_back"
    /\ WriteAccount(request[q].view, result, WithoutState)
    /\ used' = used \cup {request[q].state}
    /\ EndAccountRequest(q)
    /\ UNCHANGED <<user, token, revoked, started>>

-----------------------------------------------------------------------------

SignsInOrOut(q) ==
    \/ \E u \in Users : BeginLogin(q, u)
    \/ \E t \in Tokens : EndLogin(q, t) \/ BeginLogout(q, t)
    \/ Logout(q)

Handles(q) ==
    \/ \E t \in Tokens, area \in Areas \ {"users", "account", "own_token"} :
           BeginHandling(q, t, area)
    \/ Leave(q)

ManagesUsers(q) ==
    \/ \E t \in Tokens : BeginManagingUsers(q, t)
    \/ \E u \in Users, role \in Roles, status \in Statuses :
           CreateUser(q, u, role, status) \/ UpdateUser(q, u, role, status)

ManagesAccount(q) ==
    \/ \E t \in Tokens : BeginManagingAccount(q, t)
    \/ CreateAccount(q)
    \/ StartAuthorization(q)
    \/ RevokeAuthorization(q)

CallsBack(q) ==
    \/ \E state \in AuthorizationStates : BeginCallback(q, state)
    \/ \E result \in {"authorized", "failed", "expired"} : CompleteAuthorization(q, result)

Next == \E q \in Requests :
    SignsInOrOut(q) \/ Handles(q) \/ ManagesUsers(q) \/ ManagesAccount(q) \/ CallsBack(q)

Spec == Init /\ [][Next]_vars

-----------------------------------------------------------------------------

(* Every variable holds what the tables and requests of the program can hold. *)
TypeOK ==
    /\ user \in [Users -> UserRows]
    /\ token \in [Tokens -> Claims \cup {NoToken}]
    /\ revoked \subseteq Tokens
    /\ account \in AccountRows
    /\ started \in 0..MaxStates
    /\ used \subseteq AuthorizationStates
    /\ request \in [Requests -> RequestStates]
    /\ overtaken \subseteq Requests

(* The last administrator is protected (update_user, "LAST_ADMIN_REQUIRED"): *)
(* some active administrator is left whoever is demoted or deactivated.      *)
AnAdminRemains == \E u \in Users : IsActiveAdmin(user[u])

(* The last active administrator is demoted or deactivated only by an       *)
(* update that counted one it did not see go: since its view another update *)
(* has taken the role or status of an administrator (update_user).          *)
LastAdminGoesUnseen ==
    [][AnAdminRemains /\ ~AnAdminRemains'
           => \E q \in overtaken : request[q].at = "managing_users" /\ request'[q] = Idle]_vars

(* The matrix of roles the requirements give, 1.3: operators do all but     *)
(* manage users and change settings, viewers change nothing but what        *)
(* reading a file notes of it.                                              *)
MayChange ==
    [admin |-> Areas,
     operator |-> Areas \ {"users", "settings"},
     viewer |-> {"nothing", "file_status", "own_token"}]

Changing(state) ==
    CASE state.at = "handling" -> state.changes
      [] state.at = "managing_users" -> "users"
      [] state.at = "managing_account" -> "account"

(* A request is at work on an area only for a user whose role allowed it    *)
(* when the request began, whatever role he had when he signed in           *)
(* (get_auth_context, require_permissions and the routes).                  *)
RolesRespected ==
    \A q \in Requests :
        request[q].at \in {"handling", "managing_users", "managing_account"}
            => Changing(request[q]) \in MayChange[request[q].role]

(* The state a callback answers is good for one callback and only until a   *)
(* revocation or the next state (complete_authorization, "invalid or        *)
(* already used").                                                          *)
StatesUsedOnce ==
    [][account' # account /\ account'.auth_status \in {"authorized", "failed", "expired"}
           => /\ account.auth_status = "pending"
              /\ started \notin used
              /\ used' = used \cup {started}]_vars

(* A callback that no other request for the account overtook changes a      *)
(* pending account, for the state that was handed out last and that no      *)
(* callback used, however starts, callbacks and revocations have written    *)
(* over each other before (complete_authorization).                         *)
StatesReplayedByOverlap ==
    [][\A q \in Requests \ overtaken :
           request[q].at = "called_back" /\ request'[q] = Idle /\ account' # account
               => /\ account.auth_status = "pending"
                  /\ request[q].state = started
                  /\ started \notin used]_vars

=============================================================================
