------------------------------- MODULE Authority -------------------------------
(***************************************************************************)
(* Who may do what at the administrative entrances: roles and their scopes, *)
(* the routes and the scope each use case requires, the tenant an actor's   *)
(* repositories are built with, the guards on accounts, keys and tenants,   *)
(* and the audit trail, written in a transaction of its own between a       *)
(* change and its commit.  A request acts as the account it arrived with,   *)
(* whatever happens to that account meanwhile.  What people's rows say, and *)
(* the settings an edit changes, are left out; so are sessions and          *)
(* credentials (Accounts).                                                  *)
(***************************************************************************)
EXTENDS Integers, FiniteSets

CONSTANTS
  None,
  Tenants,     \* every tenant there may be
  Tenants0,    \* those there are at the start
  People,      \* the ids of accounts
  Accounts0,   \* the accounts at the start, or None
  Rows0,       \* the rows at the start
  Requests,    \* requests under way together
  Exercised,   \* the routes called
  MaxArrivals  \* bound: requests in a behaviour

BASE_SCOPES == {"chat:use", "api_key:read_own", "api_key:write_own", "usage:read_own",
                "refusal:read_own", "prompt:read"}
SERVICE_SCOPES == {"chat:use", "usage:read_own"}
TENANT_ADMIN_SCOPES == BASE_SCOPES \cup
  {"user:read", "user:write", "api_key:write_any", "usage:read_all", "refusal:read_all",
   "logs:read", "knowledge:read", "knowledge:write", "prompt:write", "tenant:read",
   "model:read", "routing:read", "node:read"}
OPERATOR_SCOPES == BASE_SCOPES \cup
  {"model:read", "model:write", "node:read", "node:write", "routing:read", "routing:write",
   "logs:read", "usage:read_all", "refusal:read_all", "knowledge:read", "user:read",
   "tenant:read"}
CURATOR_SCOPES == BASE_SCOPES \cup {"knowledge:read", "knowledge:write", "prompt:write"}
AUDITOR_SCOPES ==
  {"chat:use", "api_key:read_own", "usage:read_own", "usage:read_all", "refusal:read_own",
   "refusal:read_all", "logs:read", "model:read", "routing:read", "node:read", "user:read",
   "tenant:read", "knowledge:read", "prompt:read"}
ADMIN_ONLY_SCOPES == {"tenant:write", "retention:write", "prompt_log:read", "maintenance:read",
                      "maintenance:write"}
ADMIN_SCOPES == TENANT_ADMIN_SCOPES \cup OPERATOR_SCOPES \cup ADMIN_ONLY_SCOPES

ROLE_SCOPES == [admin |-> ADMIN_SCOPES, tenant_admin |-> TENANT_ADMIN_SCOPES,
                operator |-> OPERATOR_SCOPES, curator |-> CURATOR_SCOPES,
                auditor |-> AUDITOR_SCOPES, user |-> BASE_SCOPES, service |-> SERVICE_SCOPES]
Roles == DOMAIN ROLE_SCOPES
ASSIGNABLE_ROLES == Roles \ {"service"}

\* What a route does, to which kind of row, and the scope it takes; `wide` is the scope that
\* reaches other people's rows as well.
Reached(name, does, of, needs, wide) ==
    [name |-> name, does |-> does, of |-> of, needs |-> needs, wide |-> wide]
Route(name, does, of, needs) == Reached(name, does, of, needs, None)

\* The scope each method of a use case requires.
ManageUsers ==
  [list_all |-> "user:read", update |-> "user:write", set_debug_window |-> "user:write",
   delete |-> "user:write"]
IssueInvitation ==
  [create_account |-> "user:write", reissue_onboarding |-> "user:write",
   issue_password_reset |-> "user:write"]
ManageTenants == [list_all |-> "tenant:read", create |-> "tenant:write"]
ReadAuditLog == [execute |-> "logs:read"]
ReadPromptLogs == [list_page |-> "prompt_log:read", read_transcript |-> "prompt_log:read"]
ReadRefusals == [list_page |-> "refusal:read_own", any |-> "refusal:read_all"]
ReadUsageRecords == [list_page |-> "usage:read_own", any |-> "usage:read_all"]
ReadUsageAnalytics == [execute |-> "usage:read_all", execute_own |-> "usage:read_own"]
ReadDashboard == [execute |-> "usage:read_all"]
ReadHostStatus == [execute |-> "node:read"]
ManageRetention ==
  [list_policies |-> "retention:write", set_policy |-> "retention:write",
   preview |-> "retention:write", purge |-> "retention:write"]
ManagePromptTemplates ==
  [list_all |-> "prompt:read", get |-> "prompt:read", create |-> "prompt:write",
   update |-> "prompt:write", delete |-> "prompt:write"]
ManageEvaluations ==
  [list_runs |-> "model:read", latest |-> "model:read", report |-> "model:read",
   import_run |-> "model:write", delete_run |-> "model:write"]
ManageNodes ==
  [list_all |-> "node:read", get |-> "node:read", register |-> "node:write",
   update |-> "node:write", delete |-> "node:write", check_health |-> "node:read"]
ModelRegistry ==
  [list_all |-> "model:read", get |-> "model:read", declared_context_length |-> "model:write",
   register |-> "model:write", update |-> "model:write", delete |-> "model:write"]
ModelLifecycle ==
  [load |-> "model:write", unload |-> "model:write", set_desired_residency |-> "model:write",
   repin |-> "model:write"]
DownloadModel == [start |-> "model:write", status |-> "model:read"]
ManageRoutingPolicies ==
  [list_all |-> "routing:read", get |-> "routing:read", save |-> "routing:write",
   delete |-> "routing:write"]
ManageMaintenance ==
  [status |-> "maintenance:read", enter |-> "maintenance:write", restore |-> "maintenance:write",
   retry |-> "maintenance:write", reopen |-> "maintenance:write",
   set_message |-> "maintenance:write"]
ResetNodeRuntime == [list |-> "maintenance:read", reset |-> "maintenance:write"]
CollectionManagement ==
  [list_collections |-> "knowledge:read", create_collection |-> "knowledge:write",
   delete_collection |-> "knowledge:write", assert_may_read |-> "knowledge:read"]
DocumentManagement ==
  [list_documents |-> "knowledge:read", get_document |-> "knowledge:read",
   read_document_text |-> "knowledge:read", upload_document |-> "knowledge:write",
   document_to_reindex |-> "knowledge:write", delete_document |-> "knowledge:write"]
SearchKnowledge == [execute |-> "knowledge:read"]
ListCapabilities == [execute |-> "chat:use"]
AssistOperator == [required_scope |-> "chat:use"]

UserRoutes ==
  {Route("list_users", "list", "user", ManageUsers.list_all),
   Route("create_user", "invite", "user", IssueInvitation.create_account),
   Route("reissue_invitation", "touch", "user", IssueInvitation.reissue_onboarding),
   Route("issue_password_reset", "touch", "user", IssueInvitation.issue_password_reset),
   Route("update_user", "edit", "user", ManageUsers.update),
   Route("set_debug_window", "touch", "user", ManageUsers.set_debug_window),
   Route("delete_user", "delete", "user", ManageUsers.delete)}
TenantRoutes ==
  {Route("list_tenants", "list", "tenant", ManageTenants.list_all),
   Route("create_tenant", "found", "tenant", ManageTenants.create)}
KeyRoutes ==
  {Reached("list_api_keys", "held", "key", "api_key:read_own", "api_key:write_any"),
   Reached("create_api_key", "issue", "key", "api_key:write_own", "api_key:write_any"),
   Reached("update_api_key", "rekey", "key", "api_key:write_own", "api_key:write_any"),
   Reached("set_key_debug_window", "rekey", "key", "api_key:write_own", "api_key:write_any"),
   Reached("revoke_api_key", "rekey", "key", "api_key:write_own", "api_key:write_any")}
ToolRoutes ==
  {Route("download_windows_codex_app_tools", "list", "archive", "api_key:write_own")}
MeRoutes == {Route("read_me", "own", "user", None)}
RoleRoutes == {Route("list_roles", "list", "role", None)}
LogRoutes == {Route("read_logs", "list", "audit", ReadAuditLog.execute)}
PromptLogRoutes ==
  {Route("list_prompt_logs", "list", "summary", ReadPromptLogs.list_page),
   Route("read_prompt_log", "open", "transcript", ReadPromptLogs.read_transcript)}
RefusalRoutes ==
  {Reached("list_refusals", "any", "refusal", ReadRefusals.list_page, ReadRefusals.any)}
UsageRoutes ==
  {Route("read_usage", "list", "usage", ReadUsageAnalytics.execute),
   Reached("list_usage_records", "any", "usage", ReadUsageRecords.list_page,
           ReadUsageRecords.any),
   Route("read_own_usage", "own", "usage", ReadUsageAnalytics.execute_own)}
DashboardRoutes == {Route("read_dashboard", "list", "usage", ReadDashboard.execute)}
RetentionRoutes ==
  {Route("list_retention_policies", "list", "policy", ManageRetention.list_policies),
   Route("preview_purge", "list", "policy", ManageRetention.preview),
   Route("set_retention_policy", "change", "policy", ManageRetention.set_policy),
   Route("purge_dataset", "purge", "usage", ManageRetention.purge)}
PromptTemplateRoutes ==
  {Route("list_templates", "list", "template", ManagePromptTemplates.list_all),
   Route("read_template", "get", "template", ManagePromptTemplates.get),
   Route("create_template", "add", "template", ManagePromptTemplates.create),
   Route("update_template", "change", "template", ManagePromptTemplates.update),
   Route("delete_template", "remove", "template", ManagePromptTemplates.delete)}
EvaluationRoutes ==
  {Route("list_evaluation_runs", "list", "evaluation", ManageEvaluations.list_runs),
   Route("latest_evaluation", "get", "evaluation", ManageEvaluations.latest),
   Route("get_evaluation", "get", "evaluation", ManageEvaluations.report),
   Route("import_evaluation", "add", "evaluation", ManageEvaluations.import_run),
   Route("delete_evaluation", "remove", "evaluation", ManageEvaluations.delete_run)}
HostRoutes == {Route("read_host_status", "list", "host", ReadHostStatus.execute)}
GatewayInfoRoutes == {Route("read_gateway_info", "list", "address", ListCapabilities.execute)}
NodeRoutes ==
  {Route("list_nodes", "list", "node", ManageNodes.list_all),
   Route("read_node", "get", "node", ManageNodes.get),
   Route("create_node", "add", "node", ManageNodes.register),
   Route("update_node", "change", "node", ManageNodes.update),
   Route("delete_node", "remove", "node", ManageNodes.delete),
   Route("check_node", "probe", "node", ManageNodes.check_health)}
ModelRoutes ==
  {Route("list_models", "list", "model", ModelRegistry.list_all),
   Route("read_model_reference", "probe", "model", ModelRegistry.declared_context_length),
   Route("read_model", "get", "model", ModelRegistry.get),
   Route("create_model", "add", "model", ModelRegistry.register),
   Route("update_model", "change", "model", ModelRegistry.update),
   Route("delete_model", "remove", "model", ModelRegistry.delete),
   Route("load_model", "change", "model", ModelLifecycle.load),
   Route("unload_model", "change", "model", ModelLifecycle.unload),
   Route("set_residency_intent", "change", "model", ModelLifecycle.set_desired_residency),
   Route("repin_model", "change", "model", ModelLifecycle.repin),
   Route("start_download", "change", "model", DownloadModel.start),
   Route("read_download_job", "probe", "job", DownloadModel.status)}
RoutingRoutes ==
  {Route("list_policies", "list", "routing", ManageRoutingPolicies.list_all),
   Route("read_policy", "get", "routing", ManageRoutingPolicies.get),
   Route("save_policy", "add", "routing", ManageRoutingPolicies.save),
   Route("delete_policy", "remove", "routing", ManageRoutingPolicies.delete)}
AvailabilityRoutes == {Route("availability", "list", "routing", "routing:read")}
MaintenanceRoutes ==
  {Route("maintenance_status", "list", "maintenance", ManageMaintenance.status),
   Route("enter_maintenance", "change", "maintenance", ManageMaintenance.enter),
   Route("restore_after_maintenance", "change", "maintenance", ManageMaintenance.restore),
   Route("retry_maintenance_entry", "change", "maintenance", ManageMaintenance.retry),
   Route("reopen_after_maintenance", "change", "maintenance", ManageMaintenance.reopen),
   Route("set_maintenance_message", "change", "maintenance", ManageMaintenance.set_message),
   Route("unknown_operations", "list", "operation", ResetNodeRuntime.list),
   Route("reset_runtime", "change", "operation", ResetNodeRuntime.reset)}
CollectionRoutes ==
  {Route("list_collections", "list", "collection", CollectionManagement.list_collections),
   Route("create_collection", "add", "collection", CollectionManagement.create_collection),
   Route("delete_collection", "remove", "collection", CollectionManagement.delete_collection)}
DocumentRoutes ==
  {Route("list_documents", "list", "document", DocumentManagement.list_documents),
   Route("read_document", "get", "document", DocumentManagement.get_document),
   Route("upload_document", "add", "document", DocumentManagement.upload_document),
   Route("read_document_text", "get", "document", DocumentManagement.read_document_text),
   Route("reindex_document", "change", "document", DocumentManagement.document_to_reindex),
   Route("read_ingestion_job", "probe", "job", CollectionManagement.assert_may_read),
   Route("delete_document", "remove", "document", DocumentManagement.delete_document)}
SearchRoutes == {Route("search_knowledge", "list", "document", SearchKnowledge.execute)}
ChatRoutes == {Route("admin_chat", "use", "usage", "chat:use")}
AssistantRoutes == {Route("assist", "use", "usage", AssistOperator.required_scope)}

Routes ==
  UserRoutes \cup TenantRoutes \cup KeyRoutes \cup ToolRoutes \cup MeRoutes \cup RoleRoutes
  \cup LogRoutes \cup PromptLogRoutes \cup RefusalRoutes \cup UsageRoutes
  \cup DashboardRoutes \cup RetentionRoutes \cup PromptTemplateRoutes \cup EvaluationRoutes
  \cup HostRoutes \cup GatewayInfoRoutes \cup NodeRoutes \cup ModelRoutes
  \cup RoutingRoutes \cup AvailabilityRoutes \cup MaintenanceRoutes \cup CollectionRoutes
  \cup DocumentRoutes \cup SearchRoutes \cup ChatRoutes \cup AssistantRoutes
--------------------------------------------------------------------------------
VARIABLES
  account,  \* id |-> [role, tenant, state]: its users row
  known,    \* the ids ever given out
  tenants,  \* the tenants there are
  rows,     \* every other row: [of, tenant, owner]; of the whole platform when tenant is None
  trail,    \* the audit log
  lost,     \* audit entries that could not be written, in the service log
  req,      \* slot |-> [pc, actor, route, plan]
  arrivals  \* requests so far

vars == <<account, known, tenants, rows, trail, lost, req, arrivals>>

Actor(p) == [id |-> p, role |-> account[p].role, tenant |-> account[p].tenant]
Holds(a, scope) == scope \in ROLE_SCOPES[a.role]
Entry(a, act, about) ==
    [of |-> "audit", tenant |-> a.tenant, owner |-> a.id, act |-> act, about |-> about]
KeyOf(a, p) == [of |-> "key", tenant |-> a.tenant, owner |-> p]

\* What a request commits: a change of the account `about`, with a role and a state where it
\* has them, and rows that come and go; what it shows, and what it notes in the trail first.
NoPlan == [change |-> "none", about |-> None, grant |-> None, state |-> None, stamp |-> None,
           adds |-> {}, drops |-> {}, shown |-> {}, notes |-> {}]
Idle == [pc |-> "idle", actor |-> None, route |-> None, plan |-> NoPlan]

Live(p) == account[p].state # "absent"
\* An account its tenant's repository finds.
Found(a, p) == Live(p) /\ account[p].tenant = a.tenant

TENANT_OWNED == {"key", "usage", "refusal", "transcript", "template", "collection", "document"}
Stamp(a, of) == IF of \in TENANT_OWNED THEN a.tenant ELSE None

\* What a use case can read: rows its tenant-scoped repositories find, and those of the
\* platform.
Listed == {[of |-> "user", tenant |-> account[p].tenant, owner |-> p] : p \in {p \in People : Live(p)}}
Reach(a) == {x \in rows \cup trail \cup Listed : x.tenant \in {None, a.tenant}}
Of(a, of) == {x \in Reach(a) : x.of = of}
OwnedBy(a, of, p) == {x \in Of(a, of) : x.owner = p}

\* Mutant: only administration itself is guarded.
MayGrantUnlessAdmin(a, role) == role = "admin" => a.role = "admin"

\* The rule at creation and at promotion: nobody confers what they do not hold.
MayGrant(a, role) == ROLE_SCOPES[role] \subseteq ROLE_SCOPES[a.role]

EnabledAdmins(tenant) == {p \in People : account[p].role = "admin" /\ account[p].state = "on"
                                  /\ account[p].tenant = tenant}
\* A guarded act on an administrator leaves the tenant another.
LeavesAdmin(a, p) ==
    account[p].role = "admin" /\ account[p].state = "on" => Cardinality(EnabledAdmins(a.tenant)) > 1

--------------------------------------------------------------------------------
Init ==
  /\ account = Accounts0 /\ known = {p \in People : Accounts0[p].state # "absent"}
  /\ tenants = Tenants0 /\ rows = Rows0 /\ trail = {} /\ lost = {}
  /\ req = [q \in Requests |-> Idle] /\ arrivals = 0

\* The entrance: the account's row as it is now, refused when disabled or gone.
Arrive(q, p, r) ==
  /\ req[q].pc \in {"idle", "answered", "refused", "failed"} /\ arrivals < MaxArrivals
  /\ account[p].state = "on"
  /\ arrivals' = arrivals + 1
  /\ req' = [req EXCEPT ![q] = [pc |-> "arrived", actor |-> Actor(p), route |-> r, plan |-> NoPlan]]
  /\ UNCHANGED <<account, known, tenants, rows, trail, lost>>

Handling(q, does) ==
    req[q].pc = "arrived" /\ req[q].route.does = does
Requires(q) == req[q].route.needs = None \/ Holds(req[q].actor, req[q].route.needs)
Wide(q) == Holds(req[q].actor, req[q].route.wide)

\* The use case ends with `plan`: what it wrote so far waits for the commit.
Planned(q, plan) ==
  /\ req' = [req EXCEPT ![q].pc = "noting", ![q].plan = plan]
  /\ UNCHANGED <<account, tenants, rows, trail, lost, arrivals>>
Plans(q, plan) == Planned(q, plan) /\ UNCHANGED known
Shows(q, shown, notes) == Plans(q, [NoPlan EXCEPT !.shown = shown, !.notes = notes])
Note(q, about) == {Entry(req[q].actor, req[q].route.name, about)}

\* Without the scope; with an id nobody has, a role that may not be granted, a taken name.
Refuse(q) ==
  /\ req[q].pc = "arrived"
  /\ Requires(q) => req[q].route.does \notin {"list", "own", "held", "any", "use"}
  /\ req' = [req EXCEPT ![q].pc = "refused"]
  /\ UNCHANGED <<account, known, tenants, rows, trail, lost, arrivals>>

List(q) ==
    /\ Handling(q, "list") /\ Requires(q)
    /\ Shows(q, Of(req[q].actor, req[q].route.of), {})

ReadOne(q) ==
    /\ Handling(q, "get") /\ Requires(q)
    /\ \E x \in Of(req[q].actor, req[q].route.of) : Shows(q, {x}, {})

ReadOwn(q) ==
    /\ Handling(q, "own") /\ Requires(q)
    /\ Shows(q, OwnedBy(req[q].actor, req[q].route.of, req[q].actor.id), {})

\* list_visible: the wide scope shows the tenant's keys, without a note.
list_visible(q) ==
    LET a == req[q].actor
    IN /\ Handling(q, "held") /\ Requires(q)
       /\ Shows(q, IF Wide(q) THEN Of(a, "key") ELSE OwnedBy(a, "key", a.id), {})

\* One's own refusals or records, whatever was asked; with the wide scope those asked for, of
\* everybody when nobody is named, and a note that others' were read.
ReadAny(q, asked) ==
    LET a == req[q].actor
        of == req[q].route.of
        about == IF Wide(q) THEN asked ELSE a.id
    IN /\ Handling(q, "any") /\ Requires(q)
       /\ Shows(q, IF about = None THEN Of(a, of) ELSE OwnedBy(a, of, about),
                IF Wide(q) /\ about # a.id THEN Note(q, about) ELSE {})

read_transcript(q) ==
    /\ Handling(q, "open") /\ Requires(q)
    /\ \E x \in Of(req[q].actor, "transcript") : Shows(q, {x}, Note(q, x.owner))

\* A link, a debug window: the account has to be the tenant's.
Touch(q, p) ==
    /\ Handling(q, "touch") /\ Requires(q) /\ Found(req[q].actor, p)
    /\ Shows(q, {}, Note(q, p))

create_account(q, p, role) ==
    LET a == req[q].actor
    IN /\ Handling(q, "invite") /\ Requires(q) /\ MayGrant(a, role) /\ p \notin known
       /\ Planned(q, [NoPlan EXCEPT !.change = "create", !.about = p, !.grant = role,
                                    !.stamp = a.tenant, !.notes = Note(q, p)])
       /\ known' = known \cup {p}

\* update then set_disabled, of the row each read; without a role the one read is written
\* back.
update_user(q, p, role, state) ==
    LET a == req[q].actor
        changes == role # None /\ role # account[p].role
    IN /\ Handling(q, "edit") /\ Requires(q) /\ Found(a, p)
       /\ changes => MayGrant(a, role) /\ p # a.id /\ LeavesAdmin(a, p)
       /\ state = "off" =>
            p # a.id /\ ((IF role = None THEN account[p].role ELSE role) = "admin" => LeavesAdmin(a, p))
       /\ Plans(q, [NoPlan EXCEPT !.change = "edit", !.about = p, !.state = state,
                                  !.grant = IF role = None THEN account[p].role ELSE role,
                                  !.stamp = a.tenant, !.notes = Note(q, p) \cup
                                    (IF state = None THEN {} ELSE {Entry(a, "set_disabled", p)})])

\* The keys there are go with it.
delete_user(q, p) ==
    LET a == req[q].actor
    IN /\ Handling(q, "delete") /\ Requires(q) /\ Found(a, p) /\ p # a.id /\ LeavesAdmin(a, p)
       /\ Plans(q, [NoPlan EXCEPT !.change = "delete", !.about = p, !.stamp = a.tenant,
                                  !.drops = OwnedBy(a, "key", p), !.notes = Note(q, p)])

\* A tenant and its first administrator, stamped with it.
create_tenant(q, t, p) ==
    LET a == req[q].actor
    IN /\ Handling(q, "found") /\ Requires(q) /\ Holds(a, "user:write") /\ MayGrant(a, "admin")
       /\ t \notin tenants /\ p \notin known
       /\ Planned(q, [NoPlan EXCEPT !.change = "found", !.about = p, !.grant = "admin",
                                    !.stamp = t, !.notes = Note(q, p) \cup Note(q, t)])
       /\ known' = known \cup {p}

\* One's own with the narrow scope, another's with the wide one.
OwnerPermission(q, p) == IF p = req[q].actor.id THEN Requires(q) ELSE Wide(q)

issue_key(q, p) ==
    /\ Handling(q, "issue") /\ OwnerPermission(q, p) /\ Found(req[q].actor, p)
    /\ Plans(q, [NoPlan EXCEPT !.change = "issue", !.about = p,
                               !.adds = {KeyOf(req[q].actor, p)}, !.notes = Note(q, p)])

\* An edit or a revocation leaves the row.
change_key(q) ==
    /\ Handling(q, "rekey")
    /\ \E x \in Of(req[q].actor, "key") :
         OwnerPermission(q, x.owner) /\ Shows(q, {x}, Note(q, x.owner))

Content(q) == [of |-> req[q].route.of, tenant |-> Stamp(req[q].actor, req[q].route.of), owner |-> None]
Add(q) ==
    /\ Handling(q, "add") /\ Requires(q)
    /\ Plans(q, [NoPlan EXCEPT !.adds = {Content(q)}, !.notes = Note(q, None)])
Change(q) ==
    /\ Handling(q, "change") /\ Requires(q)
    /\ Shows(q, {}, Note(q, None))
Remove(q) ==
    /\ Handling(q, "remove") /\ Requires(q) /\ Content(q) \in rows
    /\ Plans(q, [NoPlan EXCEPT !.drops = {Content(q)}, !.notes = Note(q, None)])
Probe(q) == Handling(q, "probe") /\ Requires(q) /\ Shows(q, {}, {})

\* Of every tenant: what is old enough.
Purge(q) ==
    /\ Handling(q, "purge") /\ Requires(q)
    /\ \E old \in SUBSET {x \in rows : x.of = req[q].route.of} :
         Plans(q, [NoPlan EXCEPT !.drops = old, !.notes = Note(q, None)])

\* A generation leaves a row of its usage.
Use(q) ==
    LET a == req[q].actor
    IN /\ Handling(q, "use") /\ Requires(q)
       /\ Plans(q, [NoPlan EXCEPT
            !.adds = {[of |-> "usage", tenant |-> a.tenant, owner |-> a.id]}])

\* The audit entry, in a transaction of its own: written, or lost to the service log.
Record(q, note) ==
  /\ req[q].pc = "noting" /\ note \in req[q].plan.notes
  /\ \/ trail' = trail \cup {note} /\ UNCHANGED lost
     \/ lost' = lost \cup {note} /\ UNCHANGED trail
  /\ req' = [req EXCEPT ![q].plan.notes = @ \ {note}]
  /\ UNCHANGED <<account, known, tenants, rows, arrivals>>

\* The rows a commit writes: WHERE finds the account in the tenant, or finds nothing.
Written(plan) ==
    LET p == plan.about
    IN CASE plan.change \in {"create", "found"} ->
              [account EXCEPT ![p] = [role |-> plan.grant, tenant |-> plan.stamp, state |-> "on"]]
         [] plan.change = "edit" /\ Live(p) /\ account[p].tenant = plan.stamp ->
              [account EXCEPT ![p].role = plan.grant,
                              ![p].state = IF plan.state = None THEN @ ELSE plan.state]
         [] plan.change = "delete" /\ account[p].tenant = plan.stamp ->
              [account EXCEPT ![p].state = "absent"]
         [] OTHER -> account

\* What the database's constraints let commit: no key without its owner, no name twice.
Consistent(plan) ==
  /\ plan.change = "delete" => \A x \in rows \ plan.drops : x.of = "key" => x.owner # plan.about
  /\ plan.change = "issue" => Live(plan.about)
  /\ plan.change = "found" => plan.stamp \notin tenants

\* Before the response: a commit that fails answers an error, and its notes stand.
Commit(q) ==
  LET plan == req[q].plan
  IN /\ req[q].pc = "noting" /\ plan.notes = {} /\ Consistent(plan)
     /\ account' = Written(plan)
     /\ tenants' = IF plan.change = "found" THEN tenants \cup {plan.stamp} ELSE tenants
     /\ rows' = (rows \ plan.drops) \cup plan.adds
     /\ req' = [req EXCEPT ![q].pc = "answered"]
     /\ UNCHANGED <<known, trail, lost, arrivals>>

CommitFails(q) ==
  /\ req[q].pc = "noting" /\ req[q].plan.notes = {}
  /\ req[q].plan.change # "none" \/ req[q].plan.adds # {} \/ req[q].plan.drops # {}
  /\ req' = [req EXCEPT ![q].pc = "failed"]
  /\ UNCHANGED <<account, known, tenants, rows, trail, lost, arrivals>>

Handle(q) ==
  \/ Refuse(q) \/ List(q) \/ ReadOne(q) \/ ReadOwn(q) \/ list_visible(q)
  \/ read_transcript(q) \/ change_key(q) \/ Purge(q) \/ Add(q) \/ Change(q) \/ Remove(q) \/ Probe(q) \/ Use(q)
  \/ \E asked \in People \cup {None} : ReadAny(q, asked)
  \/ \E p \in People :
       \/ Touch(q, p) \/ delete_user(q, p) \/ issue_key(q, p)
       \/ \E role \in ASSIGNABLE_ROLES : create_account(q, p, role)
       \/ \E role \in ASSIGNABLE_ROLES \cup {None}, state \in {None, "on", "off"} :
            update_user(q, p, role, state)
       \/ \E t \in Tenants : create_tenant(q, t, p)

Step(q) ==
  \/ \E p \in People, r \in Exercised : Arrive(q, p, r)
  \/ Handle(q)
  \/ \E note \in req[q].plan.notes : Record(q, note)
  \/ Commit(q) \/ CommitFails(q)

Next == \E q \in Requests : Step(q)
Spec == Init /\ [][Next]_vars
--------------------------------------------------------------------------------
AccountType == [role : Roles, tenant : Tenants, state : {"absent", "on", "off"}]

TypeOK ==
  /\ account \in [People -> AccountType] /\ known \subseteq People
  /\ tenants \subseteq Tenants /\ arrivals \in 0..MaxArrivals
  /\ \A q \in Requests :
       req[q].pc \in {"idle", "arrived", "noting", "answered", "refused", "failed"}

\* Somebody of the tenant held at the start whatever `role` confers; for a tenant created
\* since, somebody of any tenant.
Within(tenant, role) ==
    \E p \in People :
      /\ Accounts0[p].state # "absent" /\ ROLE_SCOPES[role] \subseteq ROLE_SCOPES[Accounts0[p].role]
      /\ tenant \in Tenants0 => Accounts0[p].tenant = tenant

\* However accounts are created, promoted, renamed and removed, together and by actors whose
\* own role has changed since they arrived: no account of a tenant confers more than one of
\* its accounts did at the start (grantable_roles.py: "Nobody can use account creation to
\* acquire a scope they did not already have").
PowerStays == \A p \in People : Live(p) => Within(account[p].tenant, account[p].role)

\* A key belongs to an account of its tenant, also one issued while the account is deleted.
KeysHaveOwners ==
    \A x \in rows : x.of = "key" => Live(x.owner) /\ account[x.owner].tenant = x.tenant

\* Nobody is shown another tenant's rows.
TenantsApart ==
    \A q \in Requests : \A x \in req[q].plan.shown : x.tenant \in {None, req[q].actor.tenant}

OTHERS_SCOPES == {"refusal:read_all", "usage:read_all", "prompt_log:read", "api_key:write_any"}
Others(q) == {x \in req[q].plan.shown :
                x.of \in {"refusal", "usage", "transcript", "key"} /\ x.owner # req[q].actor.id}
Tells(note, q, x) ==
    /\ note.owner = req[q].actor.id /\ note.act = req[q].route.name
    /\ note.about \in {None, x.owner}

\* Nobody is shown another's refusals, usage, transcripts or keys without a scope that
\* reaches everybody's; of refusals, usage records and transcripts the reader is in the
\* trail, or in the service log if that could not be written, once answered.
OthersByRight ==
    \A q \in Requests : \A x \in Others(q) :
      /\ \E scope \in OTHERS_SCOPES : Holds(req[q].actor, scope)
      /\ req[q].pc = "answered" /\ req[q].route.does \in {"any", "open"} =>
           \E note \in trail \cup lost : Tells(note, q, x)

\* No power, no key and no row strays, and nobody reads another's unnoticed.
AuthorityHolds == PowerStays /\ KeysHaveOwners /\ TenantsApart /\ OthersByRight

\* What a request commits is of its actor's tenant, or of the whole platform: a tenant is
\* created, a dataset purged.
ChangesStayHome ==
    /\ \A p \in People : account'[p] # account[p] =>
         \E q \in Requests : req'[q] # req[q] /\ req[q].pc = "noting" /\
           (account'[p].tenant = req[q].actor.tenant \/ req[q].plan.change = "found")
    /\ \A x \in (rows \ rows') \cup (rows' \ rows) :
         x.tenant = None \/ \E q \in Requests : req'[q] # req[q] /\
           (x.tenant = req[q].actor.tenant \/ req[q].route.does = "purge")
--------------------------------------------------------------------------------
\* What the proofs rest on.

\* A record with the fields of a request, and a plan's.
PlanFields == {"change", "about", "grant", "state", "stamp", "adds", "drops", "shown", "notes"}
Shaped(r) ==
    DOMAIN r = {"pc", "actor", "route", "plan"} /\ DOMAIN r.plan = PlanFields

\* A request acts within what its actor's tenant held; so does an account it is to write, in
\* the tenant it is stamped with; and it shows and changes rows of that tenant.
Bounded(r) ==
    /\ r.actor.tenant \in Tenants /\ Within(r.actor.tenant, r.actor.role)
    /\ r.plan.change \in {"create", "edit", "found"} =>
         r.plan.grant \in Roles /\ r.plan.stamp \in Tenants /\ Within(r.plan.stamp, r.plan.grant)
    /\ r.plan.change = "edit" => r.plan.state \in {None, "on", "off"}
    /\ r.plan.change \in {"create", "edit", "delete"} => r.plan.stamp = r.actor.tenant
    /\ \A x \in r.plan.shown : x.tenant \in {None, r.actor.tenant}
    /\ \A x \in r.plan.adds \cup r.plan.drops :
         x.tenant \in {None, r.actor.tenant} \/ r.route.does = "purge"

PowerInv ==
    /\ account \in [People -> AccountType] /\ Tenants0 \subseteq tenants
    /\ DOMAIN req = Requests
    /\ \A q \in Requests : Shaped(req[q]) /\ (req[q].pc # "idle" => Bounded(req[q]))
                           /\ (req[q].pc = "idle" => req[q].plan = NoPlan)
    /\ PowerStays

\* An account to be created has an id of its own: nothing else is planned about it, and it has
\* no keys; a key is planned for an account of the actor's tenant.
Fresh(q) ==
    LET plan == req[q].plan
    IN req[q].pc = "noting" =>
         /\ plan.change \in {"create", "found"} =>
              /\ plan.about \in known /\ ~Live(plan.about)
              /\ \A x \in rows : x.of = "key" => x.owner # plan.about
              /\ \A o \in Requests \ {q} :
                   req[o].pc = "noting" /\ req[o].plan.change # "none" => req[o].plan.about # plan.about
         /\ plan.change = "issue" =>
              /\ plan.adds = {KeyOf(req[q].actor, plan.about)}
              /\ account[plan.about].tenant = req[q].actor.tenant
         /\ plan.change # "issue" => \A x \in plan.adds : x.of # "key"
         /\ plan.change # "none" => plan.about \in known

KeysInv ==
    /\ known \subseteq People /\ \A p \in People : Live(p) => p \in known
    /\ \A q \in Requests : Fresh(q) /\ (req[q].pc = "arrived" => req[q].route \in Exercised)
    /\ \A x \in rows : x.of = "key" => x.owner \in People
    /\ KeysHaveOwners

\* A request shows nothing before it was handled; what it shows of others it may, and their
\* reader is noted, or about to be.
Told(q) ==
    /\ req[q].pc \in {"idle", "arrived", "refused"} => req[q].plan.shown = {}
    /\ req[q].pc # "idle" => req[q].actor.id \in People
    /\ req[q].pc = "answered" => req[q].plan.notes = {}
    /\ \A x \in Others(q) :
         /\ \E scope \in OTHERS_SCOPES : Holds(req[q].actor, scope)
         /\ req[q].route.does \in {"any", "open"} =>
              \E note \in req[q].plan.notes \cup trail \cup lost : Tells(note, q, x)

NotesInv == \A q \in Requests : Told(q)

AuthorityAssumption ==
    /\ None \notin People /\ None \notin OTHERS_SCOPES
    /\ Accounts0 \in [People -> AccountType] /\ Tenants0 \subseteq Tenants
    /\ Exercised \subseteq Routes
    /\ \A x \in Rows0 : x.of = "key" =>
         /\ x.owner \in People /\ Accounts0[x.owner].state # "absent"
         /\ Accounts0[x.owner].tenant = x.tenant
================================================================================
