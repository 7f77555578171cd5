------------------------------ MODULE Deployment ------------------------------
(***************************************************************************)
(* What a deploy does to the database: the migrate job, which upgrades the  *)
(* schema to the head of the chain, sets the privileges of the three        *)
(* accounts and reconciles the rows a crash left behind, and which every    *)
(* application waits for; and a downgrade by hand.  The applications of the *)
(* release before go on writing until they are replaced.                    *)
(*                                                                         *)
(* A schema is the tables, the columns added to a table after it was        *)
(* created (those it was created with come with it) and the constraints a   *)
(* row can meet or fail; indexes are left out.  A row is its table and the  *)
(* one trait a constraint, a deletion or the reconciliation looks at.       *)
(***************************************************************************)
EXTENDS Integers, Sequences, FiniteSets, SequencesExt

CONSTANTS
    Stops,     \* the revisions a deploy may find, or a downgrade go to
    Watched,   \* tables whose rows are followed
    Leftover,  \* privileges earlier releases may have left with the gateway
    MaxRows    \* bound: rows of the watched tables

VARIABLES
    rev,       \* the revision the database is stamped with
    db,        \* its schema and rows
    grants,    \* <<account, verb, table or table and column>>
    defaults,  \* the accounts that get privileges on tables created later
    code,      \* the revision of the release that is running, 0: none is
    job,       \* where the migrate job is
    alone,     \* no release has run since the job began
    refused    \* the writes the database turned away: <<release, row>>

vars == <<rev, db, grants, defaults, code, job, alone, refused>>

-----------------------------------------------------------------------------
(* Schemas and what changes them.                                          *)

Owned(tenant, table, trait) == [table |-> table, trait |-> trait, tenant |-> tenant]
Row(table, trait) == Owned("default", table, trait)

\* The rows a table may hold.
RowsOf(t) ==
    CASE t = "users" -> {Row(t, "whole"), Row(t, "password only")}
      [] t = "api_keys" -> {Row(t, "dated"), Row(t, "undated")}
      [] t = "usage_records" -> {Row(t, "short key"), Row(t, "long key")}
      [] t = "node_operations" -> {Row(t, k) : k \in {"inference", "pull", "repin", "probe"}}
      [] t = "attempt_results" -> {Row(t, "inference")}
      [] t \in {"maintenance_operations", "maintenance_node_steps"} ->
           {Row(t, "enter"), Row(t, "restore")}
      [] t = "tenants" -> {Owned(o, t, "row") : o \in {"default", "lab"}}
      [] t = "knowledge_documents" ->
           {Owned(o, t, k) : o \in {"default", "lab"}, k \in {"indexed", "processing", "failed"}}
      [] t = "models" ->
           {Row(t, k) : k \in {"downloading", "loading", "loaded", "unloading", "error"}}
      [] OTHER -> {Row(t, "row")}

\* The rows a row references.
References(r) ==
    CASE r.table = "attempt_results" -> {Row("node_operations", r.trait)}
      [] r.table = "maintenance_node_steps" -> {Row("maintenance_operations", r.trait)}
      [] r.table = "knowledge_documents" -> {Owned(r.tenant, "tenants", "row")}
      [] OTHER -> {}

Meets(r, c) == r.table = c.table => r.trait \in c.allowed

Empty == [tables |-> {}, columns |-> {}, checks |-> {}, rows |-> {}, ok |-> TRUE]

Columns(t, cs, kind) == {[table |-> t, column |-> c, kind |-> kind] : c \in cs}
Nullable(t, cs) == Columns(t, cs, "null")
Defaulted(t, cs) == Columns(t, cs, "default")
\* Added nullable, filled in for the rows there are, then made NOT NULL.
Backfilled(t, cs) == Columns(t, cs, "required")
Check(t, name, allowed) == [table |-> t, name |-> name, allowed |-> allowed]

\* The statements of one direction of a revision: the rows it deletes, in that
\* order, and what it then does to the schema and inserts.
NoChange ==
    [create |-> {}, drop |-> {}, add |-> {}, remove |-> {}, check |-> {}, uncheck |-> {},
     insert |-> {}, delete |-> <<>>, seed |-> FALSE]
Creates(T) == [NoChange EXCEPT !.create = T]
Drops(T) == [NoChange EXCEPT !.drop = T]
Adds(columns) == [NoChange EXCEPT !.add = columns]
Removes(t, cs) == [NoChange EXCEPT !.remove = {t} \X cs]
\* The constraint on a table's kinds, replaced.
Rekind(t, kinds) ==
    [NoChange EXCEPT !.uncheck = {<<t, "kind">>}, !.check = {Check(t, "kind", kinds)}]

\* An epoch for every tenant, of which the ones with documents want a rebuild.
Seeds(d) ==
    {Owned(t.tenant, "knowledge_tenant_epochs",
           IF \E r \in d.rows : t \in References(r) THEN "rebuild" ELSE "fresh") :
       t \in {r \in d.rows : r.table = "tenants"}}

\* It is refused when a row is in its way: a constraint one does not meet, a
\* deletion of one that another still references.
Apply(d, c) ==
    LET Before(i) == d.rows \ {c.delete[j] : j \in 1..(i - 1)}
        left == Before(Len(c.delete) + 1) IN
    [tables |-> (d.tables \ c.drop) \cup c.create,
     columns |-> {x \in d.columns : x.table \notin c.drop /\ <<x.table, x.column>> \notin c.remove}
                   \cup c.add,
     checks |-> {x \in d.checks : x.table \notin c.drop /\ <<x.table, x.name>> \notin c.uncheck}
                  \cup c.check,
     rows |-> {r \in left : r.table \notin c.drop} \cup c.insert
                \cup (IF c.seed THEN Seeds(d) ELSE {}),
     ok |-> /\ d.ok
            /\ \A x \in c.check : \A r \in left : Meets(r, x)
            /\ \A i \in 1..Len(c.delete) : \A r \in Before(i) :
                  c.delete[i] \in Before(i) => c.delete[i] \notin References(r)]

-----------------------------------------------------------------------------
(* The chain of revisions, oldest first: what each upgrade and downgrade    *)
(* does.                                                                    *)

Revision(up, down) == [up |-> up, down |-> down]

InitialTables == {"audit_log", "nodes", "routing_policies", "usage_records", "users",
                  "api_keys", "invitations", "models", "recovery_codes"}
TenantScoped == {"users", "api_keys", "usage_records", "audit_log"}
CompactionColumns == {"compaction_tier", "tokens_before_compaction", "tokens_after_compaction"}
AgentTables == {"node_agents", "node_operations", "attempt_results", "node_operation_audit",
                "request_bindings", "request_attempts"}
SettlementColumns == {"attempt_id", "totals_source", "prompt_tokens_basis", "runtime_completed"}

initial_schema == Revision(Creates(InitialTables), Drops(InitialTables))

\* The first revision that rows can stand in the way of.
tighten_constraints ==
    Revision([NoChange EXCEPT !.check = {Check("users", "password_implies_totp", {"whole"}),
                                           Check("api_keys", "expires_at", {"dated"}),
                                           Check("usage_records", "api_key_id", {"short key"})}],
             [NoChange EXCEPT !.uncheck = {<<"users", "password_implies_totp">>, <<"api_keys", "expires_at">>,
                                             <<"usage_records", "api_key_id">>}])
add_users_created_at ==
    Revision(Adds(Defaulted("users", {"created_at"})),
             Removes("users", {"created_at"}))
add_api_keys_created_at ==
    Revision(Adds(Defaulted("api_keys", {"created_at"})),
             Removes("api_keys", {"created_at"}))
add_tenants ==
    Revision([NoChange EXCEPT !.create = {"tenants"},
                                 !.insert = {Owned("default", "tenants", "row")},
                                 !.add = UNION {Backfilled(t, {"tenant_id"}) : t \in TenantScoped}],
             [NoChange EXCEPT !.drop = {"tenants"},
                                 !.remove = TenantScoped \X {"tenant_id"}])
add_knowledge_base ==
    Revision(Creates({"knowledge_collections", "knowledge_documents"}),
             Drops({"knowledge_collections", "knowledge_documents"}))
add_model_observations ==
    Revision(Adds(Nullable("models", {"observed_state", "observed_memory_gb", "observed_at"})),
             Removes("models", {"observed_state", "observed_memory_gb", "observed_at"}))
add_usage_prompt_tokens ==
    Revision(Adds(Defaulted("usage_records", {"prompt_tokens"})),
             Removes("usage_records", {"prompt_tokens"}))
add_retention_policies ==
    Revision(Creates({"retention_policies"}),
             Drops({"retention_policies"}))
add_routing_policy_thinking ==
    Revision(Adds(Nullable("routing_policies", {"thinking"})),
             Removes("routing_policies", {"thinking"}))
add_prompt_templates == Revision(Creates({"prompt_templates"}), Drops({"prompt_templates"}))
add_prompt_logs == Revision(Creates({"prompt_logs"}), Drops({"prompt_logs"}))
add_model_evaluations ==
    Revision(Creates({"evaluation_runs", "evaluation_model_scores", "evaluation_task_scores"}),
             Drops({"evaluation_runs", "evaluation_model_scores", "evaluation_task_scores"}))
add_refusals == Revision(Creates({"refusals"}), Drops({"refusals"}))
add_refusals_actor_display ==
    Revision(Adds(Defaulted("refusals", {"actor_display"})),
             Removes("refusals", {"actor_display"}))
add_capability_defaulting ==
    Revision(Adds(Nullable("api_keys", {"default_capability"})
                    \cup Nullable("usage_records", {"requested_capability"})),
             [NoChange EXCEPT !.remove = {<<"api_keys", "default_capability">>,
                                            <<"usage_records", "requested_capability">>}])
add_evaluation_task_definitions ==
    Revision(Creates({"evaluation_task_definitions"}),
             Drops({"evaluation_task_definitions"}))
add_compaction_columns ==
    Revision(Adds(Defaulted("api_keys", {"compaction_enabled"})
                    \cup Nullable("usage_records", CompactionColumns)),
             [NoChange EXCEPT !.remove = ({"usage_records"} \X CompactionColumns)
                                            \cup {<<"api_keys", "compaction_enabled">>}])
add_prompt_logs_compaction_tier ==
    Revision(Adds(Nullable("prompt_logs", {"compaction_tier"})),
             Removes("prompt_logs", {"compaction_tier"}))
add_platform_snapshots ==
    Revision(Creates({"platform_snapshots"}),
             Drops({"platform_snapshots"}))
add_node_agent_tables ==
    Revision([NoChange EXCEPT !.create = AgentTables,
                                 !.check = {Check("node_operations", "kind", {"inference"})},
                                 !.add = Nullable("nodes", {"agent_url", "lock_domain_id"})
                                         \cup Nullable("models", {"manifest_digest"})
                                         \cup Nullable("usage_records", SettlementColumns)],
             [NoChange EXCEPT !.drop = AgentTables,
                                 !.remove = ({"nodes"} \X {"agent_url", "lock_domain_id"})
                                            \cup ({"models"} \X {"manifest_digest"})
                                            \cup ({"usage_records"} \X SettlementColumns)])
add_pull_operation_kind ==
    Revision(Rekind("node_operations", {"inference", "pull"}),
             [Rekind("node_operations", {"inference"}) EXCEPT
                !.delete = <<Row("attempt_results", "pull"), Row("node_operations", "pull")>>])
add_node_runtime_version ==
    Revision(Adds(Nullable("nodes", {"runtime_version", "runtime_version_at"})),
             Removes("nodes", {"runtime_version", "runtime_version_at"}))
add_usage_timings ==
    Revision(Adds(Nullable("usage_records", {"prompt_eval_ms", "eval_ms", "load_ms"})),
             Removes("usage_records", {"prompt_eval_ms", "eval_ms", "load_ms"}))
add_attempt_billing ==
    Revision(Adds(Nullable("request_attempts", {"billing"})),
             Removes("request_attempts", {"billing"}))
add_model_capacity_validated ==
    Revision(Adds(Defaulted("models", {"capacity_validated"})),
             Removes("models", {"capacity_validated"}))

\* Every tenant gets its epoch; the index of one that has documents has to be rebuilt.
add_shared_knowledge_epochs ==
    Revision([NoChange EXCEPT !.create = {"knowledge_tenant_epochs"},
                                 !.seed = TRUE,
                                 !.add = Defaulted("knowledge_collections",
                                                   {"epoch", "mutations_in_progress"})],
             [NoChange EXCEPT !.drop = {"knowledge_tenant_epochs"},
                                 !.remove = {"knowledge_collections"}
                                             \X {"epoch", "mutations_in_progress"}])
add_model_desired_residency ==
    Revision(Adds(Defaulted("models", {"desired_resident", "desired_version"})),
             Removes("models", {"desired_resident", "desired_version"}))
add_repin_operation_kind ==
    Revision(Rekind("node_operations", {"inference", "pull", "repin"}),
             [Rekind("node_operations", {"inference", "pull"}) EXCEPT
                !.delete = <<Row("attempt_results", "repin"), Row("node_operations", "repin")>>])
add_maintenance_control ==
    Revision([NoChange EXCEPT !.create = {"maintenance_control"},
                                 !.insert = {Row("maintenance_control", "row")}],
             Drops({"maintenance_control"}))
add_maintenance_operations ==
    Revision([NoChange EXCEPT !.create = {"maintenance_operations", "maintenance_node_steps"},
                                 !.check = {Check("maintenance_operations", "kind", {"enter"})}],
             Drops({"maintenance_operations", "maintenance_node_steps"}))

\* A step of a restore references its operation: it goes first.
add_maintenance_restore ==
    Revision([NoChange EXCEPT
                !.uncheck = {<<"node_operations", "kind">>, <<"maintenance_operations", "kind">>},
                !.check = {Check("node_operations", "kind", {"inference", "pull", "repin", "probe"}),
                           Check("maintenance_operations", "kind", {"enter", "restore"})}],
             [NoChange EXCEPT
                !.delete = <<Row("node_operations", "probe"),
                             Row("maintenance_node_steps", "restore"),
                             Row("maintenance_operations", "restore")>>,
                !.uncheck = {<<"node_operations", "kind">>, <<"maintenance_operations", "kind">>},
                !.check = {Check("node_operations", "kind", {"inference", "pull", "repin"}),
                           Check("maintenance_operations", "kind", {"enter"})}])

Chain == <<
    initial_schema, tighten_constraints, add_users_created_at,
    add_api_keys_created_at, add_tenants, add_knowledge_base,
    add_model_observations, add_usage_prompt_tokens, add_retention_policies,
    add_routing_policy_thinking, add_prompt_templates, add_prompt_logs,
    add_model_evaluations, add_refusals, add_refusals_actor_display,
    add_capability_defaulting, add_evaluation_task_definitions,
    add_compaction_columns, add_prompt_logs_compaction_tier, add_platform_snapshots,
    add_node_agent_tables, add_pull_operation_kind, add_node_runtime_version,
    add_usage_timings, add_attempt_billing, add_model_capacity_validated,
    add_shared_knowledge_epochs, add_model_desired_residency,
    add_repin_operation_kind, add_maintenance_control, add_maintenance_operations,
    add_maintenance_restore>>
Latest == Len(Chain)

\* The database as its upgrades alone build it.
Built[r \in 0..Latest] == IF r = 0 THEN Empty ELSE Apply(Built[r - 1], Chain[r].up)

Schema(d) == [d EXCEPT !.rows = {}]

\* upgrade head, and downgrade: every revision on the way, in one transaction.
Upgraded(d, from) ==
    FoldLeft(LAMBDA e, v : Apply(e, v.up), d, SubSeq(Chain, from + 1, Latest))
Downgraded(d, from, to) ==
    FoldLeft(LAMBDA e, v : Apply(e, v.down), d, Reverse(SubSeq(Chain, to + 1, from)))

-----------------------------------------------------------------------------
(* What the code of the head revision declares of its tables, beyond the    *)
(* columns they were created with, and what it writes and reads of them.    *)

Declares(t, required, nullable) == [table |-> t, required |-> required, nullable |-> nullable]

TenantRow == Declares("tenants", {}, {})
NodeRow == Declares("nodes", {}, {"agent_url", "runtime_version", "runtime_version_at"})
ModelRow ==
    Declares("models", {"capacity_validated", "desired_resident", "desired_version"},
             {"manifest_digest", "observed_state", "observed_memory_gb", "observed_at"})
RoutingPolicyRow == Declares("routing_policies", {}, {"thinking"})
UserRow == Declares("users", {"tenant_id", "created_at"}, {})
InvitationRow == Declares("invitations", {}, {})
RecoveryCodeRow == Declares("recovery_codes", {}, {})
ApiKeyRow ==
    Declares("api_keys", {"tenant_id", "created_at", "compaction_enabled"}, {"default_capability"})
UsageRecordRow ==
    Declares("usage_records", {"tenant_id", "prompt_tokens"},
             {"requested_capability", "prompt_eval_ms", "eval_ms", "load_ms"}
               \cup CompactionColumns \cup SettlementColumns)
AuditLogRow == Declares("audit_log", {"tenant_id"}, {})
RetentionPolicyRow == Declares("retention_policies", {}, {})
PromptTemplateRow == Declares("prompt_templates", {}, {})
PromptLogRow == Declares("prompt_logs", {}, {"compaction_tier"})
RefusalRow == Declares("refusals", {"actor_display"}, {})
PlatformSnapshotRow == Declares("platform_snapshots", {}, {})
KnowledgeCollectionRow == Declares("knowledge_collections", {"epoch", "mutations_in_progress"}, {})
KnowledgeDocumentRow == Declares("knowledge_documents", {}, {})
KnowledgeTenantEpochRow == Declares("knowledge_tenant_epochs", {}, {})
MaintenanceControlRow == Declares("maintenance_control", {}, {})
EvaluationRunRow == Declares("evaluation_runs", {}, {})
EvaluationModelScoreRow == Declares("evaluation_model_scores", {}, {})
EvaluationTaskScoreRow == Declares("evaluation_task_scores", {}, {})
EvaluationTaskDefinitionRow == Declares("evaluation_task_definitions", {}, {})

Base == {TenantRow, NodeRow, ModelRow, RoutingPolicyRow, UserRow, InvitationRow, RecoveryCodeRow,
         ApiKeyRow, UsageRecordRow, AuditLogRow, RetentionPolicyRow, PromptTemplateRow,
         PromptLogRow, RefusalRow, PlatformSnapshotRow, KnowledgeCollectionRow,
         KnowledgeDocumentRow, KnowledgeTenantEpochRow, MaintenanceControlRow, EvaluationRunRow,
         EvaluationModelScoreRow, EvaluationTaskScoreRow, EvaluationTaskDefinitionRow}

\* fills: the columns a row of the domain always sets; a created_at it may lack
\* is left to the database.
Maps(row, fills) == [table |-> row.table, fills |-> fills]

user_to_row == Maps(UserRow, {"tenant_id"})
api_key_to_row ==
    Maps(ApiKeyRow, {"tenant_id", "default_capability", "compaction_enabled"})
node_to_row == Maps(NodeRow, {"agent_url"})
model_to_row ==
    Maps(ModelRow, {"capacity_validated", "observed_state", "observed_memory_gb", "observed_at"})
routing_policy_to_row == Maps(RoutingPolicyRow, {"thinking"})
usage_to_row == Maps(UsageRecordRow, UsageRecordRow.required \cup UsageRecordRow.nullable)
prompt_log_to_row == Maps(PromptLogRow, {"compaction_tier"})
refusal_to_row == Maps(RefusalRow, {"actor_display"})
collection_to_row == Maps(KnowledgeCollectionRow, {})

Mappers == {user_to_row, api_key_to_row, node_to_row, model_to_row, routing_policy_to_row,
            usage_to_row, prompt_log_to_row, refusal_to_row, collection_to_row}

\* The code of the head revision can write its rows to this schema and read
\* them back.
Fits(d) ==
    LET Kind(t, c) == {x.kind : x \in {y \in d.columns : y.table = t /\ y.column = c}} IN
    /\ \A b \in Base : /\ b.table \in d.tables
                       /\ \A c \in b.required : Kind(b.table, c) \in {{"default"}, {"required"}}
                       /\ \A c \in b.nullable : Kind(b.table, c) = {"null"}
    /\ \A w \in Mappers : \A x \in d.columns :
          x.table = w.table /\ x.kind = "required" => x.column \in w.fills

-----------------------------------------------------------------------------
(* The privileges of the three accounts.                                    *)

GATEWAY_WRITABLE_TABLES == {"usage_records", "prompt_logs", "refusals"}
GATEWAY_DENIED_READ_TABLES ==
    {"prompt_logs", "refusals", "attempt_results", "maintenance_operations",
     "maintenance_node_steps"}
GATEWAY_BINDING_GRANTS ==
    {<<"insert", "request_bindings">>, <<"update", "request_bindings.current_seq">>,
     <<"update", "request_bindings.version">>, <<"insert", "request_attempts">>,
     <<"update", "request_attempts.client_delivery_complete">>,
     <<"update", "usage_records.completed">>}
AGENT_READ_TABLES == {"nodes", "models", "maintenance_control"}
AGENT_WRITABLE_TABLES == {"node_agents", "node_operations"}
AGENT_APPEND_ONLY_TABLES == {"attempt_results", "node_operation_audit"}

Select(T) == {"select"} \X T
DML(T) == {"select", "insert", "update", "delete"} \X T

\* Stripped, granted back, and the denied reads revoked last.
gateway_statements(T) ==
    (Select(T) \cup ({"insert"} \X GATEWAY_WRITABLE_TABLES) \cup GATEWAY_BINDING_GRANTS)
      \ Select(GATEWAY_DENIED_READ_TABLES)
agent_statements(T) ==
    Select(AGENT_READ_TABLES \cup AGENT_WRITABLE_TABLES \cup AGENT_APPEND_ONLY_TABLES)
      \cup ({"insert"} \X (AGENT_WRITABLE_TABLES \cup AGENT_APPEND_ONLY_TABLES))
      \cup ({"update"} \X (AGENT_WRITABLE_TABLES \cup {"nodes.lock_domain_id",
                              "models.manifest_digest", "models.capacity_validated"}))
admin_statements(T) == DML(T)

\* What an account gets on a table created after its privileges were set.
Default(account, T) == IF account = "gateway" THEN Select(T) ELSE DML(T)

-----------------------------------------------------------------------------
(* The job, the release that runs beside it, and a downgrade by hand.       *)

Roles == {"gateway", "admin", "agent"}
AtRest == {"none", "failed", "serving"}
Working == {"upgrade", "roles", "node", "models", "documents"}

TRANSIENT_RECONCILIATION(state) ==
    CASE state \in {"downloading", "loading"} -> "error"
      [] state = "unloading" -> "loaded"
      [] OTHER -> state

\* An earlier release left the database at some revision, with privileges it
\* may have set otherwise than this one, and is running.
Init ==
    /\ rev \in Stops
    /\ db = Built[rev]
    /\ defaults \in {{}, {"gateway", "admin"}}
    /\ \E L \in SUBSET Leftover :
          grants = [a \in Roles |->
                      IF a = "gateway" THEN {g \in L : g[2] \in db.tables} ELSE {}]
    /\ code = rev
    /\ job = "none"
    /\ alone = FALSE
    /\ refused = {}

\* The running release writes a row its own schema accepts.  The database takes
\* it if it still has the table, has no column the release does not know and
\* cannot leave out, and its constraints are met.
Write(r) ==
    /\ code # 0
    /\ r \notin db.rows /\ Cardinality({x \in db.rows : x.table \in Watched}) < MaxRows
    /\ References(r) \subseteq db.rows
    /\ LET known == Built[code] IN
       /\ r.table \in known.tables
       /\ \A c \in known.checks : Meets(r, c)
       /\ IF /\ r.table \in db.tables
             /\ \A c \in db.columns :
                   c.table = r.table /\ c.kind = "required" => c \in known.columns
             /\ \A c \in db.checks : Meets(r, c)
            THEN db' = [db EXCEPT !.rows = @ \cup {r}] /\ UNCHANGED refused
            ELSE refused' = refused \cup {<<r.table, code>>} /\ UNCHANGED db
    /\ UNCHANGED <<rev, grants, defaults, code, job, alone>>

\* The host goes down, or the stack is taken down, with the release on it.
StopRelease ==
    /\ code # 0 /\ job \in AtRest
    /\ code' = 0 /\ job' = "none"
    /\ UNCHANGED <<rev, db, grants, defaults, alone, refused>>

Deploy ==
    /\ job \in AtRest
    /\ job' = "upgrade"
    /\ alone' = (code = 0)
    /\ UNCHANGED <<rev, db, grants, defaults, code, refused>>

\* Privileges follow the tables: those dropped take theirs along, those created
\* get the default ones.
Regranted(d) ==
    [a \in Roles |->
       {g \in grants[a] : g[2] \in db.tables => g[2] \in d.tables}
         \cup (IF a \in defaults THEN Default(a, d.tables \ db.tables) ELSE {})]

UpgradeHead ==
    /\ job = "upgrade"
    /\ LET d == Upgraded(db, rev) IN
       IF d.ok
         THEN /\ db' = d /\ rev' = Latest /\ grants' = Regranted(d) /\ job' = "roles"
              /\ UNCHANGED refused
         ELSE /\ refused' = refused \cup {<<"upgrade", rev>>} /\ job' = "failed"
              /\ UNCHANGED <<rev, db, grants>>
    /\ UNCHANGED <<defaults, code, alone>>

\* One transaction.  The agent's account is set where its secret is mounted.
provision_roles ==
    /\ job = "roles"
    /\ \E mounted \in BOOLEAN :
          grants' = [grants EXCEPT
                       !["gateway"] = gateway_statements(db.tables),
                       !["admin"] = @ \cup admin_statements(db.tables),
                       !["agent"] = IF mounted THEN agent_statements(db.tables) ELSE @]
    /\ defaults' = {"gateway", "admin"}
    /\ job' = "node"
    /\ UNCHANGED <<rev, db, code, alone, refused>>

\* The three transactions of provision.
save_node ==
    /\ job = "node"
    /\ db' = [db EXCEPT !.rows = @ \cup {Row("nodes", "row")}]
    /\ job' = "models"
    /\ UNCHANGED <<rev, grants, defaults, code, alone, refused>>

reconcile_transient_states ==
    /\ job = "models"
    /\ db' = [db EXCEPT !.rows =
                {IF r.table = "models" THEN Row("models", TRANSIENT_RECONCILIATION(r.trait)) ELSE r :
                   r \in db.rows}]
    /\ job' = "documents"
    /\ UNCHANGED <<rev, grants, defaults, code, alone, refused>>

reconcile_transient_documents ==
    /\ job = "documents"
    /\ db' = [db EXCEPT !.rows =
                {IF r.table = "knowledge_documents" /\ r.trait = "processing"
                   THEN Owned(r.tenant, r.table, "failed") ELSE r : r \in db.rows}]
    /\ job' = "ready"
    /\ UNCHANGED <<rev, grants, defaults, code, alone, refused>>

\* The applications of the head revision replace those that ran.
Start ==
    /\ job = "ready"
    /\ job' = "serving" /\ code' = Latest
    /\ UNCHANGED <<rev, db, grants, defaults, alone, refused>>

\* The job dies, or is given up, between two transactions: a part that did not
\* commit left nothing.
JobFails ==
    /\ job \in Working
    /\ job' = "failed"
    /\ UNCHANGED <<rev, db, grants, defaults, code, alone, refused>>

\* Back to an earlier release: its schema, then its applications.
DowngradeTo(r) ==
    /\ job \in AtRest /\ r < rev
    /\ LET d == Downgraded(db, rev, r) IN
       IF d.ok
         THEN /\ db' = d /\ rev' = r /\ code' = r /\ grants' = Regranted(d)
              /\ job' = "none"
              /\ UNCHANGED refused
         ELSE /\ refused' = refused \cup {<<"downgrade", r>>}
              /\ UNCHANGED <<rev, db, code, grants, job>>
    /\ UNCHANGED <<defaults, alone>>

Next ==
    \/ \E t \in Watched : \E r \in RowsOf(t) : Write(r)
    \/ StopRelease \/ Deploy
    \/ UpgradeHead \/ provision_roles \/ save_node
    \/ reconcile_transient_states \/ reconcile_transient_documents
    \/ Start \/ JobFails
    \/ \E r \in Stops : DowngradeTo(r)

Spec == Init /\ [][Next]_vars

-----------------------------------------------------------------------------
(* Properties.                                                              *)

TypeOK ==
    /\ rev \in 0..Latest /\ code \in 0..Latest
    /\ db.ok
    /\ job \in AtRest \cup Working \cup {"ready"}

\* Whatever upgrades, downgrades and failed jobs came before, the schema is the
\* one the chain builds up to the revision the database is stamped with, and
\* what a finished job leaves fits the code it starts: every column its rows
\* name is there, none they leave out is missing a value.
SchemaFits ==
    /\ Schema(db) = Schema(Built[rev])
    /\ job \in {"ready", "serving"} => Fits(db)

\* A finished job leaves the gateway no read of a denied table and no write but
\* its own, the agent no change of its evidence, whatever releases before left.
AccountsShut ==
    job \in {"ready", "serving"} =>
      /\ \A g \in grants["gateway"] :
            \/ g[1] = "select" /\ g[2] \notin GATEWAY_DENIED_READ_TABLES
            \/ g[1] = "insert" /\ g[2] \in GATEWAY_WRITABLE_TABLES \cup {"request_bindings",
                                                                         "request_attempts"}
            \/ g \in GATEWAY_BINDING_GRANTS
      /\ \A g \in grants["agent"] :
            g[1] \in {"update", "delete"} => g[2] \notin AGENT_APPEND_ONLY_TABLES

\* A downgrade is never refused; an upgrade is only by rows from before the
\* constraints were tightened; and no release since the tenants came has a
\* write turned away while the next one is deployed over it.
NothingInTheWay ==
    \A x \in refused :
      CASE x[1] = "upgrade" -> x[2] = 1
        [] x[1] = "downgrade" -> FALSE
        [] OTHER -> Chain[x[2] + 1] \in {tighten_constraints, add_users_created_at,
                                         add_api_keys_created_at, add_tenants}

\* Deployed over a stack that is down, the job leaves no model and no document
\* in a state only a running operation may be in.
NothingStranded ==
    job = "ready" /\ alone =>
      \A r \in db.rows : r.trait \notin {"downloading", "loading", "unloading", "processing"}

\* An upgrade loses no row, and gives every tenant an epoch that asks for a
\* rebuild exactly if the tenant has documents indexed before epochs were kept.
UpgradeKeeps ==
    rev' > rev =>
      /\ db.rows \subseteq db'.rows
      /\ "knowledge_tenant_epochs" \notin db.tables =>
           \A t \in {r \in db.rows : r.table = "tenants"} :
             LET has == \E r \in db.rows : t \in References(r) IN
             /\ Owned(t.tenant, "knowledge_tenant_epochs", "rebuild") \in db'.rows <=> has
             /\ Owned(t.tenant, "knowledge_tenant_epochs", "fresh") \in db'.rows <=> ~ has

=============================================================================
