------------------------------ MODULE Catalogue ------------------------------
(***************************************************************************)
(* The registry the gateway routes by: nodes, models and routing policies, *)
(* the administrators who edit them, the heartbeat that writes what it      *)
(* observes of the nodes, and the availability rehearsal.                   *)
(*                                                                         *)
(* Every administrative request is one transaction: it reads rows, decides,*)
(* often asks a runtime something in between, and commits.  It is two or    *)
(* three steps here, and other requests, the heartbeats of the two admin    *)
(* entrances and the model lifecycle commit between them.  The database     *)
(* refuses a duplicate alias and a model without its node; nothing ties the *)
(* aliases a policy names to the models.                                    *)
(***************************************************************************)
EXTENDS Integers, FiniteSets, Sequences, SequencesExt

CONSTANTS
    None,           \* no row
    Nodes,          \* node ids
    Models,         \* model ids
    Aliases,        \* model aliases
    Kinds,          \* RuntimeKind: {"ollama"} or {"ollama", "mlx"}
    Capabilities,   \* ROUTABLE_CAPABILITIES
    AgentsEnabled,  \* whether runtimes are reached through node agents
    LocalNode,      \* the node provisioning writes (settings.node_id)
    Catalogues,     \* the catalogues a behaviour may start from
    Admins,         \* administrative requests in flight at once
    Sweepers,       \* heartbeats: one per admin entrance
    Ops,            \* bound: the operations this instance performs
    Requirements,   \* bound: requirement documents an administrator writes
    Priorities,     \* bound: candidate priorities an administrator writes
    MaxCandidates,  \* bound: candidates of one policy
    Memories        \* bound: memory figures of a node and of a model

CatalogueAssumption ==
    /\ Kinds \subseteq {"ollama", "mlx"}
    /\ AgentsEnabled \in BOOLEAN
    /\ LocalNode \in Nodes
    /\ Requirements \subseteq [states: SUBSET {"downloaded", "loaded"},
                                statuses: SUBSET {"online", "degraded"}, memory: BOOLEAN]
    /\ Priorities \subseteq Nat
    /\ MaxCandidates \in Nat
    /\ Memories \subseteq Nat /\ 1 \in Memories

VARIABLES
    node,        \* nodes
    model,       \* models
    policy,      \* routing_policies
    unused,      \* model ids not yet given out
    unresolved,  \* nodes with an operation whose outcome is unknown
    up,          \* <<node, kind>> whose runtime answers a health check
    admin,       \* administrative requests between their steps
    sweep,       \* heartbeats: the rows read and the nodes still to probe
    gauge        \* metrics: capability_available, None where not set

vars == <<node, model, policy, unused, unresolved, up, admin, sweep, gauge>>

Statuses == {"online", "degraded", "offline"}
States == {"not_downloaded", "downloading", "downloaded", "loading", "loaded",
           "unloading", "error"}
DELETABLE_STATES == {"not_downloaded", "downloaded", "error"}
TRANSIENT_RECONCILIATION ==
    [s \in {"downloading", "loading", "unloading"} |->
        IF s = "unloading" THEN "loaded" ELSE "error"]

NodeRow == [runtimes: SUBSET Kinds, mem: Memories, agent: BOOLEAN, status: Statuses]
ModelRow == [alias: Aliases, kind: Kinds, node: Nodes, state: States, mem: Memories,
             obs: {None, "loaded", "downloaded", "not_downloaded"}, fresh: BOOLEAN,
             desired: BOOLEAN]

\* A candidate and its requirement document: model states and node statuses it
\* accepts (none named: any), and whether it asks for free memory.
Candidate == [alias: Aliases, priority: Priorities, require: Requirements]

Idle == [pc |-> "idle"]
Registered == {m \in Models : model[m] # None}
Known == {n \in Nodes : node[n] # None}
Aliased(a) == {m \in Registered : model[m].alias = a}

(***************************************************************************)
(* Routing and its rehearsal                                               *)
(***************************************************************************)

\* RuntimeDirectory.for_node: with agents, only Ollama on a node that has one.
Adapter(n, kind) ==
    IF AgentsEnabled THEN n # None /\ n.agent /\ kind = "ollama" ELSE kind \in Kinds

\* RoutingService.rejection.  Ollama needs a fresh positive observation; no
\* caller supplies a free-memory figure, so asking for one is a refusal.
rejection(require, m) ==
    LET effective == IF m.obs = None THEN m.state ELSE m.obs
        status == node[m.node].status
    IN  IF status # "online" \/ (require.statuses # {} /\ status \notin require.statuses)
        THEN "node_unhealthy"
        ELSE IF m.kind = "ollama" /\ m.obs = None THEN "residency_unknown"
        ELSE IF m.kind = "ollama" /\ ~m.fresh THEN "residency_stale"
        ELSE IF m.kind = "ollama" /\ m.obs # "loaded" THEN "model_not_resident"
        ELSE IF require.states # {} /\ effective \notin require.states THEN "model_state_mismatch"
        ELSE IF require.memory THEN "insufficient_memory"
        ELSE None

\* Candidates in the order routing tries them: highest priority first, the
\* stored order among equals.
Before(cs, i, j) ==
    cs[i].priority > cs[j].priority \/ (cs[i].priority = cs[j].priority /\ i < j)

Eligible(cs, i) ==
    \E m \in Aliased(cs[i].alias) :
        model[m].node \in Known /\ rejection(cs[i].require, model[m]) = None

\* RoutingService.select: the models a request may be sent to, one or none.
select(cs) ==
    UNION {Aliased(cs[i].alias) : i \in {j \in DOMAIN cs : /\ Eligible(cs, j)
                                           /\ \A k \in DOMAIN cs : Before(cs, k, j)
                                                => ~Eligible(cs, k)}}

\* What a request for a capability meets: a policy, the model routing selects,
\* an adapter for it on its node, and the agent's gate.
Served(cap) ==
    /\ policy[cap] # None
    /\ \E m \in select(policy[cap]) : /\ Adapter(node[model[m].node], model[m].kind)
                                      /\ model[m].node \notin unresolved

\* Why one candidate of a policy nothing was selected from cannot serve.
Reason(c) ==
    IF Aliased(c.alias) = {} THEN "model_missing"
    ELSE LET m == model[CHOOSE x \in Aliased(c.alias) : TRUE]
         IN  IF m.node \notin Known THEN "node_missing"
             ELSE IF m.node \in unresolved THEN "node_operation_unresolved"
             ELSE IF ~Adapter(node[m.node], m.kind) THEN "runtime_unavailable"
             ELSE rejection(c.require, m)

\* Mutant: a capability is available when any eligible candidate passes the gates.
AssessAnyCandidate(cap) ==
    LET cs == policy[cap]
    IN  IF cs = None THEN [enabled |-> FALSE, available |-> FALSE, reasons |-> {"no_policy"}]
        ELSE LET ok == {i \in DOMAIN cs : /\ Eligible(cs, i)
                                          /\ \E m \in Aliased(cs[i].alias) :
                                               /\ Adapter(node[model[m].node], model[m].kind)
                                               /\ model[m].node \notin unresolved}
             IN  [enabled |-> TRUE, available |-> ok # {},
                  reasons |-> IF ok # {} THEN {} ELSE {Reason(cs[i]) : i \in DOMAIN cs}]

\* assess_availability: routing's own selector, then the selected model's
\* adapter and its node's gate; reasons where nothing was selected.
assess_availability(cap) ==
    LET cs == policy[cap]
        Gates(m) == (IF model[m].node \in unresolved THEN {"node_operation_unresolved"} ELSE {})
                    \cup (IF Adapter(node[model[m].node], model[m].kind) THEN {}
                          ELSE {"runtime_unavailable"})
        reasons == {Reason(cs[i]) : i \in DOMAIN cs} \ {None}
    IN  CASE cs = None ->
               [enabled |-> FALSE, available |-> FALSE, reasons |-> {"no_policy"}]
          [] cs # None /\ select(cs) = {} ->
               [enabled |-> TRUE, available |-> FALSE,
                reasons |-> IF reasons = {} THEN {"no_eligible_model"} ELSE reasons]
          [] OTHER ->
               LET gates == UNION {Gates(m) : m \in select(cs)}
               IN  [enabled |-> TRUE, available |-> gates = {}, reasons |-> gates]

\* Mutant: gauges of capabilities that lost their policy are left standing.
PublishWithoutClear ==
    /\ "publish" \in Ops
    /\ gauge' = [cap \in Capabilities |->
                   LET a == assess_availability(cap)
                   IN  IF a.enabled THEN (IF a.available THEN 1 ELSE 0) ELSE gauge[cap]]
    /\ UNCHANGED <<node, model, policy, unused, unresolved, up, admin, sweep>>

\* run_availability: one REPEATABLE READ snapshot, the gauges cleared and set.
Publish ==
    /\ "publish" \in Ops
    /\ gauge' = [cap \in Capabilities |->
                   LET a == assess_availability(cap)
                   IN  IF a.enabled THEN (IF a.available THEN 1 ELSE 0) ELSE None]
    /\ UNCHANGED <<node, model, policy, unused, unresolved, up, admin, sweep>>

(***************************************************************************)
(* Models: ModelRegistryMixin                                              *)
(***************************************************************************)

Begin(a, step) == admin[a] = Idle /\ admin' = [admin EXCEPT ![a] = step]
End(a) == admin' = [admin EXCEPT ![a] = Idle]

\* _referenced_by_policy.
Referenced(alias) ==
    \E cap \in Capabilities : /\ policy[cap] # None
                              /\ \E i \in DOMAIN policy[cap] : policy[cap][i].alias = alias

\* What the database accepts for a model row: its node exists, its alias is its own.
Acceptable(m, r) == r.node \in Known /\ Aliased(r.alias) \subseteq {m}

\* Mutant: the row written back carries the residency intent that was read.
SaveEverything(m, r) == model' = [model EXCEPT ![m] = r]

\* PostgresModelRepository.save: the row read earlier has been mapped and let go,
\* so the merge reads it afresh and every column of the entity but the residency
\* intent is written over it; an insert where the row has gone.
save(m, r) ==
    model' = [model EXCEPT ![m] =
                [r EXCEPT !.desired = model[m] # None /\ model[m].desired]]

\* register, up to its save: the node exists and the alias is free; the runtime
\* is asked for the declared context before the save.
RegisterRead(a, m) ==
    /\ "register" \in Ops
    /\ m \in unused
    /\ unused' = unused \ {m}
    /\ \E n \in Known, alias \in Aliases, kind \in Kinds, mem \in Memories :
         /\ Aliased(alias) = {}
         /\ Adapter(node[n], kind)
         /\ Begin(a, [pc |-> "save", model |-> m,
                      row |-> [alias |-> alias, kind |-> kind, node |-> n,
                               state |-> "not_downloaded", mem |-> mem, obs |-> None,
                               fresh |-> FALSE, desired |-> FALSE]])
    /\ UNCHANGED <<node, model, policy, unresolved, up, sweep, gauge>>

\* update, up to its save: a rename of a bound alias, a repointing of what is
\* on disk (its node stands for its reference and runtime too) and a new memory
\* profile of a loaded model are refused on the row as read; then the runtime is
\* asked for the declared context.
UpdateRead(a, m) ==
    /\ "update" \in Ops
    /\ m \in Registered
    /\ \E alias \in Aliases, n \in Known, mem \in Memories :
         LET r == model[m]
         IN  /\ alias # r.alias => Aliased(alias) = {} /\ ~Referenced(r.alias)
             /\ r.state # "not_downloaded" => n = r.node
             /\ r.state = "loaded" => mem = r.mem
             /\ Adapter(node[n], r.kind)
             /\ Begin(a, [pc |-> "save", model |-> m,
                          row |-> [r EXCEPT !.alias = alias, !.node = n, !.mem = mem]])
    /\ UNCHANGED <<node, model, policy, unused, unresolved, up, sweep, gauge>>

\* The save and the commit; the database's refusal rolls the request back.
SaveModel(a) ==
    /\ admin[a].pc = "save"
    /\ LET m == admin[a].model
           r == admin[a].row
       IN  IF Acceptable(m, r) THEN save(m, r) ELSE UNCHANGED model
    /\ End(a)
    /\ UNCHANGED <<node, policy, unused, unresolved, up, sweep, gauge>>

\* delete, up to its statement: the model is at rest and no policy names it.
DeleteRead(a, m) ==
    /\ "delete" \in Ops
    /\ m \in Registered
    /\ model[m].state \in DELETABLE_STATES
    /\ ~Referenced(model[m].alias)
    /\ Begin(a, [pc |-> "delete", model |-> m])
    /\ UNCHANGED <<node, model, policy, unused, unresolved, up, sweep, gauge>>

DeleteModel(a) ==
    /\ admin[a].pc = "delete"
    /\ model' = [model EXCEPT ![admin[a].model] = None]
    /\ End(a)
    /\ UNCHANGED <<node, policy, unused, unresolved, up, sweep, gauge>>

(***************************************************************************)
(* Policies: ManageRoutingPolicies                                         *)
(***************************************************************************)

\* The stored order: ascending priority, the order given among equals.
Ordered(cs) ==
    LET order == SetToSortSeq(DOMAIN cs, LAMBDA i, j :
                     cs[i].priority < cs[j].priority
                       \/ (cs[i].priority = cs[j].priority /\ i < j))
    IN  [i \in DOMAIN cs |-> cs[order[i]]]

\* save, up to its statement: every candidate's alias is registered.
PolicyRead(a, cap) ==
    /\ "policy" \in Ops
    /\ \E size \in 1 .. MaxCandidates : \E cs \in [1 .. size -> Candidate] :
         /\ \A i \in 1 .. size : Aliased(cs[i].alias) # {}
         /\ Begin(a, [pc |-> "policy", cap |-> cap, candidates |-> Ordered(cs)])
    /\ UNCHANGED <<node, model, policy, unused, unresolved, up, sweep, gauge>>

PolicySave(a) ==
    /\ admin[a].pc = "policy"
    /\ policy' = [policy EXCEPT ![admin[a].cap] = admin[a].candidates]
    /\ End(a)
    /\ UNCHANGED <<node, model, unused, unresolved, up, sweep, gauge>>

\* delete: a policy that exists, in one statement.
PolicyDelete(cap) ==
    /\ "unpolicy" \in Ops
    /\ policy[cap] # None
    /\ policy' = [policy EXCEPT ![cap] = None]
    /\ UNCHANGED <<node, model, unused, unresolved, up, admin, sweep, gauge>>

(***************************************************************************)
(* Nodes: ManageNodes, the heartbeat and provisioning                      *)
(***************************************************************************)

\* RuntimeNodeHealth.probe: every declared runtime that resolves is asked; a
\* node none of whose runtimes resolve is offline.
probe(n, r) ==
    LET asked == {kind \in r.runtimes : Adapter(r, kind)}
        healthy == {kind \in asked : <<n, kind>> \in up}
    IN  CASE healthy = {}    -> "offline"
          [] healthy = asked -> "online"
          [] OTHER           -> "degraded"

\* register: the status is observed, never taken from the form.
NodeRegister(n) ==
    /\ "node" \in Ops
    /\ n \notin Known
    /\ \E kinds \in (SUBSET Kinds) \ {{}}, mem \in Memories :
         LET r == [runtimes |-> kinds, mem |-> mem, agent |-> FALSE, status |-> "offline"]
         IN  node' = [node EXCEPT ![n] = [r EXCEPT !.status = probe(n, r)]]
    /\ UNCHANGED <<model, policy, unused, unresolved, up, admin, sweep, gauge>>

\* update, its read: the form's columns over the row as it stood.
NodeUpdateRead(a, n) ==
    /\ "node" \in Ops
    /\ n \in Known
    /\ \E kinds \in (SUBSET Kinds) \ {{}}, mem \in Memories :
         Begin(a, [pc |-> "probe", node |-> n, check |-> FALSE,
                   row |-> [node[n] EXCEPT !.runtimes = kinds, !.mem = mem]])
    /\ UNCHANGED <<node, model, policy, unused, unresolved, up, sweep, gauge>>

\* check_health, its read.
CheckHealth(a, n) ==
    /\ "check" \in Ops
    /\ n \in Known
    /\ Begin(a, [pc |-> "probe", node |-> n, check |-> TRUE, row |-> node[n]])
    /\ UNCHANGED <<node, model, policy, unused, unresolved, up, sweep, gauge>>

\* The probe of update and of check_health, of the row each holds.
AdminProbe(a) ==
    /\ admin[a].pc = "probe"
    /\ admin' = [admin EXCEPT ![a] =
                   [@ EXCEPT !.pc = IF admin[a].check THEN "status" ELSE "node",
                             !.row.status = probe(admin[a].node, admin[a].row)]]
    /\ UNCHANGED <<node, model, policy, unused, unresolved, up, sweep, gauge>>

\* update, its save: every column, an insert where the row has gone.
NodeSave(a) ==
    /\ admin[a].pc = "node"
    /\ node' = [node EXCEPT ![admin[a].node] = admin[a].row]
    /\ End(a)
    /\ UNCHANGED <<model, policy, unused, unresolved, up, sweep, gauge>>

\* set_status: that one column, of a row that exists.
set_status(n, s) ==
    node' = IF n \in Known THEN [node EXCEPT ![n].status = s] ELSE node

\* check_health, its write.
StatusWrite(a) ==
    /\ admin[a].pc = "status"
    /\ set_status(admin[a].node, admin[a].row.status)
    /\ End(a)
    /\ UNCHANGED <<model, policy, unused, unresolved, up, sweep, gauge>>

\* delete, up to its statement: no model is attached to the node.
NodeDeleteRead(a, n) ==
    /\ "undeclare" \in Ops
    /\ n \in Known
    /\ \A m \in Registered : model[m].node # n
    /\ Begin(a, [pc |-> "undeclare", node |-> n])
    /\ UNCHANGED <<node, model, policy, unused, unresolved, up, sweep, gauge>>

\* delete, its statement: the foreign key refuses a node with a model.
NodeDelete(a) ==
    /\ admin[a].pc = "undeclare"
    /\ node' = IF \E m \in Registered : model[m].node = admin[a].node THEN node
               ELSE [node EXCEPT ![admin[a].node] = None]
    /\ End(a)
    /\ UNCHANGED <<model, policy, unused, unresolved, up, sweep, gauge>>

\* A heartbeat begins: the nodes as they stand.
SweepRead(s) ==
    /\ "sweep" \in Ops
    /\ sweep[s] = Idle
    /\ Known # {}
    /\ sweep' = [sweep EXCEPT ![s] = [pc |-> "probe", rows |-> node, left |-> Known]]
    /\ UNCHANGED <<node, model, policy, unused, unresolved, up, admin, gauge>>

\* The sweep goes on with the nodes left, or ends.
SweepOn(s, left) ==
    IF left = {} THEN Idle ELSE [pc |-> "probe", rows |-> sweep[s].rows, left |-> left]

\* sweep: the next node is probed as it was read; an observation equal to the
\* status read is not written.
SweepProbe(s) ==
    /\ sweep[s].pc = "probe"
    /\ \E n \in sweep[s].left :
         LET observed == probe(n, sweep[s].rows[n])
         IN  sweep' = [sweep EXCEPT ![s] =
                         IF observed = sweep[s].rows[n].status
                         THEN SweepOn(s, sweep[s].left \ {n})
                         ELSE [pc |-> "write", rows |-> sweep[s].rows, node |-> n,
                               observed |-> observed, left |-> sweep[s].left \ {n}]]
    /\ UNCHANGED <<node, model, policy, unused, unresolved, up, admin, gauge>>

\* sweep: the status observed is written, in a transaction of its own.
SweepWrite(s) ==
    /\ sweep[s].pc = "write"
    /\ set_status(sweep[s].node, sweep[s].observed)
    /\ sweep' = [sweep EXCEPT ![s] = SweepOn(s, sweep[s].left)]
    /\ UNCHANGED <<model, policy, unused, unresolved, up, admin, gauge>>

\* provision, run at every deploy: the local node is merged as online.
Provision(a) ==
    /\ "provision" \in Ops
    /\ node' = [node EXCEPT ![LocalNode] =
                  [runtimes |-> {"ollama"}, mem |-> 1, agent |-> AgentsEnabled,
                   status |-> "online"]]
    /\ Begin(a, [pc |-> "reconcile"])
    /\ UNCHANGED <<model, policy, unused, unresolved, up, sweep, gauge>>

\* provision, its second transaction: states a crash stranded are settled.
Reconcile(a) ==
    /\ admin[a].pc = "reconcile"
    /\ model' = [m \in Models |->
                   IF m \in Registered /\ model[m].state \in DOMAIN TRANSIENT_RECONCILIATION
                   THEN [model[m] EXCEPT !.state = TRANSIENT_RECONCILIATION[@]]
                   ELSE model[m]]
    /\ End(a)
    /\ UNCHANGED <<node, policy, unused, unresolved, up, sweep, gauge>>

(***************************************************************************)
(* What the rest of the platform writes and observes                       *)
(***************************************************************************)

\* The lifecycle writes a state (Residency says when); the observation goes
\* with it.
SetState(m, state) ==
    /\ "lifecycle" \in Ops
    /\ m \in Registered
    /\ state # model[m].state
    /\ model' = [model EXCEPT ![m].state = state, ![m].obs = None, ![m].fresh = FALSE]
    /\ UNCHANGED <<node, policy, unused, unresolved, up, admin, sweep, gauge>>

\* set_observed, by a heartbeat's model sweep.
SetObserved(m, obs) ==
    /\ "observe" \in Ops
    /\ m \in Registered
    /\ model' = [model EXCEPT ![m].obs = obs, ![m].fresh = obs # None]
    /\ UNCHANGED <<node, policy, unused, unresolved, up, admin, sweep, gauge>>

\* An observation passes RESIDENCY_MAX_AGE_SECONDS.
GoesStale(m) ==
    /\ m \in Registered
    /\ model[m].fresh
    /\ model' = [model EXCEPT ![m].fresh = FALSE]
    /\ UNCHANGED <<node, policy, unused, unresolved, up, admin, sweep, gauge>>

\* set_desired_residency: the intent alone, in one statement.
SetDesired(m, d) ==
    /\ "desire" \in Ops
    /\ m \in Registered
    /\ model' = [model EXCEPT ![m].desired = d]
    /\ UNCHANGED <<node, policy, unused, unresolved, up, admin, sweep, gauge>>

\* A node's operation outcome becomes unknown, or is resolved (NodeAgent).
Unresolve(n) ==
    /\ "unresolve" \in Ops
    /\ unresolved' = IF n \in unresolved THEN unresolved \ {n} ELSE unresolved \cup {n}
    /\ UNCHANGED <<node, model, policy, unused, up, admin, sweep, gauge>>

\* A runtime stops or starts answering.
HealthFlips(n, kind) ==
    /\ "health" \in Ops
    /\ up' = IF <<n, kind>> \in up THEN up \ {<<n, kind>>} ELSE up \cup {<<n, kind>>}
    /\ UNCHANGED <<node, model, policy, unused, unresolved, admin, sweep, gauge>>

Init ==
    /\ \E c \in Catalogues : /\ node = c.node
                             /\ model = c.model
                             /\ policy = c.policy
    /\ unused = {m \in Models : model[m] = None}
    /\ unresolved = {}
    /\ up = Nodes \X Kinds
    /\ admin = [a \in Admins |-> Idle]
    /\ sweep = [s \in Sweepers |-> Idle]
    /\ gauge = [cap \in Capabilities |-> None]

Commit(a) ==
    \/ SaveModel(a) \/ DeleteModel(a) \/ PolicySave(a)
    \/ AdminProbe(a) \/ NodeSave(a) \/ StatusWrite(a) \/ NodeDelete(a) \/ Reconcile(a)

Request(a) ==
    \/ \E m \in Models : RegisterRead(a, m) \/ UpdateRead(a, m) \/ DeleteRead(a, m)
    \/ \E cap \in Capabilities : PolicyRead(a, cap)
    \/ \E n \in Nodes : NodeUpdateRead(a, n) \/ CheckHealth(a, n) \/ NodeDeleteRead(a, n)
    \/ Provision(a)

Heartbeat(s) == SweepRead(s) \/ SweepProbe(s) \/ SweepWrite(s)

Environment ==
    \/ \E m \in Models, state \in States : SetState(m, state)
    \/ \E m \in Models, obs \in {None, "loaded", "downloaded"} : SetObserved(m, obs)
    \/ \E m \in Models : GoesStale(m)
    \/ \E m \in Models, d \in BOOLEAN : SetDesired(m, d)
    \/ \E n \in Nodes : Unresolve(n)
    \/ \E n \in Nodes, kind \in Kinds : HealthFlips(n, kind)

Next ==
    \/ \E a \in Admins : Request(a) \/ Commit(a)
    \/ \E cap \in Capabilities : PolicyDelete(cap)
    \/ \E n \in Nodes : NodeRegister(n)
    \/ \E s \in Sweepers : Heartbeat(s)
    \/ Publish
    \/ Environment

Spec == Init /\ [][Next]_vars

(***************************************************************************)
(* Properties                                                              *)
(***************************************************************************)

\* Every row holds the columns and keeps the constraints its table gives it, and
\* every request and heartbeat is at a step of its handler.
TypeOK ==
    /\ node \in [Nodes -> NodeRow \cup {None}]
    /\ model \in [Models -> ModelRow \cup {None}]
    /\ \A cap \in Capabilities :
         policy[cap] # None
           => Len(policy[cap]) \in 1 .. MaxCandidates /\ ToSet(policy[cap]) \subseteq Candidate
    /\ \A m \in Registered : model[m].node \in Known /\ Aliased(model[m].alias) = {m}
    /\ unused \subseteq Models
    /\ unresolved \subseteq Nodes
    /\ up \subseteq Nodes \X Kinds
    /\ \A a \in Admins : admin[a].pc \in {"idle", "save", "delete", "policy", "probe",
                                           "node", "status", "undeclare", "reconcile"}
    /\ \A s \in Sweepers : sweep[s].pc \in {"idle", "probe", "write"}
    /\ gauge \in [Capabilities -> {0, 1, None}]

\* The rehearsal says of every capability what a request for it would meet: it
\* is available exactly when the request would reach a runtime, and where it is
\* not the reasons name why, never the fallback of not knowing.
RehearsalHonest ==
    \A cap \in Capabilities :
        LET a == assess_availability(cap)
        IN  /\ a.available <=> Served(cap)
            /\ a.available <=> a.reasons = {}
            /\ "no_eligible_model" \notin a.reasons

\* What the gauge says of a capability.
Announced(cap) == gauge[cap] = 1

\* A node's configuration is changed by nothing but an administrator's save, its
\* registration or removal and provisioning: a heartbeat or a health check that
\* read the row before an edit does not undo it (the targeted status write).
ConfigurationKept ==
    \A n \in Nodes :
      (node[n] # None /\ node'[n] # None
         /\ <<node[n].runtimes, node[n].mem>> # <<node'[n].runtimes, node'[n].mem>>)
        =>
      \E a \in Admins : Provision(a) \/ (admin[a].pc = "node" /\ admin[a].node = n)

\* A node nobody administers and a probe of which would say s.
Probed(n, s) ==
    /\ node[n] # None /\ probe(n, node[n]) = s
    /\ \A a \in Admins : admin[a] = Idle
Says(n, s) == node[n] # None /\ node[n].status = s

\* A registry edit in flight never reverts a residency intent written meanwhile
\* (ModelRow's reason for leaving the column out of the mapper).
IntentKept ==
    \A m \in Models :
      (model[m] # None /\ model'[m] # None /\ model[m].desired # model'[m].desired)
        =>
      \A a \in Admins : admin'[a] = admin[a]

==============================================================================
