# Verification of RCSL AI Nexus

RCSL AI Nexus is a self-hosted gateway for language models: a FastAPI backend (a
gateway, two administrative entrances, and a *node agent* per host), a Next.js
frontend, and host scripts run by launchd.  This directory holds TLA+ modules of the
parts whose correctness depends on interleavings, crashes and failing calls, the TLC
configurations that check them on small instances, and TLAPS proofs of the facts that
matter most.

    tlc -workers 2 -config <run>.cfg <module>      # see the table of runs
    tlapm <module>Proofs.tla

Paths below are relative to `src/backend/app/` where they begin with a package.

## Inventory

| Part | State | Operations | What makes it hard |
|---|---|---|---|
| **Operation ledger** `node_agent/store.py` | `node_operations` rows fenced by a generation | insert, promote, cancel, finish, mark unknown, resolve | lost commits, superseded writers, a takeover between any two steps |
| **Dispatcher** `dispatch.py` | gate, slots, tasks, exclusive operation, freeze, event buffers | submit, exclusive, promote, send, settle, drain, reopen, freeze, thaw, interrupt | every `await` between two sections of the barrier |
| **Election and host lock** `election.py`, `lock_domain.py` | generation, boot id, kernel, session lock, flock | claim, takeover, loss of the session | a clone of the volume, a second volume, a dead session PostgreSQL has not noticed |
| **Agent service** `service.py` | the watchdog | start, watch, follow the hold, lose the role, stop | a hold read before and applied after another entry |
| **Resolution of unknowns** `resolution.py`, **supervisor** `node_agent/supervisor.py`, `scripts/host/runtime_supervisor.py`, **witness** | attestations; request, claim and receipt files | reset, runtime control, take, execute, publish, withdraw | a withdrawal racing the claim, a death before the receipt, evidence about the wrong process |
| **Maintenance** `maintenance_coordinator.py`, `manage_maintenance.py`, repositories | the hold and its epoch, an operation with a lease, a step per node | enter, close, interrupt, snapshot, reset, restore, reopen | two coordinators, an expired lease, a call given up on that still takes effect |
| **Request binding** `route_chat_request/binding.py` | binding, attempts | repeat, bind, rebind | a forward that is late, not lost |
| **Usage settlement** `repositories/usage_settlement.py` | usage row, delivery flag | settle, mark, sweep, purge | three writers of one row |
| **Chat orchestration** `route_chat_request/` | slots, the compaction cache, the answer under way | admit, count, compact in three tiers, guard, generate, stream | a count that is stale when used, a reader that stops reading |
| **HTTP edge** `interfaces/http/middleware/` | connection, ambient context | six layers inwards, wrapped `send` outwards | two layers that both answer, context left by the request before |
| **Model lifecycle and residency** `manage_models/`, `reconcile_residency.py`, `infrastructure/heartbeat.py` | state, observation, intent, backoff | load, unload, download, re-pin, restore, observe | intent withdrawn during a load, an answer older than the row it is written to |
| **Registry and routing** `manage_nodes.py`, `manage_routing_policies.py`, `capability_availability.py` | nodes, models, policies, gauges | register, edit, delete, sweep, rehearse | read, ask the runtime, write; two heartbeats |
| **Knowledge** `ingest_document/`, `manage_knowledge/`, `ground_chat.py` | documents, passages, fences, epochs, grounding records | upload, index, re-index, delete, recover, ground, replay | a vector write that lands late, two indexers |
| **Accounts and sessions** `authenticate_local/`, `session_store.py`, `manage_own_account.py`, invitations | account rows, sessions, watermarks, codes, links | sign in, enrol, revoke, edit, invite | lost updates between a read, a slow hash and a save |
| **Administration** `interfaces/http/routers/`, use cases, `domain/entities/actor/` | roles, scopes, tenants, audit trail | some hundred routes | an actor that is a snapshot while accounts change |
| **Gateway limits** `api_key_auth/`, `manage_api_keys/` | keys, windows, quotas | authenticate, count, sum, edit, revoke | requests in flight together read the same sum |
| **Schema and deployment** `alembic/`, `scripts/provision.py`, `scripts/db_roles.py` | schema, privileges, transient rows | upgrade, downgrade, provision | a release writing while the next one's job runs |
| **Host jobs** `launchd/` | state files, snapshots, mails | backup, health pass, boot reconciliation, country refresh | power cuts, overlapping runs, sampling a moving stack |
| Tokenizers, parsers, native code; frontend; evaluation scripts; wire formats | data in, data out | | not modelled |

How they interact.  A gateway *binds* a request to a node and an operation id and
posts it to that node's agent.  The agent records the operation, promotes it (the one
authorisation to send), relays it to the runtime and commits the outcome, while the
events travel through a bounded buffer, an adapter and a generation session to the
client; the gateway and a sweeper *settle* usage from the row.  A *lifecycle*
operation (load, unload, pull, re-pin) drains the node first.  A *maintenance entry*
closes the platform's hold, interrupts every agent, snapshots and resets the runtimes;
a *restore* loads the snapshot back under the hold before reopening it.  The agent's
process may be replaced at any time: the new one takes a higher generation, calls the
running rows `outcome_unknown` and cancels the queued ones.  An unknown blocks the
node until a witness attests that the runtime was restarted.  The administrative
processes run the reconciler, the heartbeats, the coordinator and the sweepers beside
the requests of people; all of them meet in PostgreSQL rows and, at the node, in the
agent.

`PROJECT.json` lists every part with what is modelled of it, forty hazards at the
lines where they bite with the properties that would catch them, and the source lines
of every definition.

## What is modelled

One module per component.  A database transaction is one step, and so is one section
between two awaits; whatever a handler read before an await is a field of its own, so
that the row may change under it.  Faults (a call that raises before or after its
effect, a crash, a lost or late message) are actions an instance switches on.
Definitions named in a `\* Mutant:` comment are faulty variants of the definition
below them; each shows that a property can fail.

**`NodeAgent`** is the core: PostgreSQL's view of one node, any number of agent
processes, and the runtime as something that executes what reached it.

| Variables | Code |
|---|---|
| `generation`, `owner`, `session` | `node_agents.generation`, `.boot_id`, the session-level election lock |
| `opState`, `opGen` | `node_operations.state`, `.owner_generation` |
| `closed`, `epoch` | `maintenance_control` |
| `gate`, `frozenAt`, `exclusive`, `restoring`, `operatorHold`, `uncommitted` | the `Dispatcher`'s fields of those names |
| `task[p][o]` | where the handler or task of process p for operation o stands between two awaits |
| `tick[p]` | what `follow_hold` read and has not applied |
| `baseline[p][o]` | the instance a pending resolution was attested against |
| `instance`, `executing`, `delivered`, `quietAt` | the runtime, what it may still be doing, how often a request reached it, the last reported quiescence: kept for the properties |

    none -> inserting -> queued -> (idle) -> slot -> promoted -> sending -> sent
              |            |                  |  \        |         |        |
              |            +---> unsent <-----+   doubt   withheld  failed   completed
              +--------------> (left)                               uncertain -> marked

An exclusive operation ends through `ending` (`_end_exclusive`), a completed
resolution through `reopening`.  A `Crash` forgets the process and frees its flock, but
PostgreSQL keeps its session until `SessionLost`.  Abstractions:

- The host lock is a flock per kernel and lock domain (`HostLockFree`).  Acquiring it
  and the election are one step, as nothing is shared before the election.
- The lock domain and the kernel bound to the node are those of the owner of record.
  `release_kernel.py`, an operator's override, is left out.
- `StopAgent` stands for SIGTERM, a lost lock file and a failed watchdog alike.
- A second POST of a recorded operation only observes it; it loses at
  `insert_accepted`.  What a cancelled duplicate cleans up is `CancelRoute`'s row.
- A relay is its outcome.  Connection errors and a revision mismatch are `NotSent`; an
  HTTP error, an end of stream, an idle timeout or an exception is `Uncertain`; an
  error answer or `done` is the runtime's own evidence.
- `checkpoint` writes observations only.  Its one effect on the gate, losing the role
  when not owner, cannot happen: `SenderOwnsRow` is proved.
- The witness is the instance number; what it really says is `RuntimeReset`'s subject.

**`OperationLedger`** is the contract a gateway relies on, without processes, locks or
generations: an operation is accepted once, started only while nothing on the node is
unknown, reaches the runtime once, is called unsent only if it never did, and finished
only when the runtime no longer works on it.  `NodeAgent` implements it
(`ImplementsLedger`), and `RequestBinding` uses it in place of `NodeAgent`.

**`RuntimeReset`** is a supervised restart end to end: the supervisor on the host with
its request, claim and receipt files, the agent's routes that ask for a restart (a
maintenance entry's reset, one operation's reset, an operator's control), the
processes of the runtime's account, and the witness's two answers whose difference is
the evidence an unknown outcome is cleared on.  A caller past its deadline withdraws its
request; where the file cannot be removed the code says "withdrawn" all the same, and that
caller ends in `leftover`, with the request still filed and free to run.  `ran`,
`carriers` and `sure` are history.

**`MaintenanceCoordinator`** is an entry and its restore on every node: the operation
with its lease, a step per node, coordinator processes that die and take over, calls
that are given up on and still take effect, resets and loads that nodes carry out once
per id.  Its reset call is the other end of `RuntimeReset`'s.
**`RequestBinding`** is one Idempotency-Key and the copies of the request that carry
it.  A copy's handler looks the key up (`Repeat`), looks at the bound attempt on its
node (`View`), tombstones one the node has not seen (`Tombstone`), binds (`Create`) or
rebinds (`Rebind`) and forwards.  `inFlight` holds the POSTs that may still arrive.
Copies may be routed to different nodes, so one node's refusal to start beside an
unknown is not assumed, and a takeover is one cancelled or unknown operation at a time.
Payloads are compared by a hash that tells them apart.

**`UsageSettlement`** is the usage row of each attempt and all its writers: the
gateway's finalizer, the sweeper with its batch and its memory of what failed, and the
retention purge.  A settlement is two steps, the read of the facts and the insert with
its reconciliation.  Time is the attempt's `age`: fresh, past `SWEEP_HORIZON_DAYS`, past
the retention floor; as the code's one day of margin does, the model assumes that no
stream and no batch lasts from one to the other.

**`Edge`** is what a request passes before a handler sees it at each of the three
entrances, the wrappers each layer puts around `send`, the ambient context that nothing
clears between two requests of a connection, the refusals it keeps, and readiness.

**`ChatAdmission`** is a chat request from its arrival to its generation: scopes, the
floor check, the slot, routing, counting, compaction in three tiers with its cache, the
guard, and the judgement of what the runtime says it read.  A message is an identity
with four measures (the tokens the runtime charges, the estimate, the lower bound and
its bytes) and the lines its text puts into the cache's key: the key is those lines run
together, so two histories may share one, as in the code.  The guard takes the branch of
the runtime it routes to (`Runtimes`), with a registered capacity or none.

**`ChatStream`** is the answer on its way back: the runtime's lines, the attempt's
bounded buffer, the agent's response, the adapters of three runtimes, the generation
session with its ceiling and deadline, and four consumers.  From the adapter up
everything is a chain of suspended generators, so one action reads a line and carries it
all the way; the runtime, the agent and the client interleave with it.

**`Residency`** is the models of one node: what a row says (state, observation,
intent), what the runtime holds, an operator's load, unload and download, the
heartbeat's probe and the reconciler's pass.  Times are what the code compares: an
observation is fresh or stale, the same as last counted or another, near or not.  Every
write of a state may be refused: the write of LOADING fails the request, the writes that end
a load, an unload or a pull are passed over (fault `commit`), and the row keeps its transient
state with nobody to end it (`ghost.stranded`).  The `except` path of a whole pass
(`reconcile_residency.py:187`) is left out: it forgets what the next pass reads anew.
**`WeightPins`** is which weights answer: tag, pin, measurement, the guard, the relay's
second look, pulls, re-pins and hand-made changes.  **`Catalogue`** is the registry the
gateway routes by, its administrators, the heartbeat's node sweep and the rehearsal that
says which capabilities can be served.

**`KnowledgeBase`** is a collection: uploads, ingestion, re-indexing, deletion and
recovery as tasks over a row, a vector store that may apply a write late, the fence and
its epochs, the index's embedding identity, and grounded requests with their records.  A
task's last write may be refused and is passed over (`Commit`; `stranded` remembers where).
`Restart` is the container coming back, which reconciles nothing; `Provision` is the deploy,
which marks what it finds half done as failed, and which with the fault `deploy` also runs
beside a gateway that is still up, with tasks under way.

**`Accounts`** is sign-in with passwords, codes and recovery codes, the throttle,
sessions with watermarks, one's own credentials, administration of accounts,
invitations, the bootstrap and the maintenance sweep of sessions.  A save writes either its
own columns or the whole row as it was read before the hash was computed (`Merged` says
which), and an account that is gone comes back with a whole-row save only.
**`Authority`** is who may do what: roles and scopes as the code defines them, every
route of the administrative entrances with the scope it takes, the tenant an actor's
repositories are built with, the guards on accounts, keys and tenants, and the audit
trail.  A request acts as the account it arrived with, whatever happens to that account
meanwhile.  **`GatewayAccess`** is the gateway's door: a key's row as read once at the
door, the rate window, the trailing day's quota with the wait a refusal announces, and
edits of keys.

**`Deployment`** is the migrate job: every revision's upgrade and downgrade as what it does
to tables, added columns, constraints and rows, the privileges of the three accounts, the
reconciliation of transient rows, and a release that goes on writing. **`HostBackup`**,
**`HostWatch`** and **`HostRepair`** are the nightly backup and the check of its state file;
the health daemon with its mails; the boot reconciler and the refresh of the country
database.  In `HostBackup` a run keeps whether another was under way at its start
(`beside`); in `HostRepair` `rec.broken` are the services a recreate left down, `lost` says
that one went down after the reconciler last looked, and `owed` which enforcing ones still
wait for the restart a refresh could not do. These are kept for the properties.

### Not modelled, and why

The map covers about three tenths of the implementation's lines.  Left out are: tokenizers,
template renderers, parsers and the native code (data in, data out, without state a
step could disturb); request and response schemas and the frontend (wire formats and
presentation); the evaluation scripts and their tasks, which measure models and do not
run in the platform; metrics, logging and dashboards; command-line tools that do one
request; installation scripts; and `release_kernel.py`.  Within modelled parts
`PROJECT.json` names what is left out component by component.

## Runs

Several small instances of related components share a run: its first variable, `part`,
picks the instance, and the rest stay idle.  A property of such a run is a conjunction
"in part X, this property of that module".  `MCNodeGate` explores the *scenarios* its
constraint lists; `MCMaintenance` and `MCAccess` choose a scenario with `part`.

| Run | Module | Parts | Shows | States |
|---|---|---|---|---|
| `takeover` | `MCNodeAgent` | 2 agents on a cloned volume, 2 operations | `LedgerInv`, `DeliveredOnce`, `NoPromotionBesideOrphan`, `ImplementsLedger` | 364 410 |
| `node_gate` | `MCNodeGate` | six scenarios: a lifecycle operation beside an inference; two outcomes that may both be unknown; a hold with a restore and a restarted agent; two holds in a row; a hold beside a superseded agent; summaries on two processes | `ServingMeansKnown`, `ExclusiveAlone`, `QuietHold`, `SummarySingle` | 673 359 |
| `start_under_hold` | `MCNodeAgent` | 1 agent, 1 entry, faults | violates `StartsHeld` (below) | |
| `keyed_requests` | `MCRequestBinding` | 4 copies of a key, one with another payload | `BindingInv`, `RunsOnce`, `AnswersAgree` | 55 026 |
| `settlement` | `MCUsageSettlement` | 2 attempts, batches of one, a sweeper restart; an attempt that always raises | `SettlementInv`, `BilledOnce`, `SweepReachesAll` | 228 648 |
| `maintenance_mode` | `MCMaintenance` | a reset asked for twice, with and without a crash; beside an operator's stop; with a watchdog and a resume; with a process born during the stop; an entry with two coordinators; two entries; a restore on one node and on two | `ResetRunsOnce`, `WithdrawnNeverRuns`, `ResolvedMeansGone`, `EntryKept`, `RestoreWhole` | 1 323 664 |
| `residency` | `MCResidency` | a pass under troubles; wasted loads; a shared budget; loads, unloads and downloads with crashes; the rehearsal of every policy over two models; two node editors and a heartbeat; the registry's editors; pins beside requests and embeddings, with faults, with rewritten tags | `PassHonest`, `LoadsAccounted`, `RehearsalHonest`, `EditsKept`, `WeightsPinned` | 2 507 114 |
| `chat` | `MCChat` | requests of every shape at the edge; streams through an agent, direct, cut by the ceiling; prompts that fit, share a cache, grow, are under-counted | `AnswerWhole`, `PromptHonest`, `SummariesHonest` | 2 604 817 |
| `knowledge` | `MCKnowledgeBase` | two embedding spaces; three re-indexers; late writes; two grounded readers; expiring records | `IndexWhole`, `GroundedFromEpoch`, `ChangesFenced` | 1 192 778 |
| `access` | `MCAccess` | sign-in; revocation; one's own sessions; a maintenance sweep; edits of accounts; links; rates; quotas; edits of keys; two requests that grant and take away; one of every route | `AccountsHold`, `LimitsHold`, `AuthorityHolds`, `StaysOff` | 1 583 432 |
| `host` | `MCHost` | backups that fail, are cut, hang until a TERM, overlap or run while documents go; mails; restarts; listings that miss a container; boot, with recreates that work or fail; country refresh, restarted or not; deploys over releases, first, later, and with every kind of row | `BackupsRestore`, `SuccessIsWhole`, `RecordsKept` | 2 495 453 |
| `progress` | `MCProgress` | thirteen instances under fairness | `WorkEnds`, `RequestsEnd`, `Converges` | 493 697 |

The comment above each property in its MC module names the properties of the components
it joins and says what they mean.  `CHECK_DEADLOCK FALSE` is set where the bounded system
really stops: finitely many requests, calls, nights or revisions.  The agent's runs check
deadlock and reach none.

**Bounds.**  `MaxGeneration = 2` is one takeover; an invariant about pairs of owners
needs no third (the proofs cover any number).  `MaxEpoch = 2` lets a hold be replaced by
a second entry, which the stale watchdog read needs; `MaxInstance = 2` is one restart of
the runtime.  The last elected process of a bounded behaviour neither stops nor dies, so
that no behaviour ends in a dead node by exhaustion.  Four copies are two that race to
rebind, one whose attempt they rebind and one of another payload.  Two attempts with
batches of one are the fewest in which one can keep the other out of every batch; one
sweeper restart lets it forget once what raised.  In `maintenance_mode` two coordinators
with two attempts per step are the fewest in which a lease lapses and the successor
repeats; three births are a runtime before, during and after a restart.  Residency's two
models with a budget of one or three make a load that must evict and a load that must be
refused.  `ChatStream`'s three chunks against a buffer of one or two make every loss
possible, at the start, in the middle and at the end of an answer.  Two users are an
administrator and the one it acts on; clocks run just past the longest lifetime an
instance compares them with.  In `access`, two requests of the granting routes meet in
every interleaving, and each route there is runs once by each person: what three or more
requests do to each other is left to the theorems.  Three nights and three snapshots are
the fewest in which retention drops one.

**Fairness.**  Safety runs assume none.  `progress` gives each instance the fairness of its
own scheduling (`Turn` in `MCProgress`, with a comment per component): the event loop runs
what is ready; a relay ends because every read has a timeout; the watchdog ticks; a process
told to stop exits once its work is settled; the container is restarted (`restart:
unless-stopped`) and PostgreSQL notices a dead session; coordinators poll and the lease of a
dead one runs out; launchd runs what is due and keeps the supervisor alive; a semaphore is
first come first served.  All are weak fairness of one process's next step; the one strong
fairness is that health passes begin after `DIGEST_HOUR` on days without end.  Nothing is
assumed of operators, callers, the chat runtime, or an exclusive operation's wait, which has
no deadline.  A stopped gateway is started again (`docker-compose.yml:60`); a deploy is owed
by nobody, so a document whose last write was refused may stay as it is, and `RequestsEnd`
excepts it.  In `settlement` the sweeper's loop alone is fair.  `WorkEnds` is checked
without database faults on a single row: one that raises at the insert, the cancellation or
the doubtful promotion leaves its row to the next takeover or a cancel.  A request of the
supervisor whose claim was cut by the supervisor's death stays unanswered, and `WorkEnds`
does not ask for its answer.  `Converges` asks nothing until the world stays calm, which
includes a database that takes every write.

**Finding.**  `start_under_hold`: the comment at `node_agent/service.py:203` says an
agent started during maintenance never serves, not even until its first watchdog tick.
If its one read of the hold fails, `follow_hold` swallows the error and `reopen()` opens
the gate.  `QuietHold` still holds: promotion reads the hold again in the database, so
requests are admitted and then refused, and nothing is sent.

### Where the code and its words part

Modelling met these as well.  The modules have the code's behaviour in each case, so no
property above contradicts them; they are listed for whoever owns the code.

*Restarts.*  A supervisor that dies between executing a request and publishing has
stopped the runtime and leaves no receipt (`runtime_supervisor.py:371`;
`node_agent/supervisor.py:12` says a stop never happens without one): its claim stays
unanswered for good, and later callers of the same id wait for it until their deadline.
A withdrawal whose `unlink` fails is reported as one (`node_agent/supervisor.py:100-113`)
while the request stays filed and can run later.
`runtime_control` reads the gate, awaits an audit write and then files the request, so
the hold may lift and the restart cut traffic (`node_agent/api.py:871`; its docstring at
847 says it is refused while the node serves).

*Residency.*  A load that failed is committed as ERROR and its half-resident weights are
not counted until a heartbeat sees them, and UNLOADING rows are not counted at all
(`list_occupying_memory`).  A probe's answer captured before a load is written after it
with a fresh stamp.  Two absences with a failed probe between them can count as
consecutive when the failed one fell into a suspended pass.
The write of the state a load, an unload or a pull ends in is logged and passed over when it
fails (`manage_models/lifecycle.py:246-250`, `model_state.py:77-82`, `download_model.py:111`):
the row stays LOADING, UNLOADING or DOWNLOADING without a task, every later operation refuses
it, and only the next deploy's reconciliation frees it.  What such a row, an eviction or a
failed unload leaves uncounted is what `RegisteredFits` excepts.
Two requests that download one model can both pass the state check before either writes
DOWNLOADING; the one that ends first then writes its outcome while the other still pulls.

*Registry.*  A policy can be left naming a model deleted meanwhile.  Candidates are
stored in ascending priority and evaluated in descending (`manage_routing_policies.py:94`
calls the stored order the evaluation order).  A profile may be changed while the model
is being loaded.

*Knowledge.*  `run` commits EXTRACTED before INDEXING, and EXTRACTED may be re-indexed,
so two tasks can publish one document.  A deletion does not claim its row: passages of a
deleted document can be published after it, under a clean fence.  The last write of a task
is passed over when it fails (`document_state.py:66-72`), and what is left transient is
reconciled at a deploy (`provision.py:126-133`), not when `docker-compose.yml:60` restarts the
container.  At a deploy the reconciliation may run beside a gateway that is still up: it calls
a document failed whose task goes on, which a second task may then claim.

*Chat.*  The compaction cache is keyed by a hash of unframed `role:content` lines
(`compaction_cache.py:46-62`): two histories that run together to the same lines share a
summary, though one may never have said what it is told; `SummaryOfOwn` names this exception.
Message names and the parameters of tools are not in the key.  Whether a prompt was truncated
is judged by half the registered context length, also where the weights declare less.

*Accounts and keys.*  Whole-row saves undo a disable, a role change or a deletion committed
meanwhile (`manage_own_account.py:85`; `repositories/users.py:149` promises the opposite of
set_disabled), and put the counter of spent codes back to what they read; `update` writes
the role it read, so a rename undoes a demotion.  A request of the same session in flight
during a password change ends the kept session, and one in flight during a sign-out writes
the session back.  Two administrators acting on each other can leave none.  A watermark may
move backwards.  An edit of a key that mentions one field writes all.  The wait of a quota
refusal is rounded down to whole seconds, and may be missing.  `db_roles.py:22` speaks of
one writable table and `docker-compose.yml:201` of `usage_records` alone; the grants are
more.

*Host.*  A TERM between recording a success and the end of a backup writes the previous
success over it; a run by hand that fails erases the success of the nightly one beside it;
nothing locks `backup.sh`, and of two runs that overlap the retention of either may leave no
complete set, since it keeps the newest snapshot of each tag on its own
(`snapshot_retention.sh`), under a check that reads quiet; a dump that died half way stays
in the repository as the latest of its tag; a hung command outlives the watchdog's TERM.  A
service lost in a forced recreate is not asked for again, and the verification after it
looks at the ports of running containers only, so the job may end in success without it; a
restore slower than three samples is taken for one that will not come; after a failed
restart the country refresh finds its file current and never restarts.  A listing that
misses a container resets the base its restarts are counted from (`service_checks.sh:212`).

## Proofs

Eight modules hold the proofs.  Each theorem holds for every value of the constants under
the named assumptions, which a run's module evaluates for its instance; the assumptions
say what kinds of things the constants are, and one thing more where noted.

| Module | Theorem | States |
|---|---|---|
| `NodeAgentProofs` | `TypeCorrect`, `LedgerInvariant`, `AtMostOnce`, `Accounted` | `TypeOK`, `LedgerInv` and the four facts a reader wants of it |
| | `Refinement` | `Spec => ImplementsLedger` |
| | `GateInvariant` | the gate's inductive invariant |
| | `ServingKnowsAll`, `ExclusiveHasTheNode`, `OneSummary`, `QuietNodeStaysQuiet` | `ServingMeansKnown`, `ExclusiveAlone`, `SummarySingle`, `QuietHold` |
| | `NothingBesideAnOrphan` | the action property `NoPromotionBesideOrphan` |
| `RequestProofs` | `BindingInvariant`, `KeyRunsOnce`, `KeyAnswersAgree` | `BindingInv`, `RunsOnce`, `AnswersAgree` |
| | `PinsInvariant` | the inductive invariant of the weights that answer |
| | `CountedIsRun` | `TypeOK`, `RunsAsCounted`, `OneSpace` of `WeightPins`, an instance there |
| | `PinIsServed`, `CapacityIsOfThePinned` | the action properties `PinNamesServed` and `CapacityOfPinned` |
| | `ServingIsPinned` | `ServesPinned`, where nothing fails and nobody rewrites the tag |
| | `ResidencyTypeCorrect`, `WithdrawnIsUnloaded`, `RestoredOnEvidence` | `TypeOK`, `WithdrawnGoes`, `TwiceAbsent` of `Residency`, an instance there |
| | `WasteIsBounded`, `TransientHasItsTask` | `GivesUp`, `TransientOwned` |
| `UsageSettlementProofs` | `SettlementInvariant`, `AttemptBilledOnce`, `BilledCompletionStays` | `SettlementInv`, `BilledOnce`, `CompletedStays` |
| `RuntimeResetProofs` | `ResetTypes`, `OnceInvariant`, `GoneInvariant` | `TypeOK`, `OnceInv`, `GoneInv` |
| | `RequestRunsOnce`, `ResolvedIsGone` | `ResetRunsOnce`, `ResolvedMeansGone` |
| | `WithdrawalIsTrue` | the action property `WithdrawnNeverRuns`, with its exception for a file that could not be removed |
| `AuthorityProofs` | `AuthorityInvariant`, `KeysInvariant`, `NotesInvariant` | `PowerInv`, `KeysInv`, `NotesInv` |
| | `PowerNeverGrows`, `KeysStayOwned`, `NothingShownAcross`, `OthersReadByRight`, `AuthorityStays` | the parts of `AuthorityHolds`, and it |
| | `ChangesStay` | the action property `ChangesStayHome` |
| | `LinksRedeemOnce`, `SignInsExpire`, `EntrySweepsAll` | `LinkOnce`, `LifetimeHolds`, `MaintenanceSweeps` of `Accounts`, an instance there |
| | `OneSetOfCodes`, `FailuresStayBounded`, `EnrolledStaysWhole` | `OneRecoverySet`, `FailuresBounded`, `EnrolledWhole` |
| | `CommittedEditsStick` | the action property `EditsStick` |
| `KnowledgeBaseProofs` | `FenceCounts`, `IndexInvariant`, `EpochInvariant` | types and the fence, and the inductive invariants of the index and of grounding |
| | `IndexStaysWhole`, `GroundedAnswers`, `SpacesStayOne` | `IndexWhole`, `GroundedFromEpoch`, one embedding space per index |
| | `ContentIsFenced` | the action property `FencedChange` |
| | `AnswersReplay` | `ReplayStable`, where records do not expire and the store has room (`"records" \notin Faults`) |
| `MaintenanceCoordinatorProofs` | `MaintenanceInvariant`, `MaintenanceTypes` | the inductive invariant of an entry and its restore, `TypeOK` |
| | `ReleasedByEntry`, `SnapshotsAreOriginal`, `RestartsOnce` | `EntryReleased`, `SnapshotIsOriginal`, `RestartedOnce` |
| | `RestoreLeavesWhole` | the action property `RestoreWhole` |
| `HostProofs` | `DanglingRowsAreGoing` | `TypeOK` and `OnlyDeletionsDangle` of `HostBackup` |
| | `QuietChecksRestore` | `QuietMeansRestorable`, where runs do not overlap |
| | `FailedRunsKeepTheSuccess` | the action property `SuccessKept` |
| | `ReconcilerTellsTheTruth`, `RefreshedServicesEnforceTheStored` | `SuccessIsWhole`, `EnforcedIsStored` of `HostRepair` |
| | `DigestOfTheDay` | `TypeOK`, `DigestArrives`, `OneDigest` of `HostWatch` |
| | `ChangesToldOnce` | the action properties `NoAlertStorm` and `RestartReported` |

### The node's ledger

"Delivered once" is not inductive: it needs that nothing was sent before the relay writes
(`NotYetSent`), which needs that the row of a process about to send is still its own
(`SenderOwnsRow`), which an election could break.  The heart is `ClaimFindsNoSender`: a
process that may send is the owner of record of a running row; an election by a process
of the same kernel and volume needs its flock, so it is gone, one of another volume is
refused by the bound domain, and one of another kernel is refused while any row is
running.  `OwnerIsNewest` gives the newest generation one holder; `OffIsEmpty` keeps a
dead process from holding tasks; `OutcomeIsFinal`, `WorkWasSent` and `BaselineHolds` tie
outcomes and attestations to what the runtime really did.  All but a few actions have one
of two shapes, defined once: a quiet step moves tasks and touches no row (`QuietKeeps`), a
row step is an owner writing its one row (`RowKeeps`).  The refinement reuses the shapes:
a quiet step stutters, a row step is one action of the ledger.
(`AgentAssumption`, `KindAssumption`, `BoundAssumption`.)

### The node's gate

`GateInv` conjoins what the four gate properties need of each other, and `LedgerInv` is
used throughout.

- `ServingMeansKnown` alone is not inductive: a gate may open while an unknown is decided
  but not committed.  `UncommittedIsShut` says such an operation is remembered and keeps
  the gate shut; `OwnedOrOrphaned` that an open row is of the newest generation, so an
  owner's ledger query sees all of them.
- `ExclusiveAlone` needs `ExclusiveHasNode`: an exclusive operation is the one its process
  keeps the gate shut for, and once it saw the node idle nothing else is admitted.
- `QuietHold` needs `FrozenIsShut` and `HoldNumbered`: a stale reading is older than the
  hold it would be applied to.  The attempt showed that a process that is gone must not
  follow a reading (`OffFollowsNothing`), and that quiescence must be reported by the owner
  of record: the first version of the property spoke of any process that was interrupted,
  which a superseded agent on a clone refutes.
- `NothingBesideAnOrphan` follows from the second half of `OwnedOrOrphaned`: what the
  runtime does for a running row is a task of the owner, or the owner is gone.

### A supervised restart

`OnceInv` follows a request through the supervisor's directory: it is in one place at a
time (`OnePlace`), the one in hand is the one claimed (`InHand`), and one call at a time
looks (`OneLooks`), so what a caller saw of the directory is what it finds when it acts.
`GoneInv` says what a restart's scan is worth and for how long.  `EntryScanned`: a restart
of an entry is filed under that entry or later, no sender is left while the hold of that
entry lasts, and once the account was found empty every ended operation is gone.
`TargetScanned` says the same of one operation.  `CohortEnded`, `FailedUntilDone` and
`OnReceipt` keep what a call holds true until it writes.  Two things came out of the
attempt: promotion must read the hold in its own statement (the model once let a call
promoted before the freeze start after it; `Send` and `Reach` are now the row's promotion
and the start of its sender, as in the code), and the witness's attestation is not needed
for this property, because the receipt's scan already says it.  `IdAssumption` is the one
assumption beyond types: only the calls of one maintenance entry may share a request id,
and every call but a control asks for a restart.  The coordinator draws an id per step and
stores it with the step (`maintenance_coordinator.py`), and `Supervisor.run` draws its own
token for each other call.

### Keys, bills

"Runs once" needs that every attempt but the bound one is recorded unsent
(`SupersededUnsent`), which a rebind keeps because it replaces the attempt its handler saw
unsent (`RebindsUnsent`) and only while the version it read stands (`SeenIsAttempt`); the
tombstone matters because a settled operation never changes again (`LedgerSteps`).  An
answer is a completed attempt's, so it is the bound one's, and its payload was compared
when the binding was read.  (`CopyAssumption`.)  "Billed once" needs that a row missing
although it was inserted belongs to an attempt past the floor, and that nobody is settling
such an attempt (`PurgedIsExpired`); "the bill is true" needs that the facts a settlement
holds have not become false (`SettlesFacts`), which the write-once delivery flag gives.
(`SettlementAssumption`.)

### Authority

`PowerInv` bounds every actor and every plan, not just the accounts: a request carries the
role it arrived with, so an account demoted since still acts, and what it plans to grant is
bounded by what its tenant's accounts conferred at the start (`Bounded`).  Power is a set
of scopes, and `grantable_roles.py` compares sets; so roles no account could grant do not
appear by composition of grants.  `KeysInv` is about the window between a plan and its
commit: an account to be created has an id nothing else is planned about and no keys
(`Fresh`), a key is added only if the account's row is still there, and a deletion takes
the keys issued meanwhile.  `NotesInv` follows an answer from plan to commit: what it shows
of others it may show, and the entry owed is pending, written or counted lost.
`AuthorityAssumption` says that the accounts and rows of the start are of the declared
kinds and that a key of the start has an account of its tenant, which the foreign key
ensures.

### Accounts

`AccountsInv` is about who is in the middle of what.  `LocksOwned` says that a row's lock is
held by the request that took it, from the read to the commit, so a second factor or a set of
recovery codes is replaced by one request at a time (`SetsOwned`); `LinksOwned` that a link in
hand is spent by its holder only, because `consume` is one conditional statement;
`SessionsOwned` that a session carries the sign-in, the epoch and the instant its writer read,
so that what is refreshed, or written again as if new, still expires and still falls to an
entry.  `FailuresInv` counts attempts let past the throttle and not recorded yet: the
ceiling is overrun by those.  `EnrolInv` says that a row a request read, and will save whole,
has both factors or neither, which survives any order of saves.  `EditsInv` says what a pending
write changes: its own columns, unless it is one of the whole-row saves.  These are the
exception of `EditsStick`: they do undo what was committed meanwhile, as listed above.
(`AccountsAssumption`: lifetimes are positive, the accounts of the start are enrolled whole,
sessions of the start belong to accounts that may sign in, and names are told apart.)

### Knowledge

Two layers, each with an invariant of its own.  *The index.*  `Fence` says that the dirty
count is at least the number of tasks inside a change, more when the store may still apply
a write somebody gave up on, and that a rebuild runs alone.  `OneSpace` says who writes
passages writes them in the space the fence is bound to; `OneText` that an ingestion is
alone with its document until the text is stored and that everyone who works on the
document later has that text.  `Searchable` then carries `IndexWhole`: whoever may write a
document's passages made it suspect before, and whoever ends last leaves what the text
says.  *Grounding.*  `OneEpoch` says that, as long as the epoch a reader read is the
current one, what it saw is what is searchable, that it found that or nothing, and that
this is true of every record it may find; it holds because every change moves the epoch or
happens under a dirty fence (`FencedChange`), and a reader does not trust a dirty fence.
`AnswersReplay` needs `FirstStands`, the first record of a prefix being the one that stays;
its side condition is the code's: a record that expired is answered anew.
(`KnowledgeBaseAssumption`: the names of the documents, spaces and fences are apart, and
the tasks are finitely many, which the count of the fence needs.)

### Maintenance

The four properties are about nodes and rows; what breaks them is a coordinator that works
on after it lost its operation.  So the invariant first says who can: one that still owns a
running operation has the rows as they are (`OwnCopy`) and is under the hold they belong to
(`UnderHold`), because a takeover, a retry and the lifting of the hold each end that
ownership in the same transaction, and no write is possible without it.  The others hold an
older copy (`Copies`): its snapshot, once taken, and its reset id are those of the row, or
the id is one whose failure the node's supervisor has on file.  What they can still make a
node do is then harmless (`Receipts`): every reset carried out or on its way has the row's
id or one that is answered from its receipt, and every load is of a model of the snapshot.
`Answers` says what an answer not yet written down is worth, and `Looks` the same of the
closing look at each node; `EntryRows` says what a row means, phase by phase, and gives
`EntryReleased` and `SnapshotIsOriginal` at once.  `RestartedOnce` is the two halves of
`Receipts`; `RestoreWhole` is `Looks` at the one step that lifts the hold with the restore
succeeding.

The steps come in three shapes, each with one lemma: a node moves while the records stay
(`NodeMoveKeeps`), one row is written by its owner or by nobody (`WriteKeeps`), and the
administrator or a pass changes operations (`SettledKeeps`).  Two things came out of the
attempt.  A restart the supervisor reported failed is final for its id: asking again is
answered from the receipt, so the model keeps refused ids beside applied ones; without them
the invariant could not say which resets are spent.  And `lapsed`, the history variable
that excuses a model lost during the closing look, was cleared by the look of a coordinator
of an *older* restore; TLC's instances have one restore and could not see it.
(`BoundAssumption`.)

### The host's jobs

*Backups.*  `DanglingRowsAreGoing` is about two captures of one run and the life of a
document: `Dangling` says that a row in a database capture whose file is not in the
documents capture of the same run is of a document whose deletion has begun, and `Ahead`
that a run has captures of the stages behind it only.  It needs nothing of the other runs,
so it holds of runs that overlap.  `QuietChecksRestore` does not: of two runs that overlap
the retention of one keeps the newest snapshot of each tag and may leave the sets of both
incomplete, and the model's `overlap` instance finds it when asked.  For runs that follow
one another (`~Overlap`, what launchd does and the runbook assumes), `Caught` says a working
run has the newest whole capture of every stage behind it, and `OnRecord` that every success
on file or in the hands of a run is of a day for which a complete set is in the repository;
pruning keeps that set because it keeps the newest of more days than the check calls quiet
(`FailDays + 1 < KeepDaily`, in `HostBackupAssumption` as in the scripts' defaults).
`FailedRunsKeepTheSuccess` holds for all runs and faults, because `SuccessKept` names the two
cases in which a failed run does replace a success: it was stopped after it had recorded its
own, or it had company.  `Informed` is the invariant: a run that began alone finds on record
the success it read, its own once it cleans up, or one of a later run, and whoever joined it
has read one of these (`Known`).

*Repair.*  `SeenWhole` says that what the reconciler last saw is what there is, but for what
went down since (`lost`) and for services its own recreate left down (`rec.broken`), which
the verification of running containers cannot see. A refresh leaves a debt: an enforcing
service its restart did not reach is in `owed` until something starts it again, and every
other one has what is on disk.  Both theorems hold whatever fails.

*Watch.*  `Told` says that the file holds the last decision and a pass compares with it,
`Dated` and `Covered` that a date on file is a digest in the mailbox, and `Budget` that each
digest of a day but the one on file was excused by a record that failed.  (`NoRun \notin
Pass`: no pass is the value that stands for none.)

### Which weights answer

`PinsInv` makes `RunsAsCounted` and `OneSpace` inductive.  `Guarded` says what a request under
way may rely on: past the guard its weights are the ones its pin allows and, for a document,
those of its index space; past the relay's check they are still what the tag names, unless a
hand rewrote it since.  That last half is where everything meets: a pull changes the tag with
the relay's check behind some request only if it runs beside one, and `Alone` says it cannot.
An operation that was promoted, or a pull nobody waits for, has the node to itself: nothing is
admitted past a closed gate, and the gate opens again only when the operation ended, or at the
restart of the runtime that ends the pull.  `Named` says that the digest an operation is about
to pin is the one served, `Declared` that a declared context length was of the weights the
call read.  (`WeightPinsAssumption`: kinds, and that the identifiers of requests and documents,
of pulls, re-pins and loads are told apart.)

### Which models are resident

`ResidencyInv` carries the five results about `Residency`.  `TasksOwned` says that the pass
has one task at a time, for the model at the head of its queue and with the node's lock,
and that a transient row has a task unless the process died under it or the database refused
the write that was to end it (`ghost.stranded`).  `WithdrawalStands`
says that a wish withdrawn under the pass's load stands until the pass reads the intent
again, so that the branch that unloads the fresh weights is taken.  `EvidenceSeen` says that
the reconciler counts no more absences than different answers said so; an answer it has not
counted yet is one more.  `WasteCounted` says that the fruitless passes are at most those
the backoff counted, that a pass runs only below the limit, and that a node which backs off
carries no evidence from before, so it must be seen absent afresh.  (`ResidencyAssumption`:
finitely many models with positive numbers and natural sizes, a limit of at least one, and
requests that are bounded.)

The attempt found one error of the model.  The record of a withdrawal was kept only while
the load's task ran; it is the pass, after the task, that reads the intent, and a withdrawal
that arrives in between must be honoured as well.  The record is now kept until that read,
and `WithdrawnGoes` says more than before.

One thing came out of the attempt for the whole project: a `CASE` whose guards overlap is,
in TLA+, any of the branches that apply, and TLC takes the first.  Where the code is an
`if`/`elif` chain (`HostBackup.Verdict`, `Catalogue.rejection`, `Edge.assert_allowed`,
`Residency.Observed`) the modules now say so.

## What is only model-checked

- **Liveness**: `SweepReachesAll`, `WorkEnds`, `RequestsEnd`, `Converges`.  Fairness and
  `ENABLED` are out of the provers' reach.
- **Safety of the components without a proof module**: `Catalogue` (`RehearsalHonest`,
  `EditsKept`); `Edge`, `ChatAdmission`, `ChatStream` (`AnswerWhole`, `PromptHonest`,
  `SummariesHonest`); `GatewayAccess` (`LimitsHold` and its part of `StaysOff`); of
  `Accounts` (`AccountsHold`, `StaysOff`) that a code signs in once and that what was revoked
  stays dead; `Deployment` (its parts of `SuccessIsWhole` and `RecordsKept`).  Several of
  these rest on recursive data: a prompt is compacted by a recursion over messages, a schema
  is what a chain of revisions built, and the provers have no induction over either.
- **The memory budget**: `RegisteredFits` of `Residency`, the other part of
  `LoadsAccounted`.  It bounds a sum over the models of a node, and what a fold over a set
  gives when one member changes takes an induction the provers cannot do.
- **Exclusive re-indexing**: `ReindexExclusive` of `KnowledgeBase`, which is asked where nobody
  uploads and no deploy provisions beside a running gateway: with an upload's own indexing two
  tasks do meet (listed above).
- **Conjunctions over instances**: a run that joins several instances states one property
  "in part X, this of that module".  Where the module has a proof, the part is proved for
  every value of the constants and the conjunction is checked: `EntryKept` and
  `RestoreWhole` (`MaintenanceCoordinator`, and `OnceInv` and `GoneInv` of `RuntimeReset`),
  `ChangesFenced` (`FencedChange`, `ReplayStable`), `BackupsRestore`,
  `WeightsPinned` (`WeightPins`), `PassHonest` and the part of `LoadsAccounted` about
  transient states (`Residency`), and the parts of `SuccessIsWhole` and `RecordsKept` about
  the host's jobs (`HostBackup`, `HostWatch`, `HostRepair`).

## Further hazards

The forty of `PROJECT.json` are those a property covers.  Others are in this code and out of
this project's reach: parsers and template renderers that disagree with the runtime's own
count (the model takes three counts as given, and says what follows when they part); locks
and isolation inside PostgreSQL (a transaction is one step here, at the isolation the code
asks for); clocks of different hosts; and the kernel's own promises about flock, process
identity and `fsync`.

## What is left

- Proofs for the components listed above, `GatewayAccess` and `Catalogue` first.
- Composition: that `RuntimeReset` implements the reset `MaintenanceCoordinator` assumes of
  a node, and that `NodeAgent` implements the interrupt.  Both are stated by what the two
  ends have in common and not by a refinement.
- The lines the map does not name: the evaluation scripts, tokenizers and schemas.
