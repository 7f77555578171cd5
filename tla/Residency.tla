------------------------------- MODULE Residency -------------------------------
(***************************************************************************)
(* Model lifecycle and residency on one node: what the registry says of a  *)
(* model (state, the heartbeat's observation, the operators' intent), what *)
(* the runtime really holds, and the tasks that move both - an operator's  *)
(* load, unload and download, the heartbeat's probe, and the reconciler    *)
(* that restores the desired set after the runtime lost it.                *)
(*                                                                         *)
(* Times are abstracted to what the code compares: an observation is fresh *)
(* or stale, the same one as last counted or another, and near enough to   *)
(* the last one counted or not.  A model's aliases and references are its  *)
(* number; sizes are declared, and the runtime's own figure never larger.  *)
(***************************************************************************)
EXTENDS Integers, FiniteSets, SequencesExt, FiniteSetsExt

CONSTANTS
    Models,         \* a set 1..n of registered models, in the order of their aliases
    Size,           \* [Models -> Nat]: declared memory of each
    Budget,         \* total memory of the node times its headroom fraction
    AbsenceFrees,   \* observed_absence_frees_memory: RESIDENCY_RECONCILER_ENABLED
    WantedFirst,    \* models whose residency is desired to begin with
    Operator,       \* what operators do in this run
    Trouble,        \* which faults the environment may cause in this run
    GiveUpAfter,    \* GIVE_UP_AFTER_WASTED_PASSES
    MaxRepairRounds,\* MAX_REPAIR_ROUNDS
    MaxOps, MaxFaults \* bounds on operators' requests and on faults

ResidencyAssumption ==
    /\ Models \subseteq Nat \ {0} /\ IsFiniteSet(Models) /\ WantedFirst \subseteq Models
    /\ Size \in [Models -> Nat] /\ Budget \in Nat
    /\ AbsenceFrees \in BOOLEAN
    /\ GiveUpAfter \in Nat \ {0} /\ MaxRepairRounds \in Nat
    /\ MaxOps \in Nat /\ MaxFaults \in Nat

VARIABLES
    row,        \* models table: state, observation, freshness, intent and version
    disk,       \* weights on the node's disk
    resident,   \* weights the runtime holds
    load,       \* a load in flight, by operator and by reconciler
    unld,       \* an unload in flight, likewise
    pull,       \* two download requests and their detached tasks
    probe,      \* an observation under way, by the heartbeat and by the reconciler
    lock,       \* holder of the node's advisory lock
    rec,        \* the reconciler's pass
    evidence,   \* AbsenceEvidence and how the row's stamp relates to it
    backoff,    \* the node's _Backoff
    intents,    \* the desired set and versions as last seen, or none
    node,       \* maintenance hold, an unknown outcome, node status
    spent,      \* requests and faults so far (bounds), and models the budget stopped counting
    ghost       \* history the properties speak of

vars == <<row, disk, resident, load, unld, pull, probe, lock, rec, evidence,
          backoff, intents, node, spent, ghost>>

Actors == {"operator", "reconciler"}
Probers == {"heartbeat", "reconciler"}
States == {"not_downloaded", "downloading", "downloaded", "loading", "loaded",
           "unloading", "error"}
TRANSIENT_STATES == {"downloading", "loading", "unloading"}
Observations == {"none", "loaded", "downloaded", "not_downloaded"}
NoTask == [step |-> "none", m |-> 0]
NoBackoff == [waiting |-> FALSE, wasted |-> 0, gaveUp |-> FALSE]
NoPass == [step |-> "idle", queue |-> <<>>, round |-> 0, restored |-> FALSE, mid |-> FALSE]

Init ==
    /\ row = [m \in Models |-> [state |-> "downloaded", obs |-> "none", fresh |-> FALSE,
                                desired |-> m \in WantedFirst, ver |-> 0]]
    /\ disk = Models /\ resident = {}
    /\ load = [a \in Actors |-> NoTask]
    /\ unld = [a \in Actors |-> NoTask]
    /\ pull = [i \in {1, 2} |-> NoTask]
    /\ probe = [p \in Probers |-> [left |-> {}, holds |-> {}, found |-> {}, answered |-> TRUE]]
    /\ lock = "free"
    /\ rec = NoPass
    /\ evidence = [m \in Models |-> [n |-> 0, same |-> FALSE, near |-> TRUE]]
    /\ backoff = NoBackoff
    /\ intents = {}
    /\ node = [hold |-> FALSE, blocked |-> FALSE, online |-> TRUE]
    /\ spent = [ops |-> 0, faults |-> 0, uncounted |-> {}]
    /\ ghost = [absent |-> [m \in Models |-> 0],
                fruitless |-> 0, stranded |-> {}]

----------------------------------------------------------------------------
(* The row writes *)

\* set_state and ModelStateCommitter.commit: the observation goes with the intent write
Stated(r, s) == [r EXCEPT !.state = s, !.obs = "none", !.fresh = FALSE]

\* set_desired_residency: one statement writes the wish and its next version
Wished(r, d) == [r EXCEPT !.desired = d, !.ver = @ + 1]

\* observed_state or state: the observation outranks the intent
Effective(r) == IF r.obs = "none" THEN r.state ELSE r.obs

observed_absent(r) == r.fresh /\ r.obs = "downloaded"
observed_resident(r) == r.fresh /\ r.obs = "loaded"
restorable(r) == r.desired /\ ~(r.fresh /\ r.obs = "not_downloaded")

Fault(f) ==
    /\ f \in Trouble /\ spent.faults < MaxFaults
    /\ spent' = [spent EXCEPT !.faults = @ + 1]

\* a fault after which the budget's next check may leave out what the row comes to say
FaultUncounting(f, S) ==
    /\ f \in Trouble /\ spent.faults < MaxFaults
    /\ spent' = [spent EXCEPT !.faults = @ + 1, !.uncounted = @ \cup S]

Request(o) ==
    /\ o \in Operator /\ spent.ops < MaxOps
    /\ spent' = [spent EXCEPT !.ops = @ + 1]

----------------------------------------------------------------------------
(* The memory budget *)

list_occupying_memory ==
    {m \in Models : row[m].state \in {"loaded", "loading"} \/ row[m].obs = "loaded"}

charges_memory(r) ==
    \/ r.state = "loading"
    \/ IF r.fresh THEN r.obs = "loaded" ELSE r.state = "loaded" \/ r.obs = "loaded"

Total(S) == MapThenSumSet(LAMBDA m : Size[m], S)

Occupying == {o \in list_occupying_memory : AbsenceFrees => charges_memory(row[o])}
Registered == {m \in Models : row[m].state \in {"loading", "loaded"}}

assert_can_load(m) == Total(Occupying \ {m}) + Size[m] <= Budget

----------------------------------------------------------------------------
(* The reconciler's bookkeeping *)

Forget(m) == [n |-> 0, same |-> FALSE, near |-> evidence[m].near]

\* AbsenceEvidence.record: one stamp counts once, and a gap restarts the count
Record(m) ==
    LET e == evidence[m] IN
    IF ~observed_absent(row[m]) THEN Forget(m)
    ELSE IF e.n > 0 /\ e.same THEN e
    ELSE [n |-> IF e.n > 0 /\ e.near THEN 2 ELSE 1, same |-> TRUE, near |-> e.near]

\* the largest first, then by alias
RestoredBefore(a, b) == Size[a] > Size[b] \/ (Size[a] = Size[b] /\ a < b)
restore_order(S) ==
    CHOOSE q \in SetToSeqs(S) : \A i, j \in DOMAIN q : i < j => RestoredBefore(q[i], q[j])

\* a write that ends a task is refused by the database and passed over
Stranding(lost) == [ghost EXCEPT !.stranded = @ \cup lost]

\* _fail: back off, count a pass that loaded weights, and ask for evidence anew
Fail(r, lost) ==
    LET wasted == backoff.wasted + (IF r.restored THEN 1 ELSE 0) IN
    /\ backoff' = [waiting |-> TRUE, wasted |-> wasted,
                   gaveUp |-> backoff.gaveUp \/ wasted >= GiveUpAfter]
    /\ evidence' = [m \in Models |-> Forget(m)]
    /\ rec' = NoPass
    /\ lock' = IF lock = "reconciler" THEN "free" ELSE lock
    /\ ghost' = [Stranding(lost) EXCEPT !.fruitless = IF r.restored THEN @ + 1 ELSE @,
                              !.absent = [m \in Models |-> IF row[m].obs = "downloaded" THEN 1 ELSE 0]]

\* the pass is about this model, and has not yet read the intent behind its load
Restoring(m) == rec.step \in {"loading", "after"} /\ Head(rec.queue) = m

\* _ended: the pass stops and the node's lock goes back, without a backoff
Ended ==
    /\ rec' = NoPass
    /\ lock' = IF lock = "reconciler" THEN "free" ELSE lock

----------------------------------------------------------------------------
(* ManageModels._load, in the steps others can come between *)

LoadTask(a, step, m) == load' = [load EXCEPT ![a] = [step |-> step, m |-> m]]

\* load: the lock is tried, never waited for
\* Mutant: an operator's load does not take the reconciler's lock
OperatorLoadUnlocked(m) ==
    /\ load["operator"] = NoTask
    /\ Request("load")
    /\ LoadTask("operator", "asked", m)
    /\ UNCHANGED <<row, disk, resident, unld, pull, probe, lock, rec, evidence, backoff,
                   intents, node, ghost>>

OperatorLoad(m) ==
    /\ load["operator"] = NoTask
    /\ Request("load")
    /\ lock = "free" /\ lock' = "operator"
    /\ LoadTask("operator", "asked", m)
    /\ UNCHANGED <<row, disk, resident, unld, pull, probe, rec, evidence, backoff, intents,
                   node, ghost>>

\* the end of a load for whoever asked: the operator's request, or the pass
LoadDone(a, ok, lost) ==
    /\ load' = [load EXCEPT ![a] = NoTask]
    /\ CASE a = "operator" ->
                /\ lock' = IF lock = "operator" THEN "free" ELSE lock
                /\ ghost' = Stranding(lost)
                /\ UNCHANGED <<rec, evidence, backoff>>
         [] a = "reconciler" /\ ok ->
                /\ rec' = [rec EXCEPT !.step = "after", !.restored = TRUE]
                /\ ghost' = Stranding(lost)
                /\ UNCHANGED <<lock, evidence, backoff>>
         [] OTHER -> Fail(rec, lost)

\* the row as _load reads it: already held, in another state, or to be loaded
LoadRead(a) ==
    LET m == load[a].m IN
    /\ load[a].step = "asked"
    /\ \/ /\ Effective(row[m]) = "loaded"
          /\ row' = IF a = "operator" THEN [row EXCEPT ![m] = Wished(@, TRUE)] ELSE row
          /\ LoadDone(a, TRUE, {})
       \/ /\ Effective(row[m]) = "downloaded"
          /\ LoadTask(a, "begun", m)
          /\ UNCHANGED <<row, lock, rec, evidence, backoff, ghost>>
       \/ /\ Effective(row[m]) \notin {"loaded", "downloaded"}
          /\ LoadDone(a, FALSE, {})
          /\ UNCHANGED row
    /\ UNCHANGED <<disk, resident, unld, pull, probe, intents, node, spent>>

\* list_occupying_memory, charges_memory and assert_can_load; a refusal ends it
LoadBudget(a) ==
    LET m == load[a].m IN
    /\ load[a].step = "begun"
    /\ \/ assert_can_load(m) /\ LoadTask(a, "fits", m)
          /\ spent' = [spent EXCEPT !.uncounted = Registered \ (Occupying \cup {m})]
          /\ UNCHANGED <<lock, rec, evidence, backoff, ghost>>
       \/ ~assert_can_load(m) /\ LoadDone(a, FALSE, {}) /\ UNCHANGED spent
    /\ UNCHANGED <<row, disk, resident, unld, pull, probe, intents, node>>

\* the intent and LOADING, each committed on its own before the runtime is called;
\* ModelStateCommitter.commit logs a write that fails and goes on
LoadCommit(a) ==
    LET m == load[a].m
        wished == IF a = "operator" THEN Wished(row[m], TRUE) ELSE row[m]
        fruitless == IF a = "operator" THEN 0 ELSE ghost.fruitless
    IN
    /\ load[a].step = "fits"
    /\ LoadTask(a, "running", m)
    /\ \/ row' = [row EXCEPT ![m] = Stated(wished, "loading")]
          /\ ghost' = [ghost EXCEPT !.fruitless = fruitless, !.stranded = @ \ {m}]
          /\ UNCHANGED spent
       \/ Fault("commit") /\ row' = [row EXCEPT ![m] = wished]
          /\ ghost' = [ghost EXCEPT !.fruitless = fruitless]
    /\ UNCHANGED <<disk, resident, unld, pull, probe, lock, rec, evidence, backoff, intents, node>>

LoadReturns(a) ==
    LET m == load[a].m IN
    /\ load[a].step = "running" /\ m \in disk
    /\ \/ resident' = resident \cup {m} /\ spent' = spent
       \/ Fault("evict") /\ \E E \in SUBSET (resident \ {m}) :
                                E # {} /\ resident' = (resident \ E) \cup {m}
    /\ row' = [row EXCEPT ![m] = Stated(@, "loaded")]
    /\ LoadDone(a, TRUE, {})
    /\ UNCHANGED <<disk, unld, pull, probe, intents, node>>

\* the runtime refuses or fails: ERROR is committed apart from the request's
\* rollback, and the weights may have stayed behind
LoadFails(a) ==
    LET m == load[a].m IN
    /\ load[a].step = "running"
    /\ IF m \in disk THEN Fault("loadFails") /\ resident' \in {resident, resident \cup {m}}
                     ELSE UNCHANGED <<spent, resident>>
    /\ row' = [row EXCEPT ![m] = Stated(@, "error")]
    /\ LoadDone(a, FALSE, {})
    /\ UNCHANGED <<disk, unld, pull, probe, intents, node>>

\* the load ended, well or not, and the write that says so did not reach the row: LOADED
\* went with the request's transaction, or the commit of ERROR was passed over
LoadEndLost(a) ==
    LET m == load[a].m IN
    /\ load[a].step = "running" /\ Fault("commit")
    /\ resident' \in {resident, resident \cup ({m} \cap disk)}
    /\ LoadDone(a, FALSE, {m})
    /\ UNCHANGED <<row, disk, unld, pull, probe, intents, node>>

----------------------------------------------------------------------------
(* ManageModels._unload *)

UnloadTask(a, step, m) == unld' = [unld EXCEPT ![a] = [step |-> step, m |-> m]]

OperatorUnload(m) ==
    /\ unld["operator"] = NoTask
    /\ Request("unload")
    /\ Effective(row[m]) = "loaded"
    /\ UnloadTask("operator", "begun", m)
    /\ UNCHANGED <<row, disk, resident, load, pull, probe, lock, rec, evidence, backoff,
                   intents, node, ghost>>

UnloadCommit(a) ==
    LET m == unld[a].m
        wished == IF a = "operator" THEN Wished(row[m], FALSE) ELSE row[m]
        fruitless == IF a = "operator" THEN 0 ELSE ghost.fruitless
    IN
    /\ unld[a].step = "begun"
    /\ UnloadTask(a, "running", m)
    /\ \/ row' = [row EXCEPT ![m] = Stated(wished, "unloading")]
          /\ ghost' = [ghost EXCEPT !.fruitless = fruitless, !.stranded = @ \ {m}]
          /\ UNCHANGED spent
       \/ Fault("commit") /\ row' = [row EXCEPT ![m] = wished]
          /\ ghost' = [ghost EXCEPT !.fruitless = fruitless]
    /\ rec' = [rec EXCEPT !.mid = @ \/ (a = "operator" /\ Restoring(m))]
    /\ UNCHANGED <<disk, resident, load, pull, probe, lock, evidence, backoff, intents, node>>

UnloadFailed(a, lost) ==
    IF a = "reconciler" THEN Fail(rec, lost)
    ELSE ghost' = Stranding(lost) /\ UNCHANGED <<evidence, backoff, lock, rec>>

\* the weights are gone; or the runtime failed and the row is LOADED again; or either, and
\* the write that says so did not reach the row
UnloadReturns(a) ==
    LET m == unld[a].m IN
    /\ unld[a].step = "running"
    /\ unld' = [unld EXCEPT ![a] = NoTask]
    /\ \/ /\ resident' = resident \ {m}
          /\ row' = [row EXCEPT ![m] = Stated(@, "downloaded")]
          /\ rec' = IF a = "reconciler" THEN [rec EXCEPT !.step = "look"] ELSE rec
          /\ UNCHANGED <<spent, evidence, backoff, lock, ghost>>
       \/ /\ FaultUncounting("unloadFails", {m})
          /\ row' = [row EXCEPT ![m] = Stated(@, "loaded")]
          /\ UnloadFailed(a, {})
          /\ UNCHANGED resident
       \/ /\ Fault("commit")
          /\ resident' \in {resident, resident \ {m}}
          /\ UnloadFailed(a, {m})
          /\ UNCHANGED row
    /\ UNCHANGED <<disk, load, pull, probe, intents, node>>

----------------------------------------------------------------------------
(* DownloadModel *)

\* start reads the state in its request ...
DownloadStart(i, m) ==
    /\ pull[i] = NoTask
    /\ Request("download")
    /\ row[m].state \notin TRANSIENT_STATES \cup {"loaded"}
    /\ pull' = [pull EXCEPT ![i] = [step |-> "claim", m |-> m]]
    /\ UNCHANGED <<row, disk, resident, load, unld, probe, lock, rec, evidence, backoff,
                   intents, node, ghost>>

\* ... writes DOWNLOADING as the request commits, and schedules the detached task
DownloadClaim(i) ==
    /\ pull[i].step = "claim"
    /\ pull' = [pull EXCEPT ![i].step = "running"]
    /\ \/ row' = [row EXCEPT ![pull[i].m] = Stated(@, "downloading")]
          /\ ghost' = [ghost EXCEPT !.stranded = @ \ {pull[i].m}]
          /\ UNCHANGED spent
       \/ Fault("commit") /\ UNCHANGED <<row, ghost>>
    /\ UNCHANGED <<disk, resident, load, unld, probe, lock, rec, evidence, backoff, intents, node>>

\* run: every outcome lands in the state, from the finally, unless that write, or the
\* task's first read, is refused
DownloadRun(i) ==
    LET m == pull[i].m IN
    /\ pull[i].step = "running"
    /\ pull' = [pull EXCEPT ![i] = NoTask]
    /\ \/ disk' = disk \cup {m} /\ row' = [row EXCEPT ![m] = Stated(@, "downloaded")]
          /\ UNCHANGED <<spent, ghost>>
       \/ Fault("pullFails") /\ row' = [row EXCEPT ![m] = Stated(@, "error")]
          /\ UNCHANGED <<disk, ghost>>
       \/ Fault("commit") /\ disk' \in {disk, disk \cup {m}} /\ ghost' = Stranding({m})
          /\ UNCHANGED row
    /\ UNCHANGED <<resident, load, unld, probe, lock, rec, evidence, backoff, intents, node>>

\* set_desired_residency: the intent alone, at any time
SetDesiredResidency(m, d) ==
    /\ Request("intent")
    /\ row' = [row EXCEPT ![m] = Wished(@, d)]
    /\ rec' = [rec EXCEPT !.mid = IF Restoring(m) THEN ~d ELSE @]
    /\ ghost' = [ghost EXCEPT !.fruitless = 0]
    /\ UNCHANGED <<disk, resident, load, unld, pull, probe, lock, evidence, backoff, intents, node>>

----------------------------------------------------------------------------
(* observe_models: the runtime's answer is written model by model *)

ProbeAsk(p) ==
    /\ probe[p].left = {}
    /\ IF p = "reconciler" THEN rec.step = "look" /\ rec' = [rec EXCEPT !.step = "looking"]
                           ELSE UNCHANGED rec
    /\ \E answered \in BOOLEAN :
          /\ IF answered THEN UNCHANGED spent ELSE Fault("probeFails")
          /\ probe' = [probe EXCEPT ![p] = [left |-> Models, holds |-> resident, found |-> disk,
                                            answered |-> answered]]
    /\ UNCHANGED <<row, disk, resident, load, unld, pull, lock, evidence, backoff, intents,
                   node, ghost>>

Observed(p, m) ==
    IF ~probe[p].answered THEN "none"
    ELSE IF m \in probe[p].holds THEN "loaded"
    ELSE IF m \in probe[p].found THEN "downloaded"
    ELSE "not_downloaded"

ProbeWrite(p) ==
    LET m == Min(probe[p].left) o == Observed(p, m) IN
    /\ probe[p].left # {}
    /\ probe' = [probe EXCEPT ![p].left = @ \ {m}]
    /\ row' = [row EXCEPT ![m].obs = o, ![m].fresh = o # "none"]
    /\ \E near \in BOOLEAN :
          /\ IF near THEN UNCHANGED spent ELSE Fault("gap")
          /\ evidence' = [evidence EXCEPT ![m].same = FALSE, ![m].near = near]
    /\ ghost' = [ghost EXCEPT !.absent[m] = IF o = "downloaded" THEN Min({@ + 1, 2}) ELSE @]
    /\ rec' = IF p = "reconciler" /\ probe[p].left = {m}
              THEN [rec EXCEPT !.step = "next", !.queue = Tail(@), !.mid = FALSE] ELSE rec
    /\ UNCHANGED <<disk, resident, load, unld, pull, lock, backoff, intents, node>>

----------------------------------------------------------------------------
(* ReconcileResidency *)

Desired == {m \in Models : row[m].desired}
Intent == {<<m, row[m].ver>> : m \in Desired}

\* _reconcile up to its lock: what is due, and why the node is left alone
Reconcile ==
    LET changed == intents \notin {{}, {Intent}}
        settled == \A m \in Desired : restorable(row[m]) => observed_resident(row[m])
        b == IF changed \/ settled THEN NoBackoff ELSE backoff
        seen == [m \in Models |-> IF row[m].desired THEN Record(m) ELSE Forget(m)]
        due == {m \in Desired : seen[m].n >= 2 /\ row[m].state \notin TRANSIENT_STATES}
        act == /\ due # {} /\ node.online /\ ~node.blocked
               /\ \A m \in Models : row[m].state \notin TRANSIENT_STATES
    IN
    /\ rec.step = "idle" /\ ~node.hold
    /\ intents' = {Intent}
    /\ backoff' = b
    /\ ghost' = [ghost EXCEPT !.absent = [m \in Models |-> IF row[m].desired THEN @[m] ELSE
                                             IF row[m].obs = "downloaded" THEN 1 ELSE 0],
                              !.fruitless = IF changed \/ settled THEN 0 ELSE @]
    /\ IF b.gaveUp \/ b.waiting
       THEN UNCHANGED <<evidence, rec>>
       ELSE /\ evidence' = seen
            /\ rec' = IF act THEN [NoPass EXCEPT !.step = "lock", !.queue = restore_order(due)]
                             ELSE NoPass
    /\ UNCHANGED <<row, disk, resident, load, unld, pull, probe, lock, node, spent>>

\* hold: skipped, never queued, when another holder has the node
TakeNode ==
    /\ rec.step = "lock"
    /\ \/ lock = "free" /\ lock' = "reconciler" /\ rec' = [rec EXCEPT !.step = "next"]
       \/ lock # "free" /\ rec' = NoPass /\ UNCHANGED lock
    /\ UNCHANGED <<row, disk, resident, load, unld, pull, probe, evidence, backoff, intents,
                   node, spent, ghost>>

\* _restore_one as far as the call of restore
RestoreOne ==
    LET m == Head(rec.queue) r == row[m] IN
    /\ rec.step = "next" /\ rec.queue # <<>>
    /\ \/ /\ node.hold \/ node.blocked
          /\ Ended /\ UNCHANGED <<load, evidence, backoff, ghost>>
       \/ /\ ~node.hold /\ ~node.blocked
          /\ \/ /\ ~r.desired \/ observed_resident(r)
                /\ rec' = [rec EXCEPT !.queue = Tail(@)]
                /\ UNCHANGED <<lock, load, evidence, backoff, ghost>>
             \/ /\ r.desired /\ ~observed_resident(r) /\ r.state \in TRANSIENT_STATES
                /\ Ended /\ UNCHANGED <<load, evidence, backoff, ghost>>
             \/ /\ r.desired /\ ~observed_resident(r) /\ r.state \notin TRANSIENT_STATES
                /\ ~observed_absent(r)
                /\ Fail(rec, {}) /\ UNCHANGED load
             \/ /\ r.desired /\ observed_absent(r) /\ r.state \notin TRANSIENT_STATES
                /\ LoadTask("reconciler", "asked", m)
                /\ rec' = [rec EXCEPT !.step = "loading", !.mid = FALSE]
                /\ UNCHANGED <<lock, evidence, backoff, ghost>>
    /\ UNCHANGED <<row, disk, resident, unld, pull, probe, intents, node, spent>>

\* the intent is read again once the load returned
\* Mutant: the intent read before the load decides
RestoredUnread ==
    /\ rec.step = "after"
    /\ rec' = [rec EXCEPT !.step = "look"]
    /\ UNCHANGED <<row, disk, resident, load, unld, pull, probe, lock, evidence, backoff,
                   intents, node, spent, ghost>>

Restored ==
    LET m == Head(rec.queue) r == row[m] IN
    /\ rec.step = "after"
    /\ \/ /\ r.desired
          /\ rec' = [rec EXCEPT !.step = "look"]
          /\ UNCHANGED <<unld, lock, evidence, backoff, ghost>>
       \/ /\ ~r.desired /\ Effective(r) = "loaded"
          /\ UnloadTask("reconciler", "begun", m)
          /\ rec' = [rec EXCEPT !.step = "releasing"]
          /\ UNCHANGED <<lock, evidence, backoff, ghost>>
       \/ /\ ~r.desired /\ Effective(r) # "loaded"
          /\ Fail(rec, {}) /\ UNCHANGED unld
    /\ UNCHANGED <<row, disk, resident, load, pull, probe, intents, node, spent>>

\* the end of a round: done, another round for what a load evicted, or a failure
RoundEnds ==
    LET missing == {m \in Models : restorable(row[m]) /\ ~observed_resident(row[m])} IN
    /\ rec.step = "next" /\ rec.queue = <<>>
    /\ \/ missing = {} /\ backoff' = NoBackoff /\ Ended
          /\ ghost' = [ghost EXCEPT !.fruitless = 0]
          /\ UNCHANGED evidence
       \/ missing # {} /\ rec.round < MaxRepairRounds
          /\ rec' = [rec EXCEPT !.queue = restore_order(missing), !.round = @ + 1]
          /\ UNCHANGED <<lock, evidence, backoff, ghost>>
       \/ missing # {} /\ rec.round = MaxRepairRounds /\ Fail(rec, {})
    /\ UNCHANGED <<row, disk, resident, load, unld, pull, probe, intents, node, spent>>

BackoffExpires ==
    /\ backoff.waiting
    /\ backoff' = [backoff EXCEPT !.waiting = FALSE]
    /\ UNCHANGED <<row, disk, resident, load, unld, pull, probe, lock, rec, evidence, intents,
                   node, spent, ghost>>

----------------------------------------------------------------------------
(* What happens around them *)

\* the runtime restarts and holds nothing
RuntimeRestarts ==
    /\ resident # {} /\ Fault("restart")
    /\ resident' = {}
    /\ UNCHANGED <<row, disk, load, unld, pull, probe, lock, rec, evidence, backoff, intents,
                   node, ghost>>

\* an observation passes RESIDENCY_MAX_AGE_SECONDS with none to replace it
GoesStale(m) ==
    /\ row[m].fresh /\ Fault("stale")
    /\ row' = [row EXCEPT ![m].fresh = FALSE]
    /\ UNCHANGED <<disk, resident, load, unld, pull, probe, lock, rec, evidence, backoff,
                   intents, node, ghost>>

\* a maintenance hold, an unknown outcome, or the sweep's node status comes or goes
NodeChanges(f) ==
    /\ Fault(f)
    /\ node' = [node EXCEPT ![f] = ~@]
    /\ UNCHANGED <<row, disk, resident, load, unld, pull, probe, lock, rec, evidence, backoff,
                   intents, ghost>>

\* the admin process dies with its tasks; the runtime may finish what it was asked
Crash(reconciled) ==
    /\ FaultUncounting("crash", {m \in Models : row[m].state = "unloading"})
    /\ resident' \in {resident} \cup {resident \cup {load[a].m} : a \in {b \in Actors : load[b].step = "running"}}
    /\ load' = [a \in Actors |-> NoTask] /\ unld' = [a \in Actors |-> NoTask]
    /\ pull' = [i \in {1, 2} |-> NoTask]
    /\ probe' = [p \in Probers |-> [probe[p] EXCEPT !.left = {}]]
    /\ lock' = "free" /\ rec' = NoPass
    /\ evidence' = [m \in Models |-> Forget(m)]
    /\ backoff' = NoBackoff /\ intents' = {}
    /\ row' = IF reconciled THEN [m \in Models |-> [row[m] EXCEPT !.state =
                CASE @ \in {"downloading", "loading"} -> "error" [] @ = "unloading" -> "loaded"
                  [] OTHER -> @]]
              ELSE row
    /\ ghost' = [ghost EXCEPT !.fruitless = 0, !.stranded = {m \in Models : row'[m].state \in TRANSIENT_STATES},
                              !.absent = [m \in Models |-> IF row[m].obs = "downloaded" THEN 1 ELSE 0]]
    /\ UNCHANGED <<disk, node>>

\* The reconciler's loop, an operation's two halves, a download and an
\* observation, each at whichever step it is.
Loop == Reconcile \/ TakeNode \/ RestoreOne \/ Restored \/ RoundEnds
Loading(a) == LoadRead(a) \/ LoadBudget(a) \/ LoadCommit(a) \/ LoadReturns(a) \/ LoadFails(a)
              \/ LoadEndLost(a)
Unloading(a) == UnloadCommit(a) \/ UnloadReturns(a)
Downloading(i) == DownloadClaim(i) \/ DownloadRun(i)
Probing(p) == ProbeAsk(p) \/ ProbeWrite(p)

Next ==
    \/ \E m \in Models : \/ OperatorLoad(m) \/ OperatorUnload(m) \/ GoesStale(m)
                         \/ \E i \in {1, 2} : DownloadStart(i, m)
                         \/ \E d \in BOOLEAN : SetDesiredResidency(m, d)
    \/ \E i \in {1, 2} : Downloading(i)
    \/ \E a \in Actors : Loading(a) \/ Unloading(a)
    \/ \E p \in Probers : Probing(p)
    \/ Loop \/ BackoffExpires
    \/ RuntimeRestarts
    \/ \E f \in {"hold", "blocked", "online"} : NodeChanges(f)
    \/ \E reconciled \in BOOLEAN : Crash(reconciled)

Spec == Init /\ [][Next]_vars

----------------------------------------------------------------------------
(* Properties *)

\* The shape of every variable: the registry's states and observations, tasks
\* on known models, and evidence that never counts past what is required.
TypeOK ==
    /\ \A m \in Models : /\ row[m].state \in States /\ row[m].obs \in Observations
                         /\ row[m].fresh => row[m].obs # "none"
                         /\ evidence[m].n \in 0..2
    /\ disk \subseteq Models /\ resident \subseteq Models
    /\ \A a \in Actors : {load[a].m, unld[a].m} \subseteq Models \cup {0}
    /\ lock \in Actors \cup {"free"}
    /\ rec.step \in {"idle", "lock", "next", "loading", "after", "releasing", "look", "looking"}
    /\ (rec.step \notin {"idle", "lock"}) <=> (lock = "reconciler")

\* A residency wish withdrawn while the reconciler's load of that model is in
\* flight is honoured by the same pass: by the time it looks at the node again
\* the fresh weights are gone (_restore_one reads the intent after the load).
WithdrawnGoes ==
    rec.step = "look" /\ rec.mid => Head(rec.queue) \notin resident

\* A pass sets out to restore a model only on two different answers of the
\* runtime that both said absent, however often the row was read in between
\* and whatever the reconciler forgot after a failure (AbsenceEvidence).
TwiceAbsent ==
    rec.step = "lock" => \A i \in DOMAIN rec.queue : ghost.absent[rec.queue[i]] >= 2

\* However the runtime evicts and fails, passes that loaded weights and still
\* failed stop after GIVE_UP_AFTER_WASTED_PASSES, until an operator changes the
\* intent or the desired set was seen resident.
GivesUp == ghost.fruitless <= GiveUpAfter

\* Loads of an operator and of the reconciler together never register more
\* memory than the node's budget: one holds the lock, or the other's LOADING is
\* already counted.  The models that a later check no longer counted are left
\* out: one the runtime was seen to have evicted, and one whose unload failed or
\* was cut short, which goes back to LOADED unasked.
RegisteredFits == Total(Registered \ spent.uncounted) <= Budget

\* A transient state always has the task that will end it, unless the process
\* died under it or the database refused the write that was to end it (which is
\* logged and passed over, and stays until the next deploy): no failure of a
\* load, an unload or a pull by itself strands a model in a state every later
\* operation refuses.
TransientOwned ==
    \A m \in Models \ ghost.stranded :
        /\ row[m].state = "loading" =>
              \E a \in Actors : load[a] = [step |-> "running", m |-> m]
        /\ row[m].state = "unloading" =>
              \E a \in Actors : unld[a] = [step |-> "running", m |-> m]
        /\ row[m].state = "downloading" =>
              \E i \in {1, 2} : pull[i] = [step |-> "running", m |-> m]

\* A node the reconciler may act on, and what it then owes: every model wanted
\* resident whose weights are on disk, unless it gave up.
Open == ~node.hold /\ ~node.blocked /\ node.online
DesiredResident ==
    backoff.gaveUp \/ \A m \in Models : row[m].desired /\ m \in disk => m \in resident

====
