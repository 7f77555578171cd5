------------------------ MODULE MaintenanceCoordinator ------------------------
(***************************************************************************)
(* A maintenance entry and its restore, carried out on every node          *)
(* (application/use_cases/maintenance_coordinator.py, manage_maintenance.py *)
(* and repositories/maintenance_operations.py).                            *)
(*                                                                         *)
(* The database holds the platform's hold, one operation per kind and      *)
(* epoch with an owner and a lease, and one step per node.  A coordinator  *)
(* process claims an operation, carries every node's step on from what it  *)
(* read, and writes each result back fenced on its ownership.  A call to a *)
(* node and the write of its result are two steps: between them the lease  *)
(* may expire, another coordinator take over, or the hold lift.            *)
(***************************************************************************)
EXTENDS Integers, FiniteSets, FiniteSetsExt

CONSTANTS
  Coordinators,   \* coordinator processes; a restarted one is another process
  Nodes,
  NumModels,      \* models are numbered by size
  NoOne,
  MaxAttempts,    \* MAX_ATTEMPTS, failed attempts per phase
  SnapshotTries,  \* SNAPSHOT_TRIES
  RepairRounds,   \* MAX_REPAIR_ROUNDS
  MaxEpoch,       \* bound on entries
  MaxFaults,      \* bound on lost calls, evictions, expired leases and deaths
  Restoring       \* whether an administrator asks for a restore

BoundAssumption ==
  /\ NoOne \notin Coordinators /\ NumModels \in Nat /\ MaxAttempts \in Nat \ {0}
  /\ SnapshotTries \in Nat /\ RepairRounds \in Nat
  /\ MaxEpoch \in Nat /\ MaxFaults \in Nat /\ Restoring \in BOOLEAN

Models == 1 .. NumModels
Epochs == 1 .. MaxEpoch
Kinds == {"enter", "restore"}
Operations == Kinds \X Epochs
NoOp == <<"none", 0>>
Dead == <<"dead", 0>>

VARIABLES
  closed, epoch,   \* maintenance_control
  status,          \* maintenance_operations.status, "none" before its insert
  owner, leased,   \* owner, and whether lease_expires_at is still ahead
  step,            \* maintenance_node_steps
  asked,           \* an administrator's restore or retry between read and write
  \* the nodes
  resident,        \* the models a runtime holds
  quiet,           \* the last epoch a node was interrupted for
  applied,         \* the resets and loads it carried out, by id
  refused,         \* the resets its supervisor has a receipt of failing, by id
  late,            \* calls that were given up on and may still take effect
  nextId,          \* reset ids minted
  \* the coordinators
  pass,            \* the operation a coordinator is working on; Dead for good
  mem,             \* its copy of each step
  at,              \* where it stands with each node
  got,             \* the last answer of each node
  unchecked,       \* _close_restore: the nodes not looked at yet
  faults,
  \* history
  held,            \* what a node held when it was first quiet in an epoch
  lapsed           \* nodes that lost a model while the closing check ran

db == <<closed, epoch, status, owner, leased, step, asked>>
nodeVars == <<resident, quiet, applied, refused, late>>
coordVars == <<pass, mem, at, got, unchecked>>
history == <<held, lapsed>>
vars == <<db, nodeVars, nextId, coordVars, faults, history>>

Phases == {"pending", "interrupted", "snapshotted", "reset", "loaded", "probed", "verified"}
NoSnapshot == {0}      \* neither a snapshot nor a reason
Unobserved == {-1}     \* snapshot_error
Says(word) == [says |-> word, seen |-> {}]
Saw(models) == [says |-> "saw", seen |-> models]
NoAnswer == Says("error")   \* an error, a timeout, an unobservable runtime

NewStep(snapshot) ==
  [phase |-> "pending", status |-> "running", attempts |-> 0, snapshot |-> snapshot,
   resetId |-> 0, accounting |-> "none", loads |-> 0, open |-> 0, probed |-> {}]

Held(e) == closed /\ epoch = e
Fault == faults < MaxFaults /\ faults' = faults + 1
NoFault == UNCHANGED faults

-----------------------------------------------------------------------------
(* The administrator.                                                      *)

AdminOnly == UNCHANGED <<nodeVars, nextId, coordVars, faults, history>>

\* The hold's conditional updates.
close == ~closed /\ closed' = TRUE /\ epoch' = epoch + 1
reopen == closed /\ closed' = FALSE /\ UNCHANGED epoch

create_entry(e) ==
  /\ status' = [status EXCEPT ![<<"enter", e>>] = "running"]
  /\ step' = [step EXCEPT ![<<"enter", e>>] = [n \in Nodes |-> NewStep(NoSnapshot)]]

\* enter(): the hold closes and the operation is recorded in one transaction.
Enter ==
  /\ epoch < MaxEpoch /\ close /\ create_entry(epoch + 1)
  /\ UNCHANGED <<owner, leased, asked>> /\ AdminOnly

\* restore(): everything it reads of the hold, the restore and the entry ...
MayRestore(e) ==
  /\ Held(e) /\ status[<<"restore", e>>] = "none" /\ status[<<"enter", e>>] = "succeeded"
  /\ \A n \in Nodes : LET s == step[<<"enter", e>>][n]
                      IN s.snapshot # Unobserved /\ s.accounting = "resolved"

AskRestore ==
  /\ Restoring /\ asked = NoOp /\ MayRestore(epoch)
  /\ asked' = <<"restore", epoch>>
  /\ UNCHANGED <<closed, epoch, status, owner, leased, step>> /\ AdminOnly

create_restore(e) ==
  /\ status' = [status EXCEPT ![<<"restore", e>>] = "running"]
  /\ step' = [step EXCEPT ![<<"restore", e>>] =
       [n \in Nodes |-> NewStep(step[<<"enter", e>>][n].snapshot)]]

\* ... and what it writes; the hold may have lifted in between.
CreateRestore ==
  /\ asked # NoOp /\ asked[1] = "restore" /\ status[asked] = "none"
  /\ create_restore(asked[2]) /\ asked' = NoOp
  /\ UNCHANGED <<closed, epoch, owner, leased>> /\ AdminOnly

\* retry(): the latest operation, failed, under the hold still closed ...
Latest == IF status[<<"restore", epoch>>] # "none" THEN <<"restore", epoch>> ELSE <<"enter", epoch>>

AskRetry ==
  /\ asked = NoOp /\ closed /\ status[Latest] = "failed"
  /\ asked' = Latest /\ faults < MaxFaults /\ faults' = faults + 1
  /\ UNCHANGED <<closed, epoch, status, owner, leased, step, nodeVars, nextId, coordVars, history>>

retry(o) ==
  /\ status[o] = "failed" /\ status' = [status EXCEPT ![o] = "running"]
  /\ owner' = [owner EXCEPT ![o] = NoOne] /\ leased' = [leased EXCEPT ![o] = FALSE]
  /\ step' = [step EXCEPT ![o] = [n \in Nodes |->
       IF @[n].status = "failed" THEN [@[n] EXCEPT !.status = "running", !.attempts = 0]
       ELSE @[n]]]

\* ... whose failed steps run again from where they stopped.
Retry ==
  /\ asked # NoOp /\ retry(asked) /\ asked' = NoOp
  /\ UNCHANGED <<closed, epoch>> /\ AdminOnly

abandon_running ==
  /\ status' = [o \in Operations |-> IF status[o] = "running" THEN "abandoned" ELSE status[o]]
  /\ owner' = [o \in Operations |-> IF status[o] = "running" THEN NoOne ELSE owner[o]]
  /\ leased' = [o \in Operations |-> status[o] # "running" /\ leased[o]]

\* reopen(): the hold lifts and what runs under it ends, in one transaction.
Reopen == reopen /\ abandon_running /\ UNCHANGED <<step, asked>> /\ AdminOnly

Admin == Enter \/ AskRestore \/ CreateRestore \/ AskRetry \/ Retry \/ Reopen

-----------------------------------------------------------------------------
(* The nodes.                                                              *)

NodeOnly == UNCHANGED <<db, nextId, coordVars>>

\* Requests load models until the node is quiet for the hold.
Traffic(n) ==
  /\ ~(closed /\ quiet[n] = epoch) /\ resident[n] # Models
  /\ resident' = [resident EXCEPT ![n] = Models]
  /\ NoFault /\ UNCHANGED <<quiet, applied, refused, late, history>> /\ NodeOnly

\* Keep-alive or memory pressure drops a model while a restore runs.
Evict(n) ==
  /\ closed /\ status[<<"restore", epoch>>] = "running" /\ Fault
  /\ \E m \in resident[n] : resident' = [resident EXCEPT ![n] = @ \ {m}]
  /\ lapsed' = IF \E c \in Coordinators : at[c][n] = "checked" THEN lapsed \cup {n} ELSE lapsed
  /\ UNCHANGED <<quiet, applied, refused, late, held>> /\ NodeOnly

\* What a call does to the runtime, once per id: a reset leaves it empty, a
\* load adds a model and may evict a sibling.  A request with a receipt, of a
\* failure too, is not carried out again.
Perform(n, call) ==
  IF call \in applied[n] \cup refused[n] THEN UNCHANGED <<resident, applied>> ELSE
    /\ applied' = [applied EXCEPT ![n] = @ \cup {call}]
    /\ IF call.kind = "reset" THEN resident' = [resident EXCEPT ![n] = {}]
       ELSE IF call.model \in resident[n] THEN UNCHANGED resident
       ELSE \E out \in {{}} \cup {{x} : x \in resident[n]} :
              resident' = [resident EXCEPT ![n] = (@ \cup {call.model}) \ out]

\* A call given up on takes effect after all, under its hold only.
Late(n) ==
  /\ \E call \in late[n] :
       /\ late' = [late EXCEPT ![n] = @ \ {call}]
       /\ IF Held(call.epoch) THEN Perform(n, call) ELSE UNCHANGED <<resident, applied>>
  /\ NoFault /\ UNCHANGED <<quiet, refused, history>> /\ NodeOnly

-----------------------------------------------------------------------------
(* The coordinator's writes, each fenced on its ownership of a running     *)
(* operation.                                                              *)

Fenced(c, o) == owner[o] = c /\ status[o] = "running"

\* A new phase starts with no failed attempts; the first snapshot is kept.
advance(s, phase, to) ==
  [to EXCEPT !.phase = phase,
             !.attempts = IF s.phase = phase THEN s.attempts ELSE 0,
             !.status = IF phase = "verified" THEN "done" ELSE s.status,
             !.snapshot = IF s.snapshot = NoSnapshot THEN to.snapshot ELSE s.snapshot]

\* Mutant: every failed attempt forgets its reset id.
AttemptForgetsReset(s, final, clear) ==
  [s EXCEPT !.attempts = @ + 1, !.resetId = 0,
            !.status = IF final \/ s.attempts + 1 >= MaxAttempts THEN "failed" ELSE @]

attempt_failed(s, final, clear) ==
  [s EXCEPT !.attempts = @ + 1,
            !.resetId = IF clear THEN 0 ELSE @,
            !.status = IF final \/ s.attempts + 1 >= MaxAttempts THEN "failed" ELSE @]

\* _advance: write, and carry on from the row; _Lost ends the node's task.
Write(c, n, s, next) ==
  LET o == pass[c]  row == step[o][n] IN
  /\ got' = [got EXCEPT ![c][n] = NoAnswer]
  /\ IF Fenced(c, o) /\ row.status = "running"
     THEN /\ step' = [step EXCEPT ![o][n] = s]
          /\ mem' = [mem EXCEPT ![c][n] = s]
          /\ at' = [at EXCEPT ![c][n] = IF s.status = "running" THEN next ELSE "ended"]
     ELSE at' = [at EXCEPT ![c][n] = "ended"] /\ UNCHANGED <<step, mem>>

Advance(c, n, phase, to) == Write(c, n, advance(step[pass[c]][n], phase, to), "call")
Failed(c, n, final, clear) ==
  Write(c, n, attempt_failed(step[pass[c]][n], final, clear), "ended")

WriteOnly == UNCHANGED <<closed, epoch, status, owner, leased, asked, nodeVars, pass, unchecked, history>>

-----------------------------------------------------------------------------
(* One node of an entry: interrupt, snapshot, reset, verify.               *)

Here(c, n, where, kind) == pass[c] \in Operations /\ pass[c][1] = kind /\ at[c][n] \in where
Ready == {"start", "call"}
Answer(c, n, a) ==
  /\ got' = [got EXCEPT ![c][n] = a]
  /\ at' = [at EXCEPT ![c][n] = IF @ = "send" THEN "said" ELSE "answered"]
CallOnly == UNCHANGED <<db, nextId, pass, mem, unchecked>>

\* _control_for: the node has lost its agent.
NoControl(c, n) ==
  /\ pass[c] \in Operations /\ at[c][n] = "start" /\ Fault
  /\ Failed(c, n, TRUE, FALSE) /\ UNCHANGED nextId /\ WriteOnly

\* interrupt(): a node that is still closed for the epoch freezes; senders
\* that will not stop, or no answer, are an error.
Interrupt(c, n) ==
  LET e == pass[c][2] IN
  /\ Here(c, n, Ready, "enter") /\ mem[c][n].phase = "pending"
  /\ \/ /\ Held(e) /\ NoFault
        /\ quiet' = [quiet EXCEPT ![n] = e]
        /\ held' = [held EXCEPT ![e][n] = IF @ = NoSnapshot THEN resident[n] ELSE @]
        /\ Answer(c, n, Says("quiescent"))
     \/ /\ IF Held(e) THEN Fault ELSE NoFault
        /\ Answer(c, n, NoAnswer) /\ UNCHANGED <<quiet, held>>
  /\ UNCHANGED <<resident, applied, refused, late, lapsed>> /\ CallOnly

\* residency(): what the runtime holds, or nothing.
Observed(c, n) ==
  \/ NoFault /\ Answer(c, n, Saw(resident[n]))
  \/ Fault /\ Answer(c, n, NoAnswer)

Observe(c, n) ==
  /\ \/ /\ Here(c, n, Ready, "enter")
        /\ \/ mem[c][n].phase = "interrupted" /\ mem[c][n].snapshot = NoSnapshot
           \/ mem[c][n].phase = "reset"
     \/ /\ Here(c, n, Ready, "restore")
        /\ \/ mem[c][n].phase \in {"pending", "probed"}
           \/ mem[c][n].phase = "loaded" /\ mem[c][n].probed = mem[c][n].snapshot
  /\ Observed(c, n) /\ UNCHANGED <<nodeVars, history>> /\ CallOnly

\* set_reset_id: an id is recorded before the reset is asked for.
SetResetId(c, n) ==
  LET o == pass[c] IN
  /\ Here(c, n, Ready, "enter") /\ mem[c][n].phase = "snapshotted" /\ mem[c][n].resetId = 0
  /\ IF Fenced(c, o) /\ step[o][n].resetId = 0
     THEN /\ nextId' = nextId + 1
          /\ step' = [step EXCEPT ![o][n].resetId = nextId']
          /\ mem' = [mem EXCEPT ![c][n].resetId = nextId']
          /\ at' = [at EXCEPT ![c][n] = "call"]
     ELSE at' = [at EXCEPT ![c][n] = "ended"] /\ UNCHANGED <<nextId, step, mem>>
  /\ NoFault /\ UNCHANGED got /\ WriteOnly

\* NodeAgentControl._call on a route that changes the runtime: done and answered, refused because the hold
\* is gone, or given up on, having taken effect, never to, or still to come.
Send(c, n, call, done) ==
  \/ Held(call.epoch) /\ NoFault /\ Perform(n, call) /\ Answer(c, n, Says(done)) /\ UNCHANGED late
  \/ ~Held(call.epoch) /\ NoFault /\ Answer(c, n, NoAnswer) /\ UNCHANGED <<resident, applied, late>>
  \/ /\ Fault /\ Answer(c, n, NoAnswer) /\ Held(call.epoch)
     /\ \/ Perform(n, call) /\ UNCHANGED late
        \/ late' \in {late, [late EXCEPT ![n] = @ \cup {call}]} /\ UNCHANGED <<resident, applied>>

\* reset(): also refused while a sender the interrupt missed talks to the
\* runtime it would restart.  A restart that fails may have stopped the runtime,
\* and asking for it again is answered from its receipt.
WasReset(n, e) == \E call \in applied[n] : call.kind = "reset" /\ call.epoch = e
ResetCall(e, id) == [kind |-> "reset", epoch |-> e, id |-> id, model |-> 0]

Reset(c, n) ==
  LET e == pass[c][2]  call == ResetCall(e, mem[c][n].resetId) IN
  /\ Here(c, n, Ready, "enter") /\ mem[c][n].phase = "snapshotted" /\ mem[c][n].resetId # 0
  /\ \/ /\ Held(e) => quiet[n] = e
        /\ \E answer \in IF call \in refused[n] THEN {"restart_failed"}
                         ELSE {"resolved", "unresolved"} : Send(c, n, call, answer)
        /\ UNCHANGED <<quiet, refused>>
     \/ /\ Held(e) /\ quiet[n] = e /\ call \notin applied[n] \cup refused[n] /\ Fault
        /\ Answer(c, n, Says("restart_failed"))
        /\ refused' = [refused EXCEPT ![n] = @ \cup {call}]
        /\ resident' \in {resident, [resident EXCEPT ![n] = {}]}
        /\ UNCHANGED <<quiet, applied, late>>
     \/ /\ Held(e) /\ Answer(c, n, Says("not_quiescent")) /\ quiet' = [quiet EXCEPT ![n] = 0]
        /\ IF quiet[n] = e THEN Fault /\ ~WasReset(n, e) ELSE NoFault
        /\ UNCHANGED <<resident, applied, refused, late>>
  /\ UNCHANGED history /\ CallOnly

\* _next: what is written once the call answered, or without one.
EntryWrite(c, n) ==
  LET s == mem[c][n]  a == got[c][n].says  seen == got[c][n].seen IN
  /\ \/ /\ Here(c, n, Ready, "enter") /\ s.phase = "interrupted" /\ s.snapshot # NoSnapshot
        /\ Advance(c, n, "snapshotted", s)
     \/ /\ Here(c, n, {"answered"}, "enter")
        /\ CASE s.phase = "pending" ->
                  IF a = "quiescent" THEN Advance(c, n, "interrupted", s)
                  ELSE Failed(c, n, FALSE, FALSE)
             [] s.phase = "interrupted" ->
                  IF a = "saw" THEN Advance(c, n, "snapshotted", [s EXCEPT !.snapshot = seen])
                  ELSE IF s.attempts + 1 < SnapshotTries THEN Failed(c, n, FALSE, FALSE)
                  ELSE Advance(c, n, "snapshotted", [s EXCEPT !.snapshot = Unobserved])
             [] s.phase = "snapshotted" ->
                  IF a \in {"resolved", "unresolved"}
                  THEN Advance(c, n, "reset", [s EXCEPT !.accounting = a])
                  ELSE IF a = "not_quiescent"
                  THEN Write(c, n, advance(step[pass[c]][n], "pending", s), "ended")
                  ELSE Failed(c, n, a = "restart_failed", a = "restart_failed")
             [] s.phase = "reset" ->
                  IF a = "saw" /\ seen = {} THEN Advance(c, n, "verified", s) ELSE Failed(c, n, FALSE, FALSE)
  /\ NoFault /\ UNCHANGED nextId /\ WriteOnly

-----------------------------------------------------------------------------
(* One node of a restore: load the largest missing model until none is     *)
(* missing, probe each, and observe the whole node again.                  *)

strangers(s, seen) == seen \ s.snapshot
missing(s, seen) == s.snapshot \ seen

\* _next_restore in PENDING, after the observation: the load is recorded
\* before it is sent, and one asked before and not answered keeps its id.
NextLoad(c, n) ==
  LET s == mem[c][n]  model == Max(missing(s, got[c][n].seen)) IN
  IF s.open = model THEN at' = [at EXCEPT ![c][n] = "send"] /\ UNCHANGED <<step, mem, got>>
  ELSE Write(c, n, advance(step[pass[c]][n], "pending",
                           [s EXCEPT !.loads = @ + 1, !.open = model, !.probed = {}]), "send")

\* _still_whole and the observation of PENDING.
RestoreDecide(c, n) ==
  LET s == mem[c][n]  seen == got[c][n].seen IN
  /\ Here(c, n, {"answered"}, "restore")
  /\ IF got[c][n] = NoAnswer THEN Failed(c, n, FALSE, FALSE)
     ELSE IF strangers(s, seen) # {} THEN Failed(c, n, TRUE, FALSE)
     ELSE IF missing(s, seen) = {}
     THEN CASE s.phase = "pending" -> Advance(c, n, "loaded", [s EXCEPT !.probed = {}])
            [] s.phase = "loaded" -> Advance(c, n, "probed", s)
            [] s.phase = "probed" -> Advance(c, n, "verified", s)
     ELSE IF s.phase # "pending" THEN Advance(c, n, "pending", [s EXCEPT !.probed = {}])
     ELSE IF s.loads >= Cardinality(s.snapshot) * (1 + RepairRounds)
     THEN Failed(c, n, TRUE, FALSE)
     ELSE NextLoad(c, n)
  /\ NoFault /\ UNCHANGED nextId /\ WriteOnly

\* The load itself; the agent may also answer that it failed.
SendLoad(c, n) ==
  LET s == mem[c][n]
      call == [kind |-> "load", epoch |-> pass[c][2], id |-> s.loads, model |-> s.open] IN
  /\ Here(c, n, {"send"}, "restore") /\ UNCHANGED <<quiet, refused>>
  /\ \/ Send(c, n, call, "completed")
     \/ /\ Held(call.epoch) /\ Fault /\ Answer(c, n, Says("failed"))
        /\ UNCHANGED <<resident, applied, late>>
  /\ UNCHANGED history /\ CallOnly

\* The probe of the next model not probed yet; a check may evict a sibling.
Probe(c, n) ==
  LET s == mem[c][n] IN
  /\ Here(c, n, Ready, "restore") /\ s.phase = "loaded" /\ s.probed # s.snapshot
  /\ at' = [at EXCEPT ![c][n] = "said"]
  /\ \/ Held(pass[c][2]) /\ NoFault /\ got' = [got EXCEPT ![c][n] = Says("completed")]
     \/ /\ IF Held(pass[c][2]) THEN Fault ELSE NoFault
        /\ got' = [got EXCEPT ![c][n] = NoAnswer]
  /\ UNCHANGED <<nodeVars, history>> /\ CallOnly

\* What the load's or the probe's answer is recorded as; a load that failed is
\* closed first, and one that only went unanswered keeps its id.
RestoreWrite(c, n) ==
  LET s == mem[c][n]  a == got[c][n].says  row == step[pass[c]][n] IN
  /\ Here(c, n, {"said"}, "restore")
  /\ IF s.phase = "loaded"
     THEN IF a = "completed"
          THEN Advance(c, n, "loaded", [s EXCEPT !.probed = @ \cup {Max(s.snapshot \ @)}])
          ELSE Failed(c, n, FALSE, FALSE)
     ELSE IF a = "completed" THEN Advance(c, n, "pending", [s EXCEPT !.open = 0])
     ELSE Write(c, n, attempt_failed([row EXCEPT !.open = IF a = "failed" THEN 0 ELSE @],
                                     FALSE, FALSE), "ended")
  /\ NoFault /\ UNCHANGED nextId /\ WriteOnly

-----------------------------------------------------------------------------
(* The operation.                                                          *)

Older(p, o) == p[2] < o[2] \/ (p[2] = o[2] /\ p[1] = "enter" /\ o[1] = "restore")
Claimable(c, o) == status[o] = "running" /\ (owner[o] \in {NoOne, c} \/ ~leased[o])

\* run_once, and claim: the oldest operation nobody else has leased.
Claim(c) ==
  /\ pass[c] = NoOp
  /\ \E o \in Operations :
       /\ Claimable(c, o) /\ \A p \in Operations : Claimable(c, p) => ~Older(p, o)
       /\ pass' = [pass EXCEPT ![c] = o]
       /\ owner' = [owner EXCEPT ![o] = c] /\ leased' = [leased EXCEPT ![o] = TRUE]
       /\ mem' = [mem EXCEPT ![c] = step[o]]
       /\ at' = [at EXCEPT ![c] = [n \in Nodes |-> "claimed"]]
  /\ NoFault
  /\ UNCHANGED <<closed, epoch, status, step, asked, nodeVars, nextId, got, unchecked, history>>

PassOver(c) ==
  /\ pass' = [pass EXCEPT ![c] = NoOp]
  /\ at' = [at EXCEPT ![c] = [n \in Nodes |-> "idle"]]
  /\ mem' = [mem EXCEPT ![c] = [n \in Nodes |-> NewStep(NoSnapshot)]]
  /\ unchecked' = [unchecked EXCEPT ![c] = {}]

\* finish: fenced, and the owner and lease are cleared.
finish(c, o, to) ==
  IF Fenced(c, o)
  THEN /\ status' = [status EXCEPT ![o] = to]
       /\ owner' = [owner EXCEPT ![o] = NoOne] /\ leased' = [leased EXCEPT ![o] = FALSE]
  ELSE UNCHANGED <<status, owner, leased>>

\* The hold is read after the claim: carry every running step, or abandon.
Begin(c) ==
  LET o == pass[c] IN
  /\ o \in Operations /\ \A n \in Nodes : at[c][n] = "claimed"
  /\ IF Held(o[2])
     THEN /\ at' = [at EXCEPT ![c] = [n \in Nodes |->
                      IF mem[c][n].status = "running" THEN "start" ELSE "ended"]]
          /\ UNCHANGED <<pass, mem, unchecked, status, owner, leased>>
     ELSE finish(c, o, "abandoned") /\ PassOver(c)
  /\ NoFault
  /\ UNCHANGED <<closed, epoch, step, asked, nodeVars, nextId, got, history>>

Ended(c) == pass[c] \in Operations /\ \A n \in Nodes : at[c][n] = "ended"

Failures(o) == {n \in Nodes : step[o][n].status = "failed"}

Outcome(o) == IF Failures(o) = {} THEN "succeeded" ELSE "failed"

\* Mutant: each node's own verification is enough to reopen.
ClosingUnchecked(c) ==
  /\ at' = [at EXCEPT ![c] = [n \in Nodes |-> "checked"]]
  /\ unchecked' = [unchecked EXCEPT ![c] = {}]

\* _close_restore: all of the nodes are looked at again before the commit.
Closing(c) ==
  /\ at' = [at EXCEPT ![c] = [n \in Nodes |-> "closing"]]
  /\ unchecked' = [unchecked EXCEPT ![c] = Nodes]

\* _close, and the failing half of _close_restore, once no step runs.
Close(c) ==
  LET o == pass[c] IN
  /\ Ended(c)
  /\ IF (\E n \in Nodes : step[o][n].status = "running") \/ owner[o] \notin {NoOne, c}
     THEN PassOver(c) /\ UNCHANGED <<status, owner, leased>>
     ELSE IF o[1] = "enter" \/ Failures(o) # {}
     THEN finish(c, o, Outcome(o)) /\ PassOver(c)
     ELSE /\ Closing(c) /\ mem' = [mem EXCEPT ![c] = step[o]]
          /\ UNCHANGED <<pass, status, owner, leased>>
  /\ NoFault /\ UNCHANGED <<closed, epoch, step, asked, nodeVars, nextId, got, history>>

\* rewind: a done step that no longer verifies runs again.
rewind(c, n) ==
  LET o == pass[c] IN
  step' = IF Fenced(c, o) /\ step[o][n].status = "done"
          THEN [step EXCEPT ![o][n].status = "running", ![o][n].phase = "pending",
                            ![o][n].attempts = 0]
          ELSE step

\* _close_restore's loop: every node is looked at once more.
CloseCheck(c) ==
  /\ pass[c] \in Operations /\ unchecked[c] # {}
  /\ \E n \in unchecked[c] :
       \/ /\ resident[n] = mem[c][n].snapshot /\ NoFault
          /\ unchecked' = [unchecked EXCEPT ![c] = @ \ {n}]
          /\ at' = [at EXCEPT ![c][n] = "checked"]
          /\ lapsed' = (IF Held(pass[c][2]) THEN lapsed \ {n} ELSE lapsed)
          /\ UNCHANGED <<pass, mem, step>>
       \/ /\ IF resident[n] = mem[c][n].snapshot THEN Fault ELSE NoFault
          /\ rewind(c, n) /\ PassOver(c) /\ UNCHANGED lapsed
  /\ UNCHANGED <<closed, epoch, status, owner, leased, asked, nodeVars, nextId, got, held>>

\* reopen_after: the restore ends and its hold lifts in one transaction.
ServingCommit(c) ==
  LET o == pass[c] IN
  /\ o \in Operations /\ \A n \in Nodes : at[c][n] = "checked"
  /\ IF Fenced(c, o) /\ Held(o[2]) THEN closed' = FALSE /\ finish(c, o, "succeeded")
     ELSE UNCHANGED <<closed, status, owner, leased>>
  /\ PassOver(c) /\ NoFault
  /\ UNCHANGED <<epoch, step, asked, nodeVars, nextId, got, history>>

\* A pass that stalls past its lease, and a process that is gone for good.
LeaseExpires(o) ==
  /\ leased[o] /\ leased' = [leased EXCEPT ![o] = FALSE]
  /\ IF pass[owner[o]] = Dead THEN NoFault ELSE Fault
  /\ UNCHANGED <<closed, epoch, status, owner, step, asked, nodeVars, nextId, coordVars, history>>

\* _keep_lease.
Renew(c) ==
  /\ pass[c] \in Operations /\ Fenced(c, pass[c]) /\ ~leased[pass[c]]
  /\ leased' = [leased EXCEPT ![pass[c]] = TRUE]
  /\ NoFault
  /\ UNCHANGED <<closed, epoch, status, owner, step, asked, nodeVars, nextId, coordVars, history>>

Dies(c) ==
  /\ pass[c] \in Operations /\ \E d \in Coordinators \ {c} : pass[d] # Dead
  /\ Fault /\ pass' = [pass EXCEPT ![c] = Dead]
  /\ at' = [at EXCEPT ![c] = [n \in Nodes |-> "idle"]]
  /\ mem' = [mem EXCEPT ![c] = [n \in Nodes |-> NewStep(NoSnapshot)]]
  /\ got' = [got EXCEPT ![c] = [n \in Nodes |-> NoAnswer]]
  /\ unchecked' = [unchecked EXCEPT ![c] = {}]
  /\ UNCHANGED <<db, nodeVars, nextId, history>>

Init ==
  /\ closed = FALSE /\ epoch = 0 /\ asked = NoOp /\ nextId = 0 /\ faults = 0
  /\ status = [o \in Operations |-> "none"]
  /\ owner = [o \in Operations |-> NoOne] /\ leased = [o \in Operations |-> FALSE]
  /\ step = [o \in Operations |-> [n \in Nodes |-> NewStep(NoSnapshot)]]
  /\ resident = [n \in Nodes |-> Models] /\ quiet = [n \in Nodes |-> 0]
  /\ applied = [n \in Nodes |-> {}] /\ refused = [n \in Nodes |-> {}] /\ late = [n \in Nodes |-> {}]
  /\ pass = [c \in Coordinators |-> NoOp]
  /\ mem = [c \in Coordinators |-> [n \in Nodes |-> NewStep(NoSnapshot)]]
  /\ at = [c \in Coordinators |-> [n \in Nodes |-> "idle"]]
  /\ got = [c \in Coordinators |-> [n \in Nodes |-> NoAnswer]]
  /\ unchecked = [c \in Coordinators |-> {}]
  /\ held = [e \in Epochs |-> [n \in Nodes |-> NoSnapshot]]
  /\ lapsed = {}

Node(c, n) ==
  \/ Interrupt(c, n) \/ Observe(c, n) \/ SetResetId(c, n) \/ Reset(c, n) \/ EntryWrite(c, n)
  \/ RestoreDecide(c, n) \/ SendLoad(c, n) \/ Probe(c, n) \/ RestoreWrite(c, n)

Pass(c) == Claim(c) \/ Begin(c) \/ Close(c) \/ CloseCheck(c) \/ ServingCommit(c) \/ Renew(c)

Next ==
  \/ Admin
  \/ \E n \in Nodes : Traffic(n) \/ Evict(n) \/ Late(n)
  \/ \E c \in Coordinators : Pass(c) \/ Dies(c) \/ \E n \in Nodes : Node(c, n) \/ NoControl(c, n)
  \/ \E o \in Operations : LeaseExpires(o)

Spec == Init /\ [][Next]_vars

-----------------------------------------------------------------------------
(* Properties.                                                             *)

TypeOK ==
  /\ closed \in BOOLEAN /\ epoch \in 0 .. MaxEpoch /\ asked \in Operations \cup {NoOp}
  /\ status \in [Operations -> {"none", "running", "failed", "succeeded", "abandoned"}]
  /\ owner \in [Operations -> Coordinators \cup {NoOne}] /\ leased \in [Operations -> BOOLEAN]
  /\ \A o \in Operations, n \in Nodes :
       LET s == step[o][n] IN
       /\ s.phase \in Phases /\ s.status \in {"running", "failed", "done"}
       /\ s.attempts \in 0 .. MaxAttempts /\ s.resetId \in 0 .. nextId
       /\ s.snapshot \subseteq Models \/ s.snapshot \in {NoSnapshot, Unobserved}
       /\ s.loads <= NumModels * (1 + RepairRounds)
  /\ pass \in [Coordinators -> Operations \cup {NoOp, Dead}]
  /\ resident \in [Nodes -> SUBSET Models] /\ faults \in 0 .. MaxFaults

\* An entry that succeeded has emptied every runtime for as long as its hold is
\* closed and nothing is restored: no coordinator that lost its lease, no call
\* given up on and no sender that outlived the interrupt loads or leaves a model
\* behind (_next's RESET phase, _close).
EntryReleased ==
  (closed /\ status[<<"enter", epoch>>] = "succeeded" /\ status[<<"restore", epoch>>] = "none")
    => \A n \in Nodes : resident[n] = {}

\* The snapshot is the runtime as the hold found it or an admission that nobody
\* saw it, never the runtime a reset has already emptied: not after a crash, a
\* takeover or an administrator's retry.
SnapshotIsOriginal ==
  \A e \in Epochs, n \in Nodes :
    LET saved == step[<<"enter", e>>][n].snapshot
    IN saved \subseteq Models => saved = held[e][n]

\* A node is restarted once per entry: a coordinator that died between the reset
\* and its record, or gave up waiting for it, is answered from the reset already
\* made, and only a restart the supervisor reported failed is asked for anew.
RestartedOnce ==
  \A n \in Nodes : \A call, other \in applied[n] :
    call.kind = "reset" /\ other.kind = "reset" /\ call.epoch = other.epoch => call = other

\* The restore reopens a platform whose every node holds exactly its snapshot,
\* but for a model lost after that node's last look.
RestoreWhole ==
  (closed /\ ~closed' /\ status[<<"restore", epoch>>] = "running"
     /\ status'[<<"restore", epoch>>] = "succeeded")
    => \A n \in Nodes \ lapsed : resident[n] = step[<<"restore", epoch>>][n].snapshot

\* What may not last: an entry or a restore under way.
Running(o) == status[o] = "running"

\* The lease of a coordinator that is gone runs out.
DeadLeaseExpires(o) == LeaseExpires(o) /\ pass[owner[o]] = Dead
=============================================================================
