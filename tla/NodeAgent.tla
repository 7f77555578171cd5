------------------------------ MODULE NodeAgent ------------------------------
(***************************************************************************)
(* The node agent: the process that owns one node's runtime and decides    *)
(* what is sent to it (backend/app/node_agent).                            *)
(*                                                                         *)
(* Three parties share the state below.                                    *)
(*   - PostgreSQL: who owns the node (election.py), the durable row of     *)
(*     every operation (store.py) and the platform's maintenance hold.     *)
(*   - Agent processes, each with an in-memory gate (dispatch.py), a       *)
(*     watchdog (service.py) and pending resolutions (resolution.py).      *)
(*   - The runtime (Ollama): external, known only by what it executes.     *)
(*                                                                         *)
(* One database transaction is one step, and so is one section of the      *)
(* dispatcher's barrier.  What happens between two awaits of a handler is  *)
(* kept in task[p][o], the place process p has reached with operation o.   *)
(***************************************************************************)
EXTENDS Integers, FiniteSets

CONSTANTS
  Agents,         \* agent processes; a restarted one takes a new generation
  Ops,            \* operation ids
  LifecycleOps,   \* load, unload, pull, repin: exclusive with dispatch
  RestoreOps,     \* a maintenance restore's load or probe
  SummaryOps,     \* summaries: one outstanding per node
  KernelOf,       \* the kernel (VM boot) a process runs under
  DomainOf,       \* the lock domain (volume) it was started on
  NoAgent, NoOp,
  MaxInflight,    \* settings.max_inflight
  MaxQueued,      \* settings.max_queued
  DbFaults,       \* whether database calls may raise
  MaxGeneration,  \* bound on elections
  MaxEpoch,       \* bound on maintenance entries
  MaxInstance     \* bound on runtime instances

ASSUME AgentAssumption == NoAgent \notin Agents /\ NoOp \notin Ops
ASSUME KindAssumption ==
  /\ LifecycleOps \subseteq Ops /\ RestoreOps \subseteq Ops /\ SummaryOps \subseteq Ops
  /\ LifecycleOps \cap RestoreOps = {}
  /\ SummaryOps \cap (LifecycleOps \cup RestoreOps) = {}
ASSUME BoundAssumption ==
  /\ MaxInflight \in Nat \ {0} /\ MaxQueued \in Nat \ {0}
  /\ MaxGeneration \in Nat /\ MaxEpoch \in Nat /\ MaxInstance \in Nat
  /\ DbFaults \in BOOLEAN

ExclusiveOps == LifecycleOps \cup RestoreOps

VARIABLES
  \* PostgreSQL
  generation,   \* node_agents.generation
  owner,        \* the process whose boot_id node_agents records
  session,      \* the process whose connection holds the election lock
  opState,      \* node_operations.state
  opGen,        \* node_operations.owner_generation
  closed,       \* maintenance_control.admission_closed
  epoch,        \* maintenance_control.epoch
  \* agent processes
  myGen,        \* the generation a process was elected with
  gate,         \* Dispatcher._state, or "off" / "starting" before it exists
  frozenAt,     \* Dispatcher._frozen_epoch, 0 when not frozen
  exclusive,    \* Dispatcher._exclusive
  restoring,    \* the epoch _exclusive was admitted for as a restore, or 0
  operatorHold, \* processes with _held_by_operator
  stopping,     \* processes told to terminate
  uncommitted,  \* Dispatcher._uncommitted_unknown
  task,         \* where each handler or task stands
  tick,         \* the hold the watchdog read and has not applied yet
  baseline,     \* Resolutions._pending: the instance attested, 0 for none
  \* the runtime, and what reached it
  instance,     \* the runtime process now listening
  executing,    \* operations it may still be working on
  delivered,    \* how often an operation's request reached a runtime
  quietAt       \* the last epoch for which the owner reported quiescence

\* Who owns the node and whether the platform is held: few steps change it.
idVars == <<generation, owner, session, closed, epoch, myGen>>
rowVars == <<opState, opGen>>
memVars == <<frozenAt, exclusive, restoring, operatorHold, stopping, tick, baseline>>
runtimeVars == <<instance, executing, delivered>>
vars == <<idVars, rowVars, memVars, gate, uncommitted, task, runtimeVars, quietAt>>

RowState == {"absent", "accepted", "running", "outcome_unknown",
             "completed", "failed", "cancelled_unsent"}
Gate == {"off", "starting", "serving", "draining", "blocked", "maintenance", "lost"}

\* Before promotion: passed the gate, row inserted, (lifecycle) node seen idle,
\* slot held, and the two ways of giving up.
Waiting == {"inserting", "queued", "idle", "slot", "unsent", "doubt"}
\* _sending: a relay is talking to the runtime.
Senders == {"sending", "sent", "cancelled"}
\* An outcome is known and not committed yet.
Settling == {"withheld", "completed", "failed", "uncertain", "marked"}
\* _admitted: a task of its own.
Tasks == {"promoted"} \cup Senders \cup Settling
Place == {"none"} \cup Waiting \cup Tasks \cup {"ending", "reopening"}

NoTick == -1
ThawTick == 0

-----------------------------------------------------------------------------
(* What the guards read.                                                   *)

Up(p) == gate[p] \notin {"off", "starting"}
Admitted(p) == {o \in Ops : task[p][o] \in Tasks}
Sending(p) == {o \in Ops : task[p][o] \in Senders}
Queued(p) == {o \in Ops \ ExclusiveOps : task[p][o] \in Waiting}
SlotsTaken(p) == {o \in Ops : task[p][o] \in {"slot"} \cup Tasks}

\* _prove_ownership: generation and boot id of node_agents.
Owns(p) == owner = p /\ generation = myGen[p]

AnyUnknown == \E o \in Ops : opState[o] = "outcome_unknown"

\* A row this process may move out of state s.
Mine(p, o, s) == opState[o] = s /\ opGen[o] = myGen[p]

\* Mutant: a summary whose row was left accepted no longer counts.
SummaryBusyOnceSent(o) ==
  o \in SummaryOps /\ \E x \in SummaryOps \ {o} : opState[x] \in {"running", "outcome_unknown"}

SummaryBusy(o) ==
  /\ o \in SummaryOps
  /\ \E x \in SummaryOps \ {o} : opState[x] \in {"accepted", "running", "outcome_unknown"}

\* A second process cannot hold the flock of the same lock file.
HostLockFree(p) ==
  \A q \in Agents : (KernelOf[q] = KernelOf[p] /\ DomainOf[q] = DomainOf[p]) => gate[q] = "off"

\* _close_locked: lost is final, a hold outranks a block, a block a drain.
CloseTo(p, s) ==
  IF gate[p] = "lost" THEN "lost"
  ELSE IF frozenAt[p] # 0 /\ s # "lost" THEN gate[p]
  ELSE IF s = "draining" /\ gate[p] = "blocked" THEN "blocked" ELSE s

\* Mutant: only the ledger is asked, not what this process could not write to it.
ReopenByLedger(p, f, x) ==
  IF gate[p] = "lost" \/ x # NoOp THEN gate[p]
  ELSE IF f # 0 THEN "maintenance"
  ELSE IF AnyUnknown THEN "blocked" ELSE "serving"

\* _reopen_locked, for a process frozen at f with x as its exclusive operation.
ReopenTo(p, f, x) ==
  IF gate[p] = "lost" \/ x # NoOp THEN gate[p]
  ELSE IF f # 0 THEN "maintenance"
  ELSE IF uncommitted[p] # {} \/ AnyUnknown THEN "blocked" ELSE "serving"

Restorable(p, e, x) ==
  gate[p] = "maintenance" /\ frozenAt[p] = e /\ e # 0 /\ exclusive[p] = x /\ Sending(p) = {}

\* Where a handler goes when its operation was not handed to a task, and where
\* a task goes once settled: an exclusive one still has to give the node back.
Leave(o) == IF o \in ExclusiveOps THEN "ending" ELSE "none"

Goto(p, o, place) == task' = [task EXCEPT ![p][o] = place]
SetGate(p, s) == gate' = [gate EXCEPT ![p] = s]
SetRow(o, s, g) == opState' = [opState EXCEPT ![o] = s] /\ opGen' = [opGen EXCEPT ![o] = g]

-----------------------------------------------------------------------------
Init ==
  /\ generation = 0 /\ owner = NoAgent /\ session = NoAgent
  /\ opState = [o \in Ops |-> "absent"] /\ opGen = [o \in Ops |-> 0]
  /\ closed = FALSE /\ epoch = 0
  /\ myGen = [p \in Agents |-> 0] /\ gate = [p \in Agents |-> "off"]
  /\ frozenAt = [p \in Agents |-> 0] /\ exclusive = [p \in Agents |-> NoOp]
  /\ restoring = [p \in Agents |-> 0] /\ operatorHold = {} /\ stopping = {}
  /\ uncommitted = [p \in Agents |-> {}]
  /\ task = [p \in Agents |-> [o \in Ops |-> "none"]]
  /\ tick = [p \in Agents |-> NoTick]
  /\ baseline = [p \in Agents |-> [o \in Ops |-> 0]]
  /\ instance = 1 /\ executing = {} /\ delivered = [o \in Ops |-> 0] /\ quietAt = 0

-----------------------------------------------------------------------------
(* Becoming and ceasing to be the node's agent (election.py, service.py).  *)

\* Mutant: an election that trusts its own kernel.
ClaimIgnoresKernel(p) ==
  HostLockFree(p) /\ session = NoAgent /\ (owner # NoAgent => DomainOf[p] = DomainOf[owner])

\* The lock domain the node is bound to, and a kernel change, can refuse it.
ClaimAllowed(p) ==
  /\ HostLockFree(p)
  /\ session = NoAgent
  /\ owner # NoAgent => DomainOf[p] = DomainOf[owner]
  /\ owner # NoAgent /\ KernelOf[p] # KernelOf[owner] =>
       \A o \in Ops : opState[o] \notin {"running", "outcome_unknown"}

\* Mutant: a takeover that leaves running rows as they are.
TakeoverKeepsRunning(s) == IF s = "accepted" THEN "cancelled_unsent" ELSE s

\* A takeover: the previous owner's running work is unknown, its queue unsent.
Takeover(s) ==
  CASE s = "running" -> "outcome_unknown" [] s = "accepted" -> "cancelled_unsent" [] OTHER -> s

Claim(p) ==
  /\ gate[p] = "off" /\ generation < MaxGeneration
  /\ ClaimAllowed(p)
  /\ generation' = generation + 1 /\ owner' = p /\ session' = p
  /\ opState' = [o \in Ops |-> Takeover(opState[o])]
  /\ opGen' = [o \in Ops |-> IF opState[o] \in {"running", "accepted", "outcome_unknown"}
                             THEN generation + 1 ELSE opGen[o]]
  /\ myGen' = [myGen EXCEPT ![p] = generation + 1]
  /\ SetGate(p, "starting")
  /\ UNCHANGED <<memVars, runtimeVars, closed, epoch, uncommitted, task, quietAt>>

\* start() after the election: follow_hold, whose read may fail, then reopen.
OpenGate(p) ==
  /\ gate[p] = "starting"
  /\ \E seen \in IF DbFaults THEN {closed, FALSE} ELSE {closed} :
       /\ frozenAt' = [frozenAt EXCEPT ![p] = IF seen THEN epoch ELSE 0]
       /\ SetGate(p, ReopenTo(p, IF seen THEN epoch ELSE 0, NoOp))
  /\ UNCHANGED <<idVars, rowVars, runtimeVars, exclusive, restoring, operatorHold, stopping,
                 uncommitted, task, tick, baseline, quietAt>>

\* The process and all it remembers are gone; the host lock goes with it.
Forget(p) ==
  /\ SetGate(p, "off")
  /\ frozenAt' = [frozenAt EXCEPT ![p] = 0]
  /\ exclusive' = [exclusive EXCEPT ![p] = NoOp]
  /\ restoring' = [restoring EXCEPT ![p] = 0]
  /\ operatorHold' = operatorHold \ {p} /\ stopping' = stopping \ {p}
  /\ uncommitted' = [uncommitted EXCEPT ![p] = {}]
  /\ task' = [task EXCEPT ![p] = [o \in Ops |-> "none"]]
  /\ tick' = [tick EXCEPT ![p] = NoTick]
  /\ baseline' = [baseline EXCEPT ![p] = [o \in Ops |-> 0]]

\* A crash: PostgreSQL keeps the session until it notices.  Left enabled only
\* while another election fits the bound.
Crash(p) ==
  /\ gate[p] # "off" /\ generation < MaxGeneration
  /\ Forget(p)
  /\ UNCHANGED <<idVars, rowVars, runtimeVars, quietAt>>

SessionLost ==
  /\ session # NoAgent
  /\ generation < MaxGeneration \/ gate[session] = "off"
  /\ session' = NoAgent
  /\ UNCHANGED <<rowVars, memVars, runtimeVars, generation, owner, closed, epoch, myGen, gate,
                 uncommitted, task, quietAt>>

\* SIGTERM, or the watchdog found its lock file gone or itself failing.
StopAgent(p) ==
  /\ Up(p) /\ generation < MaxGeneration
  /\ SetGate(p, "lost") /\ stopping' = stopping \cup {p}
  /\ UNCHANGED <<idVars, rowVars, runtimeVars, frozenAt, exclusive, restoring, operatorHold,
                 uncommitted, task, tick, baseline, quietAt>>

\* Mutant: the audit write fails and the process is not told to end.
WatchLostWithoutExit(p) ==
  /\ Up(p) /\ session # p /\ p \notin stopping
  /\ SetGate(p, "lost")
  /\ UNCHANGED <<idVars, rowVars, memVars, runtimeVars, uncommitted, task, quietAt>>

\* The watchdog found another backend pid: the role is lost for good.
WatchLost(p) ==
  /\ Up(p) /\ session # p /\ p \notin stopping
  /\ SetGate(p, "lost") /\ stopping' = stopping \cup {p}
  /\ UNCHANGED <<idVars, rowVars, runtimeVars, frozenAt, exclusive, restoring, operatorHold,
                 uncommitted, task, tick, baseline, quietAt>>

\* stop(): admitted work is waited for before the process and its lock go.
Exit(p) ==
  /\ p \in stopping /\ Admitted(p) = {}
  /\ Forget(p)
  /\ session' = IF session = p THEN NoAgent ELSE session
  /\ UNCHANGED <<rowVars, runtimeVars, generation, owner, closed, epoch, myGen, quietAt>>

-----------------------------------------------------------------------------
(* Admission (Dispatcher.submit, Dispatcher.exclusive).                    *)

Submit(p, o) ==
  /\ o \notin ExclusiveOps
  /\ task[p][o] = "none" /\ opState[o] = "absent"
  /\ gate[p] = "serving"
  /\ Cardinality(Queued(p)) < MaxQueued
  /\ o \in SummaryOps => \A x \in SummaryOps : task[p][x] = "none"
  /\ Goto(p, o, "inserting")
  /\ UNCHANGED <<idVars, rowVars, memVars, runtimeVars, gate, uncommitted, quietAt>>

\* A lifecycle operation closes the gate before it is even recorded.
SubmitLifecycle(p, o) ==
  /\ o \in LifecycleOps
  /\ task[p][o] = "none" /\ opState[o] = "absent"
  /\ gate[p] = "serving"
  /\ exclusive' = [exclusive EXCEPT ![p] = o]
  /\ SetGate(p, CloseTo(p, "draining"))
  /\ Goto(p, o, "inserting")
  /\ UNCHANGED <<idVars, rowVars, runtimeVars, frozenAt, restoring, operatorHold, stopping,
                 uncommitted, tick, baseline, quietAt>>

\* A restore is the one exception to a frozen gate, at the epoch it names.
SubmitRestore(p, o, e) ==
  /\ o \in RestoreOps
  /\ task[p][o] = "none" /\ opState[o] = "absent"
  /\ Restorable(p, e, NoOp)
  /\ exclusive' = [exclusive EXCEPT ![p] = o]
  /\ restoring' = [restoring EXCEPT ![p] = e]
  /\ Goto(p, o, "inserting")
  /\ UNCHANGED <<idVars, rowVars, runtimeVars, gate, frozenAt, operatorHold, stopping,
                 uncommitted, tick, baseline, quietAt>>

InsertApplies(p, o) == Owns(p) /\ opState[o] = "absent" /\ ~SummaryBusy(o)

\* insert_accepted: not owner, summary busy, conflict, or a new accepted row.
Insert(p, o) ==
  /\ task[p][o] = "inserting"
  /\ IF InsertApplies(p, o)
     THEN SetRow(o, "accepted", myGen[p]) /\ Goto(p, o, "queued")
     ELSE Goto(p, o, Leave(o)) /\ UNCHANGED <<rowVars>>
  /\ SetGate(p, IF Owns(p) THEN gate[p] ELSE "lost")
  /\ UNCHANGED <<idVars, memVars, runtimeVars, uncommitted, quietAt>>

\* The insert raised, committed or not.  A cancelled submit cleans up after
\* itself; a database error, and exclusive(), leave the row as it is.
InsertFault(p, o) ==
  /\ DbFaults /\ task[p][o] = "inserting"
  /\ \/ InsertApplies(p, o) /\ SetRow(o, "accepted", myGen[p])
     \/ UNCHANGED <<rowVars>>
  /\ \/ Goto(p, o, Leave(o))
     \/ o \notin ExclusiveOps /\ Goto(p, o, "unsent")
  /\ UNCHANGED <<idVars, memVars, runtimeVars, gate, uncommitted, quietAt>>

\* _wait_for_slot ended without a slot: deadline, closed gate or cancellation.
GiveUp(p, o) ==
  /\ task[p][o] \in {"queued", "idle"}
  /\ Goto(p, o, "unsent")
  /\ UNCHANGED <<idVars, rowVars, memVars, runtimeVars, gate, uncommitted, quietAt>>

\* Mutant: the node is not waited for.
SeeIdleAtOnce(p, o) ==
  /\ o \in ExclusiveOps /\ task[p][o] = "queued"
  /\ Goto(p, o, "idle")
  /\ UNCHANGED <<idVars, rowVars, memVars, runtimeVars, gate, uncommitted, quietAt>>

\* An exclusive operation waits for admitted work before it asks for a slot.
SeeIdle(p, o) ==
  /\ o \in ExclusiveOps /\ task[p][o] = "queued" /\ Admitted(p) = {}
  /\ Goto(p, o, "idle")
  /\ UNCHANGED <<idVars, rowVars, memVars, runtimeVars, gate, uncommitted, quietAt>>

TakeSlot(p, o) ==
  /\ task[p][o] = IF o \in ExclusiveOps THEN "idle" ELSE "queued"
  /\ Cardinality(SlotsTaken(p)) < MaxInflight
  /\ Goto(p, o, "slot")
  /\ UNCHANGED <<idVars, rowVars, memVars, runtimeVars, gate, uncommitted, quietAt>>

-----------------------------------------------------------------------------
(* Promotion: the authorisation point for a send (OperationStore.promote   *)
(* under the dispatcher's barrier).                                        *)

GateAdmits(p, o) ==
  IF o \in RestoreOps THEN Restorable(p, restoring[p], o)
  ELSE gate[p] = IF o \in LifecycleOps THEN "draining" ELSE "serving"

\* Mutant: an ordinary promotion trusts the gate to know of the hold.
HoldAdmitsByGate(p, o) == o \in RestoreOps => closed /\ epoch = restoring[p]

\* The maintenance hold, read under the fence an entry takes exclusively.
HoldAdmits(p, o) ==
  IF o \in RestoreOps THEN closed /\ epoch = restoring[p] ELSE ~closed

RowAdmits(p, o) == ~AnyUnknown /\ Mine(p, o, "accepted")

PromoteApplies(p, o) == GateAdmits(p, o) /\ Owns(p) /\ HoldAdmits(p, o) /\ RowAdmits(p, o)

Promote(p, o) ==
  /\ task[p][o] = "slot"
  /\ PromoteApplies(p, o)
  /\ SetRow(o, "running", opGen[o])
  /\ Goto(p, o, "promoted")
  /\ UNCHANGED <<idVars, memVars, runtimeVars, gate, uncommitted, quietAt>>

\* Not promoted: a superseded process is lost, a closed hold freezes the gate.
PromoteRefused(p, o) ==
  LET hasOwner == GateAdmits(p, o) /\ Owns(p)
      heldOff  == hasOwner /\ ~HoldAdmits(p, o) /\ o \notin RestoreOps
  IN
  /\ task[p][o] = "slot"
  /\ ~PromoteApplies(p, o)
  /\ SetGate(p, IF GateAdmits(p, o) /\ ~Owns(p) THEN "lost"
                ELSE IF heldOff THEN "maintenance" ELSE gate[p])
  /\ frozenAt' = [frozenAt EXCEPT ![p] = IF heldOff THEN epoch ELSE frozenAt[p]]
  /\ Goto(p, o, IF /\ o \notin ExclusiveOps /\ hasOwner /\ HoldAdmits(p, o)
                   /\ opState[o] = "cancelled_unsent"
                THEN "none" ELSE "unsent")
  /\ UNCHANGED <<idVars, rowVars, runtimeVars, exclusive, restoring, operatorHold, stopping,
                 uncommitted, tick, baseline, quietAt>>

\* The promotion raised: committed or not, but no task exists.
PromoteFault(p, o) ==
  /\ DbFaults /\ task[p][o] = "slot" /\ GateAdmits(p, o)
  /\ \/ PromoteApplies(p, o) /\ SetRow(o, "running", opGen[o])
     \/ UNCHANGED <<rowVars>>
  /\ Goto(p, o, "doubt")
  /\ UNCHANGED <<idVars, memVars, runtimeVars, gate, uncommitted, quietAt>>

-----------------------------------------------------------------------------
(* Giving an operation up unsent.                                          *)

\* cancel_accepted: a tombstone, or accepted to cancelled; nothing else moves.
CancelRow(p, o) ==
  IF opState[o] = "absent" \/ Mine(p, o, "accepted")
  THEN SetRow(o, "cancelled_unsent", myGen[p]) ELSE UNCHANGED <<rowVars>>

Unsent(p, o) ==
  /\ task[p][o] = "unsent"
  /\ IF Owns(p) THEN CancelRow(p, o) /\ UNCHANGED gate
     ELSE SetGate(p, "lost") /\ UNCHANGED <<rowVars>>
  /\ Goto(p, o, Leave(o))
  /\ UNCHANGED <<idVars, memVars, runtimeVars, uncommitted, quietAt>>

\* The cancellation raised: the handler ends and the row is left behind.
UnsentFault(p, o) ==
  /\ DbFaults /\ task[p][o] = "unsent"
  /\ \/ Owns(p) /\ CancelRow(p, o)
     \/ UNCHANGED <<rowVars>>
  /\ Goto(p, o, Leave(o))
  /\ UNCHANGED <<idVars, memVars, runtimeVars, gate, uncommitted, quietAt>>

\* The row a failed promotion left, made unsent whichever state it reached.
DoubtRow(p, o) ==
  IF Mine(p, o, "running") THEN SetRow(o, "cancelled_unsent", opGen[o]) ELSE CancelRow(p, o)

\* _unsent_after_failed_promotion.
SettleDoubt(p, o) ==
  /\ task[p][o] = "doubt"
  /\ \/ Owns(p) /\ DoubtRow(p, o)
     \/ opState[o] \notin {"absent", "accepted", "running"} /\ UNCHANGED <<rowVars>>
  /\ Goto(p, o, Leave(o))
  /\ UNCHANGED <<idVars, memVars, runtimeVars, gate, uncommitted, quietAt>>

\* It raised, as not owner or on the database: the process blocks for good.
DoubtFault(p, o) ==
  /\ task[p][o] = "doubt"
  /\ \/ ~Owns(p) /\ opState[o] \in {"absent", "accepted", "running"} /\ UNCHANGED <<rowVars>>
     \/ DbFaults /\ Owns(p) /\ DoubtRow(p, o)
     \/ DbFaults /\ UNCHANGED <<rowVars>>
  /\ uncommitted' = [uncommitted EXCEPT ![p] = @ \cup {o}]
  /\ SetGate(p, CloseTo(p, "blocked"))
  /\ Goto(p, o, Leave(o))
  /\ UNCHANGED <<idVars, memVars, runtimeVars, quietAt>>

\* POST /v1/attempts/{op}/cancel.
CancelRoute(p, o) ==
  /\ Up(p)
  /\ IF Owns(p) THEN CancelRow(p, o) /\ UNCHANGED gate
     ELSE SetGate(p, "lost") /\ UNCHANGED <<rowVars>>
  /\ UNCHANGED <<idVars, memVars, runtimeVars, uncommitted, task, quietAt>>

-----------------------------------------------------------------------------
(* One attempt (Dispatcher._run, relay.py).                                *)

\* The final send barrier: a frozen gate withholds, except a restore that was
\* admitted for the very hold the gate is frozen at.
Withhold(p, o) ==
  IF o \in RestoreOps THEN frozenAt[p] # restoring[p] ELSE frozenAt[p] # 0

Send(p, o) ==
  /\ task[p][o] = "promoted"
  /\ Goto(p, o, IF Withhold(p, o) THEN "withheld" ELSE "sending")
  /\ UNCHANGED <<idVars, rowVars, memVars, runtimeVars, gate, uncommitted, quietAt>>

\* Mutant: the transport tries again on its own.
DeliverWithRetry(p, o) ==
  /\ task[p][o] = "sending"
  /\ \E place \in {"sending", "sent"} : Goto(p, o, place)
  /\ executing' = executing \cup {o}
  /\ delivered' = [delivered EXCEPT ![o] = IF @ < 2 THEN @ + 1 ELSE @]
  /\ UNCHANGED <<idVars, rowVars, memVars, gate, uncommitted, instance, quietAt>>

\* The request reaches the runtime: one transport try per attempt.
Deliver(p, o) ==
  /\ task[p][o] = "sending"
  /\ Goto(p, o, "sent")
  /\ executing' = executing \cup {o}
  /\ delivered' = [delivered EXCEPT ![o] = @ + 1]
  /\ UNCHANGED <<idVars, rowVars, memVars, gate, uncommitted, instance, quietAt>>

\* NotSent: the connection failed before any byte was written.
RelayNotSent(p, o) ==
  /\ task[p][o] = "sending"
  /\ Goto(p, o, "failed")
  /\ UNCHANGED <<idVars, rowVars, memVars, runtimeVars, gate, uncommitted, quietAt>>

\* Completed or RuntimeRefused: the runtime's own terminal evidence.
RelayAnswered(p, o) ==
  /\ task[p][o] \in {"sent", "cancelled"} /\ o \in executing
  /\ \E outcome \in {"completed", "failed"} : Goto(p, o, outcome)
  /\ executing' = executing \ {o}
  /\ UNCHANGED <<idVars, rowVars, memVars, gate, uncommitted, instance, delivered, quietAt>>

\* Uncertain: timeout, read error, end of stream, cancellation, a relay bug.
RelayUncertain(p, o) ==
  /\ task[p][o] \in Senders
  /\ Goto(p, o, "uncertain")
  /\ UNCHANGED <<idVars, rowVars, memVars, runtimeVars, gate, uncommitted, quietAt>>

\* _settle closes the gate on an uncertain outcome before committing it.
BlockUncertain(p, o) ==
  /\ task[p][o] = "uncertain"
  /\ uncommitted' = [uncommitted EXCEPT ![p] = @ \cup {o}]
  /\ SetGate(p, CloseTo(p, "blocked"))
  /\ Goto(p, o, "marked")
  /\ UNCHANGED <<idVars, rowVars, memVars, runtimeVars, quietAt>>

Committable == {"completed", "failed", "withheld", "marked"}

\* Mutant: an uncertain attempt recorded as failed.
OutcomeRowFailsUncertain(place) ==
  IF place = "withheld" THEN "cancelled_unsent" ELSE IF place = "marked" THEN "failed" ELSE place

\* finish, unsent_after_promotion or mark_unknown.
OutcomeRow(place) ==
  CASE place = "withheld" -> "cancelled_unsent" [] place = "marked" -> "outcome_unknown"
    [] OTHER -> place

CommitOutcome(p, o) ==
  IF Mine(p, o, "running") THEN SetRow(o, OutcomeRow(task[p][o]), opGen[o])
  ELSE UNCHANGED <<rowVars>>

\* The commit, then the task's cleanup: slot, _admitted, idle.
Settle(p, o) ==
  /\ task[p][o] \in Committable
  /\ IF Owns(p)
     THEN /\ CommitOutcome(p, o) /\ UNCHANGED gate
          /\ uncommitted' = [uncommitted EXCEPT ![p] =
                               IF task[p][o] = "marked" THEN @ \ {o} ELSE @]
     ELSE SetGate(p, "lost") /\ UNCHANGED <<rowVars, uncommitted>>
  /\ Goto(p, o, Leave(o))
  /\ UNCHANGED <<idVars, memVars, runtimeVars, quietAt>>

\* Committed, but the answer was lost: the loop will commit again.
SettleUnacked(p, o) ==
  /\ DbFaults /\ task[p][o] \in Committable /\ Owns(p)
  /\ CommitOutcome(p, o)
  /\ UNCHANGED <<idVars, memVars, runtimeVars, gate, uncommitted, task, quietAt>>

\* _end_exclusive: the node is given back, unless the read that would tell
\* whether it may serve raises; then it stays draining for recheck_drain.
EndExclusive(p, o) ==
  /\ task[p][o] = "ending"
  /\ Goto(p, o, "none")
  /\ IF exclusive[p] = o
     THEN /\ exclusive' = [exclusive EXCEPT ![p] = NoOp]
          /\ restoring' = [restoring EXCEPT ![p] = 0]
          /\ \/ SetGate(p, IF gate[p] = "draining" /\ p \notin operatorHold
                           THEN ReopenTo(p, frozenAt[p], NoOp) ELSE gate[p])
             \/ DbFaults /\ UNCHANGED gate
     ELSE UNCHANGED <<gate, exclusive, restoring>>
  /\ UNCHANGED <<idVars, rowVars, runtimeVars, frozenAt, operatorHold, stopping, uncommitted,
                 tick, baseline, quietAt>>

-----------------------------------------------------------------------------
(* The gate: operator, watchdog and maintenance hold.                      *)

Drain(p) ==
  /\ Up(p)
  /\ operatorHold' = operatorHold \cup {p}
  /\ SetGate(p, CloseTo(p, "draining"))
  /\ UNCHANGED <<idVars, rowVars, runtimeVars, frozenAt, exclusive, restoring, stopping,
                 uncommitted, task, tick, baseline, quietAt>>

\* reopen(); when its read raises, only the operator's hold is gone.
Reopen(p) ==
  /\ Up(p)
  /\ operatorHold' = operatorHold \ {p}
  /\ \/ SetGate(p, ReopenTo(p, frozenAt[p], exclusive[p]))
     \/ DbFaults /\ UNCHANGED gate
  /\ UNCHANGED <<idVars, rowVars, runtimeVars, frozenAt, exclusive, restoring, stopping,
                 uncommitted, task, tick, baseline, quietAt>>

\* The watchdog reopens a drain that nothing holds any more.
RecheckDrain(p) ==
  /\ gate[p] = "draining" /\ exclusive[p] = NoOp /\ p \notin operatorHold
  /\ SetGate(p, ReopenTo(p, frozenAt[p], NoOp))
  /\ UNCHANGED <<idVars, rowVars, memVars, runtimeVars, uncommitted, task, quietAt>>

\* follow_hold reads the hold; what it read is applied later, under the barrier.
ReadHold(p) ==
  /\ Up(p) /\ tick[p] = NoTick
  /\ \/ closed /\ frozenAt[p] # epoch /\ tick' = [tick EXCEPT ![p] = epoch]
     \/ ~closed /\ frozenAt[p] # 0 /\ tick' = [tick EXCEPT ![p] = ThawTick]
  /\ UNCHANGED <<idVars, rowVars, runtimeVars, gate, frozenAt, exclusive, restoring, operatorHold,
                 stopping, uncommitted, task, baseline, quietAt>>

Freeze(p) ==
  /\ tick[p] \notin {NoTick, ThawTick}
  /\ tick' = [tick EXCEPT ![p] = NoTick]
  /\ IF gate[p] = "lost" THEN UNCHANGED <<gate, frozenAt>>
     ELSE SetGate(p, "maintenance") /\ frozenAt' = [frozenAt EXCEPT ![p] = tick[p]]
  /\ UNCHANGED <<idVars, rowVars, runtimeVars, exclusive, restoring, operatorHold, stopping,
                 uncommitted, task, baseline, quietAt>>

Thaw(p) ==
  /\ tick[p] = ThawTick
  /\ tick' = [tick EXCEPT ![p] = NoTick]
  /\ frozenAt' = [frozenAt EXCEPT ![p] = 0]
  /\ \/ /\ SetGate(p, IF frozenAt[p] = 0 \/ gate[p] = "lost" THEN gate[p]
                      ELSE IF exclusive[p] # NoOp \/ p \in operatorHold THEN "draining"
                      ELSE ReopenTo(p, 0, NoOp))
        /\ UNCHANGED stopping
     \/ /\ DbFaults /\ generation < MaxGeneration   \* the read raised: watchdog failed
        /\ SetGate(p, "lost")
        /\ stopping' = stopping \cup {p}
  /\ UNCHANGED <<idVars, rowVars, runtimeVars, exclusive, restoring, operatorHold, uncommitted,
                 task, baseline, quietAt>>

\* POST /v1/maintenance/interrupt: for the hold closed now, freeze and cancel
\* every relay.  A lost gate does not freeze and cannot be interrupted.
Interrupt(p) ==
  /\ Up(p) /\ closed
  /\ gate[p] # "lost" \/ frozenAt[p] # 0
  /\ IF gate[p] = "lost" THEN UNCHANGED <<gate, frozenAt>>
     ELSE SetGate(p, "maintenance") /\ frozenAt' = [frozenAt EXCEPT ![p] = epoch]
  /\ task' = [task EXCEPT ![p] =
                [o \in Ops |-> IF task[p][o] \in Senders THEN "cancelled" ELSE task[p][o]]]
  /\ UNCHANGED <<idVars, rowVars, runtimeVars, exclusive, restoring, operatorHold, stopping,
                 uncommitted, tick, baseline, quietAt>>

\* Its answer, an audit write later: no relay is left talking to the runtime.
\* A task created meanwhile has reached its final send barrier by then.  A
\* superseded process may answer too (the audit is not fenced): quietAt follows
\* the owner's answers.
ReportQuiet(p) ==
  /\ Up(p) /\ Owns(p) /\ frozenAt[p] # 0 /\ quietAt # frozenAt[p]
  /\ Sending(p) = {} /\ \A o \in Ops : task[p][o] # "promoted"
  /\ quietAt' = frozenAt[p]
  /\ UNCHANGED <<idVars, rowVars, memVars, runtimeVars, gate, uncommitted, task>>

\* MaintenanceRepository.close and reopen, on behalf of the coordinator.
CloseHold ==
  /\ ~closed /\ epoch < MaxEpoch
  /\ closed' = TRUE /\ epoch' = epoch + 1
  /\ UNCHANGED <<rowVars, memVars, runtimeVars, generation, owner, session, myGen, gate,
                 uncommitted, task, quietAt>>

OpenHold ==
  /\ closed
  /\ closed' = FALSE
  /\ UNCHANGED <<rowVars, memVars, runtimeVars, generation, owner, session, epoch, myGen, gate,
                 uncommitted, task, quietAt>>

-----------------------------------------------------------------------------
(* The runtime, and clearing an unknown on evidence that it restarted      *)
(* (resolution.py).                                                        *)

\* It finishes work whose sender no longer listens, or will not hear it.
RuntimeFinishes(o) ==
  /\ o \in executing
  /\ executing' = executing \ {o}
  /\ UNCHANGED <<idVars, rowVars, memVars, gate, uncommitted, task, instance, delivered, quietAt>>

RuntimeRestarts ==
  /\ instance < MaxInstance
  /\ instance' = instance + 1 /\ executing' = {}
  /\ UNCHANGED <<idVars, rowVars, memVars, gate, uncommitted, task, delivered, quietAt>>

\* Resolutions.start: the operation is unknown and has no task here; the node
\* is drained; then the witness attests the instance now running.
ResolveStart(p, o) ==
  /\ Up(p) /\ opState[o] = "outcome_unknown" /\ task[p][o] \notin Tasks
  /\ Admitted(p) = {}
  /\ operatorHold' = operatorHold \cup {p}
  /\ SetGate(p, CloseTo(p, "draining"))
  /\ baseline' = [baseline EXCEPT ![p][o] = instance]
  /\ UNCHANGED <<idVars, rowVars, runtimeVars, frozenAt, exclusive, restoring, stopping,
                 uncommitted, task, tick, quietAt>>

\* The witness restarted since the baseline: the resolution is dropped.
ResolveDropped(p, o) ==
  /\ baseline[p][o] # 0
  /\ baseline' = [baseline EXCEPT ![p][o] = 0]
  /\ UNCHANGED <<idVars, rowVars, runtimeVars, gate, frozenAt, exclusive, restoring, operatorHold,
                 stopping, uncommitted, task, tick, quietAt>>

RestartAttested(p, o) == baseline[p][o] # 0 /\ instance # baseline[p][o]

\* Resolutions.complete: another instance answers, so the operation is failed.
ResolveComplete(p, o) ==
  /\ RestartAttested(p, o) /\ Owns(p) /\ task[p][o] = "none"
  /\ baseline' = [baseline EXCEPT ![p][o] = 0]
  /\ IF Mine(p, o, "outcome_unknown")
     THEN SetRow(o, "failed", opGen[o]) /\ Goto(p, o, "reopening")
     ELSE UNCHANGED <<rowVars, task>>
  /\ UNCHANGED <<idVars, runtimeVars, gate, frozenAt, exclusive, restoring, operatorHold,
                 stopping, uncommitted, tick, quietAt>>

ReopenResolved(p, o) ==
  /\ task[p][o] = "reopening"
  /\ Goto(p, o, "none")
  /\ operatorHold' = operatorHold \ {p}
  /\ \/ SetGate(p, ReopenTo(p, frozenAt[p], exclusive[p]))
     \/ DbFaults /\ UNCHANGED gate
  /\ UNCHANGED <<idVars, rowVars, runtimeVars, frozenAt, exclusive, restoring, stopping,
                 uncommitted, tick, baseline, quietAt>>

-----------------------------------------------------------------------------
ProcessStep(p) ==
  \/ Claim(p) \/ OpenGate(p) \/ Crash(p) \/ StopAgent(p) \/ WatchLost(p) \/ Exit(p)
  \/ Drain(p) \/ Reopen(p) \/ RecheckDrain(p)
  \/ ReadHold(p) \/ Freeze(p) \/ Thaw(p) \/ Interrupt(p) \/ ReportQuiet(p)

OpStep(p, o) ==
  \/ Submit(p, o) \/ SubmitLifecycle(p, o) \/ \E e \in 1..MaxEpoch : SubmitRestore(p, o, e)
  \/ Insert(p, o) \/ InsertFault(p, o) \/ GiveUp(p, o) \/ SeeIdle(p, o) \/ TakeSlot(p, o)
  \/ Promote(p, o) \/ PromoteRefused(p, o) \/ PromoteFault(p, o)
  \/ Unsent(p, o) \/ UnsentFault(p, o) \/ SettleDoubt(p, o) \/ DoubtFault(p, o)
  \/ CancelRoute(p, o)
  \/ Send(p, o) \/ Deliver(p, o) \/ RelayNotSent(p, o) \/ RelayAnswered(p, o)
  \/ RelayUncertain(p, o) \/ BlockUncertain(p, o)
  \/ Settle(p, o) \/ SettleUnacked(p, o) \/ EndExclusive(p, o)
  \/ ResolveStart(p, o) \/ ResolveDropped(p, o) \/ ResolveComplete(p, o) \/ ReopenResolved(p, o)

Environment ==
  \/ SessionLost \/ CloseHold \/ OpenHold \/ RuntimeRestarts
  \/ \E o \in Ops : RuntimeFinishes(o)

Next ==
  \/ \E p \in Agents : ProcessStep(p)
  \/ \E p \in Agents, o \in Ops : OpStep(p, o)
  \/ Environment

Spec == Init /\ [][Next]_vars

\* What a handler or task does next on its own.  Left out: an operator's or a
\* caller's choices, faults, and giving up for an exclusive operation, which
\* waits without a deadline.
OwnStep(p, o) ==
  \/ Insert(p, o) \/ (o \notin ExclusiveOps /\ GiveUp(p, o))
  \/ SeeIdle(p, o) \/ TakeSlot(p, o)
  \/ Promote(p, o) \/ PromoteRefused(p, o) \/ Unsent(p, o)
  \/ SettleDoubt(p, o) \/ DoubtFault(p, o)
  \/ Send(p, o) \/ RelayAnswered(p, o) \/ RelayUncertain(p, o) \/ BlockUncertain(p, o)
  \/ Settle(p, o) \/ EndExclusive(p, o) \/ ReopenResolved(p, o)

-----------------------------------------------------------------------------
(* Correctness.                                                            *)

TypeOK ==
  /\ generation \in Nat /\ owner \in Agents \cup {NoAgent} /\ session \in Agents \cup {NoAgent}
  /\ opState \in [Ops -> RowState] /\ opGen \in [Ops -> Nat]
  /\ closed \in BOOLEAN /\ epoch \in Nat
  /\ myGen \in [Agents -> Nat] /\ gate \in [Agents -> Gate]
  /\ frozenAt \in [Agents -> Nat] /\ exclusive \in [Agents -> Ops \cup {NoOp}]
  /\ restoring \in [Agents -> Nat]
  /\ operatorHold \in SUBSET Agents /\ stopping \in SUBSET Agents
  /\ uncommitted \in [Agents -> SUBSET Ops]
  /\ task \in [Agents -> [Ops -> Place]]
  /\ tick \in [Agents -> Nat \cup {NoTick}]
  /\ baseline \in [Agents -> [Ops -> Nat]]
  /\ instance \in Nat /\ executing \in SUBSET Ops /\ delivered \in [Ops -> Nat]
  /\ quietAt \in Nat

\* An operation reaches the runtime at most once, over every retry, duplicate
\* request, crash and takeover: promotion is granted to one caller and the
\* relay has a single transport try.
DeliveredOnce == \A o \in Ops : delivered[o] <= 1

\* What the ledger calls unsent (or has not started) never reached a runtime:
\* `cancelled_unsent` is safe to retry elsewhere and is never billed.
UnsentNeverDelivered ==
  \A o \in Ops :
    opState[o] \in {"absent", "accepted", "cancelled_unsent"} => delivered[o] = 0

\* The ledger never calls an operation finished while the runtime may still be
\* working on it: not after a crash, a lost sender, a takeover or a resolution.
ExecutionAccounted ==
  \A o \in Ops : o \in executing => opState[o] \in {"running", "outcome_unknown"}

\* A process that may write bytes for an operation is the node's owner of
\* record, and the operation's row is running under its generation.
SenderOwnsRow ==
  \A p \in Agents, o \in Ops :
    task[p][o] \in {"promoted"} \cup Senders => Owns(p) /\ Mine(p, o, "running")

\* Nothing is authorised to send while the runtime may be executing work that
\* the authorised process does not itself hold a task for (an orphan of a
\* crash, or an attempt whose end was not seen).
NoPromotionBesideOrphan ==
  [][\A o \in Ops : opState[o] = "accepted" /\ opState'[o] = "running" =>
       \E p \in Agents : /\ task[p][o] = "slot" /\ task'[p][o] # "slot"
                         /\ executing \subseteq Admitted(p)]_vars

-----------------------------------------------------------------------------
(* The facts that make the four invariants above inductive.                *)

\* Generations only grow, and the newest one belongs to the owner of record.
OwnerIsNewest ==
  \A p \in Agents : /\ myGen[p] <= generation
                    /\ owner # NoAgent /\ myGen[p] = generation => owner = p

\* A process that is gone holds no task and no attestation.
OffIsEmpty ==
  \A p \in Agents, o \in Ops : gate[p] = "off" => task[p][o] = "none" /\ baseline[p][o] = 0

\* Until its relay writes, and while a handler only waits, nothing was sent for
\* a row that is running under the handler's own generation.
NotYetSent ==
  \A p \in Agents, o \in Ops :
    (\/ task[p][o] \in {"promoted", "sending"}
     \/ task[p][o] \in Waiting \cup {"withheld"} /\ Mine(p, o, "running"))
    => delivered[o] = 0

\* An outcome in hand is the runtime's own: sent if completed, and over.
OutcomeIsFinal ==
  \A p \in Agents, o \in Ops :
    /\ task[p][o] = "completed" => delivered[o] = 1
    /\ task[p][o] \in {"completed", "failed"} /\ Mine(p, o, "running") => o \notin executing

WorkWasSent == \A o \in executing : delivered[o] = 1

\* Work that outlived its sender runs in the instance attested for it.
BaselineHolds ==
  \A p \in Agents, o \in Ops : baseline[p][o] # 0 =>
    /\ opState[o] \notin {"absent", "accepted", "running"}
    /\ o \in executing => instance = baseline[p][o]

\* The inductive invariant of the operation ledger: the four facts above with
\* what the election, the tasks and the attestations keep for them.
LedgerInv ==
  /\ TypeOK /\ OwnerIsNewest /\ OffIsEmpty /\ SenderOwnsRow /\ NotYetSent /\ OutcomeIsFinal
  /\ WorkWasSent /\ BaselineHolds /\ DeliveredOnce /\ UnsentNeverDelivered /\ ExecutionAccounted

-----------------------------------------------------------------------------
(* The gate, the hold and the node as seen from outside.                   *)

\* An owner's gate is not serving while anything on the node is unknown,
\* committed or only known in process: no resume, thaw, end of a lifecycle
\* operation or re-check reopens past an unknown.
ServingMeansKnown ==
  \A p \in Agents :
    gate[p] = "serving" /\ Owns(p) => uncommitted[p] = {} /\ ~AnyUnknown

\* A lifecycle or restore operation has the node to itself: no other operation
\* of that process has a task while it does.
ExclusiveAlone ==
  \A p \in Agents, o \in ExclusiveOps, x \in Ops :
    task[p][o] \in Tasks /\ task[p][x] \in Tasks => o = x

\* At most one summary is outstanding on the node, across processes.
SummarySingle ==
  \A o, x \in SummaryOps :
    {opState[o], opState[x]} \subseteq {"accepted", "running", "outcome_unknown"} => o = x

\* Once its owner reported the node quiet for the hold that is closed, no
\* ordinary work reaches the runtime until the hold lifts: neither a stale
\* thaw nor a restarted agent lets any through.
QuietHold ==
  closed /\ quietAt = epoch =>
    \A p \in Agents, o \in Ops \ RestoreOps : task[p][o] \notin {"promoted"} \cup Senders

\* The facts that make the four invariants above, and NoPromotionBesideOrphan,
\* inductive beside LedgerInv.  A closed hold has a number, and nothing is frozen
\* or quiet for a later one.
HoldNumbered ==
  /\ closed => epoch # 0
  /\ quietAt <= epoch
  /\ \A p \in Agents : frozenAt[p] <= epoch /\ tick[p] <= epoch

\* A process that is gone applies no reading of the hold.
OffFollowsNothing == \A p \in Agents : gate[p] = "off" => tick[p] = NoTick

FrozenIsShut == \A p \in Agents : frozenAt[p] # 0 => gate[p] \in {"maintenance", "lost"}

\* What is unknown and not committed yet is remembered, and keeps the gate shut.
UncommittedIsShut ==
  \A p \in Agents :
    /\ gate[p] = "serving" => uncommitted[p] = {}
    /\ \A o \in Ops : task[p][o] = "marked" => o \in uncommitted[p]

\* An exclusive operation is the one its process keeps its gate shut for, and
\* from the moment it saw the node idle nothing else there has a task.
ExclusiveHasNode ==
  \A p \in Agents :
    /\ gate[p] \in {"off", "starting", "serving"} => exclusive[p] = NoOp
    /\ \A o \in ExclusiveOps :
         /\ task[p][o] \notin {"none", "reopening"} => exclusive[p] = o
         /\ task[p][o] \in {"idle", "slot"} \cup Tasks => Admitted(p) \subseteq {o}

\* Open rows belong to the newest generation, and what the runtime is doing for
\* a running one is a task of the owner, unless that process is gone.
OwnedOrOrphaned ==
  /\ \A o \in Ops :
       opState[o] \in {"accepted", "running", "outcome_unknown"} => opGen[o] = generation
  /\ \A p \in Agents : Owns(p) /\ gate[p] # "off" =>
       \A o \in executing : opState[o] = "running" => task[p][o] \in Tasks

GateInv ==
  /\ HoldNumbered /\ OffFollowsNothing /\ FrozenIsShut /\ UncommittedIsShut /\ ExclusiveHasNode
  /\ OwnedOrOrphaned /\ ServingMeansKnown /\ SummarySingle /\ QuietHold

\* Seen from outside, the node keeps the ledger's contract: whatever processes,
\* crashes and takeovers do, every change of a row, and every byte that reaches
\* the runtime, is a step the contract allows.
Ledger == INSTANCE OperationLedger WITH state <- opState, sends <- delivered, working <- executing
ImplementsLedger == Ledger!Spec

\* A process elected while the platform is held does not start out serving: the
\* hold is followed before the gate opens.
StartsHeld ==
  [][\A p \in Agents : gate[p] = "starting" /\ closed => gate'[p] # "serving"]_vars

\* What may not last: a process that lost its role, an operation neither
\* finished, cancelled nor declared unknown, and a drain that no operator and no
\* lifecycle operation holds.
RoleLost(p) == gate[p] = "lost"
Unfinished(o) == opState[o] \in {"accepted", "running"}
StrandedDrain(p) == gate[p] = "draining" /\ exclusive[p] = NoOp /\ p \notin operatorHold

\* PostgreSQL ends the session of a process that is gone.
DeadSessionEnds == SessionLost /\ gate[session] = "off"
=============================================================================
