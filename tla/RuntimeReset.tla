----------------------------- MODULE RuntimeReset -----------------------------
(***************************************************************************)
(* A supervised restart of the native runtime, end to end.                 *)
(*                                                                         *)
(*   - The supervisor (scripts/host/runtime_supervisor.py): a root process *)
(*     on the host that takes request files, stops and starts the launchd  *)
(*     job and writes one receipt per request.                             *)
(*   - The node agent's side of it (node_agent/supervisor.py) and the      *)
(*     three routes that ask for a restart: a maintenance entry's reset, a *)
(*     single operation's reset and an operator's runtime control          *)
(*     (node_agent/resolution.py, api.py).                                 *)
(*   - The witness (scripts/host/runtime_witness.py), whose two answers    *)
(*     around the restart are the evidence an unknown outcome is cleared   *)
(*     on.                                                                 *)
(*                                                                         *)
(* The supervisor and the agent share two directories and nothing else, so *)
(* every look at a file is a step of its own.  The agent is one event      *)
(* loop: between two awaits no other call of it moves (Free below).        *)
(* A process is its birth identity (PID and start time): a number.         *)
(***************************************************************************)
EXTENDS Integers, FiniteSets

CONSTANTS
  Ids,          \* request ids
  Calls,        \* calls of the agent's routes
  IdOf,         \* the request id a call uses: the caller's, or a fresh one
  KindOf,       \* "maintenance", "operation" or "control"
  Ops,          \* operations sent to the runtime
  TargetOf,     \* the operation an "operation" reset is for
  EpochOf,      \* the hold a "maintenance" reset is for
  ActionOf,     \* what a request asks: "stop", "start", "restart" or "malformed"
  Asker,        \* who asks to serve again: the "watchdog", a "resume" call, or both
  NoId,
  MaxBirths,    \* bound on runtime processes
  MaxCrashes,   \* bound on deaths: supervisor, agent and witness
  MaxEpoch      \* bound on maintenance entries

Actions == {"stop", "start", "restart"}

CallAssumption ==
  /\ IdOf \in [Calls -> Ids] /\ NoId \notin Ids
  /\ KindOf \in [Calls -> {"maintenance", "operation", "control"}]
  /\ \A c \in Calls : KindOf[c] = "operation" => TargetOf[c] \in Ops
  /\ EpochOf \in [Calls -> Nat \ {0}]
  /\ ActionOf \in [Ids -> Actions \cup {"malformed"}]
  /\ Asker \subseteq {"watchdog", "resume"}
BoundAssumption == MaxBirths \in Nat \ {0} /\ MaxCrashes \in Nat /\ MaxEpoch \in Nat

\* Who uses which id.  A resolution asks for a restart; the coordinator draws a
\* reset id for one step of one entry and repeats it, every other call of
\* Supervisor.run draws its own.
IdAssumption ==
  /\ \A c \in Calls : KindOf[c] # "control" => ActionOf[IdOf[c]] = "restart"
  /\ \A c, d \in Calls : c # d /\ IdOf[c] = IdOf[d] =>
       KindOf[c] = "maintenance" /\ KindOf[d] = "maintenance" /\ EpochOf[c] = EpochOf[d]

VARIABLES
  \* the two directories
  filed,        \* requests/<id>.json
  claimed,      \* requests/.<id>.claimed
  receipt,      \* receipts/<id>.json: its result, "none" without one
  \* the supervisor process
  spc,          \* the step it has reached
  batch,        \* what pending() listed and the cycle has not handled
  cur,          \* the request it has claimed
  before,       \* execute(): the processes before
  result,       \* the receipt it is about to publish
  ran,          \* how often a request was executed
  crashes,
  \* the host
  loaded,       \* launchd has the job
  daemon,       \* the process launchd reports, 0 for none
  procs,        \* live processes of the runtime's account
  births,
  incarnation,  \* of the witness
  \* the platform and the agent
  closed, epoch,     \* the maintenance hold
  frozenAt,          \* Dispatcher._frozen_epoch, 0 when not frozen
  drained,           \* _held_by_operator
  quiet,             \* runtime_quiet_for_serving of the watchdog and of resume
  opState,           \* "none", "sending", "settling", "unknown", "resolved"
  carriers,          \* the processes an operation reached
  baseline, cohort,  \* audit: maintenance_reset_baseline
  done,              \* audit: maintenance_reset_done, its accounting
  pc,                \* where a call stands
  seen, sure         \* a call's baseline and, later, the cohort it may resolve

files == <<filed, claimed, receipt>>
supVars == <<spc, batch, cur, before, result, ran, crashes>>
hostVars == <<loaded, daemon, procs, births, incarnation>>
holdVars == <<closed, epoch>>
gateVars == <<frozenAt, drained, quiet>>
opVars == <<opState, carriers>>
auditVars == <<baseline, cohort, done>>
callVars == <<pc, seen, sure>>
agentVars == <<holdVars, gateVars, opVars, auditVars, callVars>>
vars == <<files, supVars, hostVars, agentVars>>

NoSight == <<0, 0>>
Sights == (0 .. MaxCrashes) \X (0 .. MaxBirths)

\* What a call ends with; "leftover" reads "withdrawn" to its caller too.
Answers == {"reported", "ok", "failed", "mismatch", "withdrawn", "leftover", "taken", "refused"}
\* Places between two awaits of one call.
Running == {"look", "unfiled", "unclaimed", "poll", "pollclaim", "pollagain"}
Place == {"idle", "freeze", "recorded", "attest", "check", "wait", "answered",
          "after", "recheck", "resolve", "drain"} \cup Running \cup Answers

-----------------------------------------------------------------------------
(* The host: launchd, the runtime's processes, the witness.                *)

\* KeepAlive: launchd starts the daemon of a loaded job.
Spawn ==
  /\ loaded /\ daemon = 0 /\ births < MaxBirths
  /\ births' = births + 1
  /\ daemon' = births'
  /\ procs' = procs \cup {births'}
  /\ UNCHANGED <<loaded, incarnation, files, supVars, agentVars>>

\* The daemon runs a model in a process of its own, which may be working on
\* anything the daemon received.
SpawnRunner ==
  /\ daemon # 0 /\ births < MaxBirths
  /\ births' = births + 1
  /\ procs' = procs \cup {births'}
  /\ carriers' = [o \in Ops |-> carriers[o] \cup (IF daemon \in carriers[o] THEN {births'} ELSE {})]
  /\ UNCHANGED <<loaded, daemon, incarnation, files, supVars, holdVars, gateVars, opState,
                 auditVars, callVars>>

\* A process ends: on launchd's stop, on a signal, or by itself.  A runner may
\* outlive its daemon.
Exit(p) ==
  /\ p \in procs
  /\ procs' = procs \ {p}
  /\ daemon' = IF daemon = p THEN 0 ELSE daemon
  /\ UNCHANGED <<loaded, births, incarnation, files, supVars, agentVars>>

WitnessRestart ==
  /\ crashes < MaxCrashes
  /\ crashes' = crashes + 1
  /\ incarnation' = incarnation + 1
  /\ UNCHANGED <<loaded, daemon, procs, births, files, spc, batch, cur, before, result, ran,
                 agentVars>>

\* observe() after the nonce was read: who listens now, and which witness saw it.
Sight == <<incarnation, daemon>>

-----------------------------------------------------------------------------
(* The supervisor.                                                         *)

\* The cycle goes on to the next path it listed.
NextPath(rest) == IF rest = {} THEN "idle" ELSE "pick"

\* pending(): the names of the requests filed now.
List ==
  /\ spc = "idle"
  /\ \E r \in Ids : filed[r]
  /\ batch' = {r \in Ids : filed[r]}
  /\ spc' = "pick"
  /\ UNCHANGED <<files, cur, before, result, ran, crashes, hostVars, agentVars>>

\* Mutant: a request is taken without asking whether it was answered.
TakenAgain(r) == FALSE

\* The receipt exists: executed already, never twice.
AnsweredAlready(r) == receipt[r] # "none"

\* One path of the listing: answered already, withdrawn since, or claimed by
\* the rename.
Pick(r) ==
  /\ spc = "pick" /\ r \in batch
  /\ batch' = batch \ {r}
  /\ IF AnsweredAlready(r) \/ ~filed[r]
     THEN /\ filed' = [filed EXCEPT ![r] = FALSE]
          /\ spc' = NextPath(batch')
          /\ UNCHANGED <<claimed, cur>>
     ELSE /\ filed' = [filed EXCEPT ![r] = FALSE]
          /\ claimed' = [claimed EXCEPT ![r] = TRUE]
          /\ cur' = r
          /\ spc' = "read"
  /\ UNCHANGED <<receipt, before, result, ran, crashes, hostVars, agentVars>>

SupervisorStays == UNCHANGED <<files, batch, cur, crashes, agentVars>>

\* read_request and the head of execute(): a malformed request is rejected.
Read ==
  /\ spc = "read"
  /\ IF ActionOf[cur] = "malformed"
     THEN /\ spc' = "publish" /\ result' = "rejected"
          /\ UNCHANGED <<before, ran>>
     ELSE /\ spc' = IF ActionOf[cur] = "start" THEN "start" ELSE "bootout"
          /\ before' = procs
          /\ ran' = [ran EXCEPT ![cur] = @ + 1]
          /\ result' = "failed"
  /\ SupervisorStays /\ UNCHANGED hostVars

\* stop(): bootout, which may not unload the job in time.
Bootout ==
  /\ spc = "bootout"
  /\ \/ loaded' = FALSE /\ spc' = "exit"
     \/ UNCHANGED loaded /\ spc' = "publish"
  /\ UNCHANGED <<before, result, ran, daemon, procs, births, incarnation>>
  /\ SupervisorStays

\* Every identity scanned is gone, or the waits, with a SIGTERM and a SIGKILL to
\* each identity still there, have ended (Exit is what the signals do).
AwaitExit ==
  /\ spc = "exit" /\ spc' = "scan"
  /\ UNCHANGED <<before, result, ran, hostVars>> /\ SupervisorStays

\* Mutant: launchd's word that the job is gone is enough.
SurvivorsUnread == {}

\* A fresh scan: a runner spawned during the stop counts.
Survivors == procs

Scan ==
  /\ spc = "scan"
  /\ spc' = IF Survivors = {} /\ ~loaded /\ ActionOf[cur] = "restart" THEN "start" ELSE "publish"
  /\ result' = IF Survivors = {} /\ ~loaded /\ ActionOf[cur] = "stop" THEN "ok" ELSE "failed"
  /\ UNCHANGED <<before, ran, hostVars>> /\ SupervisorStays

\* start(): bootstrap unless the job is loaded; the bootstrap may fail.
Start ==
  /\ spc = "start"
  /\ \/ loaded' = TRUE /\ spc' = "running"
     \/ ~loaded /\ UNCHANGED loaded /\ spc' = "publish"
  /\ UNCHANGED <<before, result, ran, daemon, procs, births, incarnation>>
  /\ SupervisorStays

\* The daemon launchd reports is running and, for a restart, is a new one; or
\* the wait ends without one.
Started ==
  /\ spc = "running"
  /\ spc' = "publish"
  /\ \/ /\ daemon # 0
        /\ result' = IF ActionOf[cur] = "restart" /\ daemon \in before THEN "failed" ELSE "ok"
     \/ result' = "failed"
  /\ UNCHANGED <<before, ran, hostVars>> /\ SupervisorStays

\* publish(): the receipt replaces atomically.
Publish ==
  /\ spc = "publish"
  /\ receipt' = [receipt EXCEPT ![cur] = result]
  /\ spc' = "clear"
  /\ UNCHANGED <<filed, claimed, batch, cur, before, result, ran, crashes,
                 hostVars, agentVars>>

\* The claim goes only after the receipt.
Clear ==
  /\ spc = "clear"
  /\ claimed' = [claimed EXCEPT ![cur] = FALSE]
  /\ cur' = NoId
  /\ spc' = NextPath(batch)
  /\ before' = {} /\ result' = "failed"
  /\ UNCHANGED <<filed, receipt, batch, ran, crashes, hostVars, agentVars>>

\* launchd restarts the supervisor, or an OSError ends its cycle: nothing of the
\* cycle survives.
SupervisorDies ==
  /\ crashes < MaxCrashes /\ spc # "idle"
  /\ crashes' = crashes + 1
  /\ spc' = "idle" /\ batch' = {} /\ cur' = NoId
  /\ before' = {} /\ result' = "failed"
  /\ UNCHANGED <<files, ran, hostVars, agentVars>>

Supervise ==
  \/ List \/ (\E r \in Ids : Pick(r)) \/ Read \/ Bootout \/ AwaitExit \/ Scan
  \/ Start \/ Started \/ Publish \/ Clear

-----------------------------------------------------------------------------
(* Supervisor.run of the agent.                                            *)

Free(c) == \A d \in Calls \ {c} : pc[d] \notin Running

Goto(c, place) == pc' = [pc EXCEPT ![c] = place]

\* A step of call c that leaves the files, the host and the hold alone.
CallStep(c) == Free(c) /\ UNCHANGED <<supVars, hostVars, holdVars>>

AgentOnly == UNCHANGED <<gateVars, opVars, auditVars, seen, sure>>

\* _checked: a receipt for another action does not answer.
Checked(r) == IF receipt[r] = "rejected" THEN "mismatch" ELSE "answered"

\* An existing receipt is the answer; otherwise is the request there, ...
Look(c) ==
  /\ pc[c] = "look" /\ CallStep(c)
  /\ Goto(c, IF receipt[IdOf[c]] # "none" THEN Checked(IdOf[c])
             ELSE IF filed[IdOf[c]] THEN "poll" ELSE "unfiled")
  /\ UNCHANGED files /\ AgentOnly

\* ... or already taken ...
LookClaim(c) ==
  /\ pc[c] = "unfiled" /\ CallStep(c)
  /\ Goto(c, IF claimed[IdOf[c]] THEN "poll" ELSE "unclaimed")
  /\ UNCHANGED files /\ AgentOnly

\* ... and if neither, it is written, or the write fails.
File(c) ==
  /\ pc[c] = "unclaimed" /\ CallStep(c)
  /\ \/ filed' = [filed EXCEPT ![IdOf[c]] = TRUE] /\ Goto(c, "poll")
     \/ UNCHANGED filed /\ Goto(c, "refused")
  /\ UNCHANGED <<claimed, receipt>> /\ AgentOnly

\* One turn of the wait, the first one at once: a receipt, or the request still
\* filed, ...
Poll(c) ==
  /\ pc[c] \in {"poll", "wait"} /\ CallStep(c)
  /\ Goto(c, IF receipt[IdOf[c]] # "none" THEN Checked(IdOf[c])
             ELSE IF filed[IdOf[c]] THEN "wait" ELSE "pollclaim")
  /\ UNCHANGED files /\ AgentOnly

\* ... or claimed, ...
PollClaim(c) ==
  /\ pc[c] = "pollclaim" /\ CallStep(c)
  /\ Goto(c, IF claimed[IdOf[c]] THEN "wait" ELSE "pollagain")
  /\ UNCHANGED files /\ AgentOnly

\* ... and with neither, the receipt is read once more: none means withdrawn.
PollAgain(c) ==
  /\ pc[c] = "pollagain" /\ CallStep(c)
  /\ Goto(c, IF receipt[IdOf[c]] # "none" THEN Checked(IdOf[c]) ELSE "withdrawn")
  /\ UNCHANGED files /\ AgentOnly

\* Mutant: a timed-out request counts as withdrawn whoever removed its file.
DeadlineBlind(c) ==
  /\ pc[c] = "wait" /\ CallStep(c)
  /\ Goto(c, "withdrawn")
  /\ filed' = [filed EXCEPT ![IdOf[c]] = FALSE]
  /\ UNCHANGED <<claimed, receipt>> /\ AgentOnly

\* The deadline: withdrawn by the unlink, unless the supervisor has taken it.
\* Any other failure of the unlink is passed over: the caller is told the same
\* of a request that may be filed or running.
Deadline(c) ==
  /\ pc[c] = "wait" /\ CallStep(c)
  /\ \/ /\ Goto(c, IF filed[IdOf[c]] THEN "withdrawn" ELSE "taken")
        /\ filed' = [filed EXCEPT ![IdOf[c]] = FALSE]
     \/ Goto(c, "leftover") /\ UNCHANGED filed
  /\ UNCHANGED <<claimed, receipt>> /\ AgentOnly

Run(c) ==
  \/ Look(c) \/ LookClaim(c) \/ File(c) \/ Poll(c) \/ PollClaim(c) \/ PollAgain(c)
  \/ Deadline(c)

-----------------------------------------------------------------------------
(* The three routes that ask for a restart.                                *)

InState(s) == {o \in Ops : opState[o] = s}

\* GateState.SERVING: no hold, no drain, nothing unknown.
Serving == frozenAt = 0 /\ ~drained /\ InState("unknown") = {}

Held(c) == closed /\ epoch = EpochOf[c]

\* POST /v1/maintenance/reset: for the hold closed now.
MaintenanceReset(c) ==
  /\ pc[c] = "idle" /\ KindOf[c] = "maintenance" /\ CallStep(c)
  /\ Goto(c, IF Held(c) THEN "freeze" ELSE "refused")
  /\ UNCHANGED files /\ AgentOnly

\* The gate is frozen whatever happened since the read; no sender may be left.
FreezeForReset(c) ==
  /\ pc[c] = "freeze" /\ KindOf[c] = "maintenance" /\ CallStep(c)
  /\ frozenAt' = EpochOf[c]
  /\ Goto(c, IF InState("sending") = {} THEN "recorded" ELSE "refused")
  /\ UNCHANGED <<files, drained, quiet, opVars, auditVars, seen, sure>>

\* Resumed from the audit: done, a baseline, a receipt without one, or nothing
\* yet, and then the cohort is what is unknown or settling now.
Recorded(c) ==
  /\ pc[c] = "recorded" /\ KindOf[c] = "maintenance" /\ CallStep(c)
  /\ LET r == IdOf[c]
         fresh == baseline[r] = NoSight /\ receipt[r] = "none"
     IN /\ Goto(c, IF done[r] # "none" THEN "reported" ELSE IF fresh THEN "attest" ELSE "check")
        /\ seen' = [seen EXCEPT ![c] = baseline[r]]
        /\ sure' = [sure EXCEPT ![c] = IF fresh THEN InState("unknown") \cup InState("settling")
                                      ELSE cohort[r]]
  /\ UNCHANGED <<files, gateVars, opVars, auditVars>>

\* The baseline is audited with its cohort; an unanswered challenge leaves the
\* restart unwitnessed.
Attest(c) ==
  /\ pc[c] = "attest" /\ KindOf[c] = "maintenance" /\ CallStep(c)
  /\ Goto(c, "check")
  /\ \/ /\ daemon # 0
        /\ seen' = [seen EXCEPT ![c] = Sight]
        /\ baseline' = [baseline EXCEPT ![IdOf[c]] = Sight]
        /\ cohort' = [cohort EXCEPT ![IdOf[c]] = sure[c]]
     \/ UNCHANGED <<seen, baseline, cohort>>
  /\ UNCHANGED <<files, gateVars, opVars, done, sure>>

\* POST /v1/maintenance/resets: start(), for an unknown operation.
OperationReset(c) ==
  /\ pc[c] = "idle" /\ KindOf[c] = "operation" /\ CallStep(c)
  /\ opState[TargetOf[c]] = "unknown"
  /\ drained' = TRUE
  /\ Goto(c, "drain")
  /\ UNCHANGED <<files, frozenAt, quiet, opVars, auditVars, seen, sure>>

\* Drained, then the baseline, kept in this process only.
OperationBaseline(c) ==
  /\ pc[c] = "drain" /\ KindOf[c] = "operation" /\ CallStep(c)
  /\ InState("sending") \cup InState("settling") = {}
  /\ \/ /\ daemon # 0
        /\ seen' = [seen EXCEPT ![c] = Sight]
        /\ sure' = [sure EXCEPT ![c] = {TargetOf[c]}]
        /\ Goto(c, "look")
     \/ Goto(c, "refused") /\ UNCHANGED <<seen, sure>>
  /\ UNCHANGED <<files, gateVars, opVars, auditVars>>

\* POST /v1/maintenance/runtime/{action}: refused while serving or sending; the
\* audit write comes before the request is filed.
RuntimeControl(c) ==
  /\ pc[c] = "idle" /\ KindOf[c] = "control" /\ CallStep(c)
  /\ Goto(c, IF Serving \/ InState("sending") # {} THEN "refused" ELSE "check")
  /\ UNCHANGED files /\ AgentOnly

\* Just before the restart a maintenance reset reads the hold again, unless the
\* restart was done already.
Check(c) ==
  /\ pc[c] = "check" /\ CallStep(c)
  /\ Goto(c, IF KindOf[c] = "maintenance" /\ receipt[IdOf[c]] = "none" /\ ~Held(c)
             THEN "refused" ELSE "look")
  /\ UNCHANGED files /\ AgentOnly

\* The receipt is audited; a restart that failed ends the call.
Answered(c) ==
  /\ pc[c] = "answered" /\ CallStep(c)
  /\ Goto(c, CASE receipt[IdOf[c]] # "ok" -> "failed"
               [] KindOf[c] = "control" -> "ok"
               [] OTHER -> "after")
  /\ UNCHANGED files /\ AgentOnly

\* The second answer: the same witness, another instance.
RestartAttested(c) ==
  /\ seen[c] # NoSight /\ daemon # 0
  /\ Sight[1] = seen[c][1] /\ Sight[2] # seen[c][2]

\* _after and complete(): attested, or given up (a witness that restarted, or
\* the settling time), which ends a single operation's reset.
After(c) ==
  /\ pc[c] = "after" /\ KindOf[c] # "control" /\ CallStep(c)
  /\ \/ /\ RestartAttested(c)
        /\ Goto(c, IF KindOf[c] = "maintenance" THEN "recheck" ELSE "resolve")
        /\ UNCHANGED sure
     \/ /\ Goto(c, IF KindOf[c] = "maintenance" THEN "resolve" ELSE "refused")
        /\ sure' = [sure EXCEPT ![c] = {}]
  /\ UNCHANGED <<files, gateVars, opVars, auditVars, seen>>

\* The hold was not lifted during the reset.
StillHeld(c) == Held(c) /\ frozenAt = EpochOf[c]

Recheck(c) ==
  /\ pc[c] = "recheck" /\ KindOf[c] = "maintenance" /\ CallStep(c)
  /\ Goto(c, "resolve")
  /\ sure' = [sure EXCEPT ![c] = IF StillHeld(c) THEN @ ELSE {}]
  /\ UNCHANGED <<files, gateVars, opVars, auditVars, seen>>

\* resolve_unknown, one operation at a time.
Resolve(c, o) ==
  /\ pc[c] = "resolve" /\ CallStep(c)
  /\ o \in sure[c]
  /\ sure' = [sure EXCEPT ![c] = @ \ {o}]
  /\ opState' = [opState EXCEPT ![o] = IF @ = "unknown" THEN "resolved" ELSE @]
  /\ UNCHANGED <<files, gateVars, carriers, auditVars, pc, seen>>

\* The report of a maintenance reset; a single operation's reset reopens.
Report(c) ==
  /\ pc[c] = "resolve" /\ sure[c] = {} /\ CallStep(c)
  /\ Goto(c, "reported")
  /\ IF KindOf[c] = "maintenance"
     THEN /\ done' = [done EXCEPT ![IdOf[c]] =
                IF InState("unknown") \cup InState("settling") = {} THEN "resolved"
                ELSE "unresolved"]
          /\ UNCHANGED drained
     ELSE drained' = FALSE /\ UNCHANGED done
  /\ UNCHANGED <<files, frozenAt, quiet, opVars, baseline, cohort, seen, sure>>

\* The coordinator asks again, under the same id, until it has a report.
AskAgain(c) ==
  /\ KindOf[c] = "maintenance" /\ pc[c] \in {"refused", "withdrawn", "leftover", "taken"}
  /\ CallStep(c)
  /\ Goto(c, "idle")
  /\ seen' = [seen EXCEPT ![c] = NoSight] /\ sure' = [sure EXCEPT ![c] = {}]
  /\ UNCHANGED <<files, gateVars, opVars, auditVars>>

Call(c) ==
  \/ AskAgain(c) \/ MaintenanceReset(c) \/ FreezeForReset(c) \/ Recorded(c) \/ Attest(c)
  \/ OperationReset(c) \/ OperationBaseline(c) \/ RuntimeControl(c)
  \/ Check(c) \/ Run(c) \/ Answered(c) \/ After(c) \/ Recheck(c)
  \/ (\E o \in Ops : Resolve(c, o)) \/ Report(c)

-----------------------------------------------------------------------------
(* Serving: the hold, the drain and the operations.                        *)

Idle == \A c \in Calls : pc[c] \notin Running
GateStep == Idle /\ UNCHANGED <<supVars, hostVars, auditVars, callVars>>

EnterMaintenance ==
  /\ ~closed /\ epoch < MaxEpoch
  /\ closed' = TRUE /\ epoch' = epoch + 1
  /\ UNCHANGED <<files, supVars, hostVars, gateVars, opVars, auditVars, callVars>>

LiftHold ==
  /\ closed /\ closed' = FALSE
  /\ UNCHANGED <<epoch, files, supVars, hostVars, gateVars, opVars, auditVars, callVars>>

\* follow_hold, closing.
FollowClosed ==
  /\ GateStep /\ closed /\ frozenAt # epoch
  /\ frozenAt' = epoch
  /\ UNCHANGED <<files, holdVars, drained, quiet, opVars>>

\* runtime_quiet_for_serving: what the supervisor has not taken is withdrawn, or
\* an unlink or its audit raises on the way ...
WithdrawOutstanding(w) ==
  /\ GateStep /\ quiet[w] = "idle"
  /\ IF w = "watchdog" THEN ~closed /\ frozenAt # 0 ELSE drained
  /\ \/ /\ filed' = [r \in Ids |-> FALSE]
        /\ quiet' = [quiet EXCEPT ![w] = "withdrawn"]
     \/ /\ \E kept \in SUBSET {r \in Ids : filed[r]} : filed' = [r \in Ids |-> r \in kept]
        /\ UNCHANGED quiet
  /\ UNCHANGED <<claimed, receipt, holdVars, frozenAt, drained, opVars>>

\* ... and what it has taken must have its receipt.
QuietForServing(w) ==
  /\ GateStep /\ quiet[w] = "withdrawn"
  /\ quiet' = [quiet EXCEPT ![w] =
       IF \E r \in Ids : claimed[r] /\ receipt[r] = "none" THEN "idle" ELSE "quiet"]
  /\ UNCHANGED <<files, holdVars, frozenAt, drained, opVars>>

\* thaw() and reopen().
Reopen(w) ==
  /\ GateStep /\ quiet[w] = "quiet"
  /\ quiet' = [quiet EXCEPT ![w] = "idle"]
  /\ IF w = "watchdog" THEN frozenAt' = 0 /\ UNCHANGED drained
     ELSE drained' = FALSE /\ UNCHANGED frozenAt
  /\ UNCHANGED <<files, holdVars, opVars>>

\* POST /v1/drain.
Drain ==
  /\ GateStep /\ "resume" \in Asker /\ ~drained /\ drained' = TRUE
  /\ UNCHANGED <<files, holdVars, frozenAt, quiet, opVars>>

\* Promoted: serving, and the hold read open under its fence ...
Send(o) ==
  /\ GateStep /\ Serving /\ ~closed /\ opState[o] = "none"
  /\ opState' = [opState EXCEPT ![o] = "sending"]
  /\ UNCHANGED <<files, holdVars, gateVars, carriers>>

\* ... and, whatever the hold does meanwhile, the runtime that listens takes it.
Reach(o) ==
  /\ GateStep /\ opState[o] = "sending" /\ carriers[o] = {} /\ daemon # 0
  /\ carriers' = [carriers EXCEPT ![o] = procs]
  /\ UNCHANGED <<files, holdVars, gateVars, opState>>

\* Its sender ends without an outcome (interrupted, cut off), which is then
\* committed.
Settle(o) ==
  /\ GateStep
  /\ \/ opState[o] = "sending" /\ opState' = [opState EXCEPT ![o] = "settling"]
     \/ opState[o] = "settling" /\ opState' = [opState EXCEPT ![o] = "unknown"]
  /\ UNCHANGED <<files, holdVars, gateVars, carriers>>

\* The agent dies: its calls end unanswered, its senders become unknown, and
\* the next agent starts with the hold it reads.
AgentDies ==
  /\ crashes < MaxCrashes
  /\ crashes' = crashes + 1
  /\ pc' = [c \in Calls |-> IF pc[c] \in Answers \cup {"idle"} THEN pc[c] ELSE "refused"]
  /\ seen' = [c \in Calls |-> NoSight] /\ sure' = [c \in Calls |-> {}]
  /\ frozenAt' = IF closed THEN epoch ELSE 0
  /\ drained' = FALSE /\ quiet' = [w \in Asker |-> "idle"]
  /\ opState' = [o \in Ops |-> IF opState[o] \in {"sending", "settling"} THEN "unknown"
                               ELSE opState[o]]
  /\ UNCHANGED <<files, spc, batch, cur, before, result, ran, hostVars, holdVars,
                 carriers, auditVars>>

Serve ==
  \/ EnterMaintenance \/ LiftHold \/ FollowClosed \/ Drain
  \/ \E w \in Asker : WithdrawOutstanding(w) \/ QuietForServing(w) \/ Reopen(w)
  \/ \E o \in Ops : Send(o) \/ Reach(o) \/ Settle(o)

Host == Spawn \/ SpawnRunner \/ (\E p \in procs : Exit(p)) \/ WitnessRestart

Init ==
  /\ filed = [r \in Ids |-> FALSE] /\ claimed = [r \in Ids |-> FALSE]
  /\ receipt = [r \in Ids |-> "none"]
  /\ spc = "idle" /\ batch = {} /\ cur = NoId /\ before = {}
  /\ result = "failed" /\ ran = [r \in Ids |-> 0] /\ crashes = 0
  /\ loaded = TRUE /\ daemon = 1 /\ procs = {1} /\ births = 1 /\ incarnation = 0
  /\ closed = FALSE /\ epoch = 0 /\ frozenAt = 0 /\ drained = FALSE
  /\ quiet = [w \in Asker |-> "idle"]
  /\ opState = [o \in Ops |-> "none"] /\ carriers = [o \in Ops |-> {}]
  /\ baseline = [r \in Ids |-> NoSight] /\ cohort = [r \in Ids |-> {}]
  /\ done = [r \in Ids |-> "none"]
  /\ pc = [c \in Calls |-> "idle"]
  /\ seen = [c \in Calls |-> NoSight] /\ sure = [c \in Calls |-> {}]

Next ==
  \/ Host \/ Supervise \/ SupervisorDies \/ AgentDies \/ Serve
  \/ \E c \in Calls : Call(c)

Spec == Init /\ [][Next]_vars

-----------------------------------------------------------------------------
(* Properties.                                                             *)

SupervisorSteps == {"read", "bootout", "exit", "scan", "start", "running", "publish", "clear"}

TypeOK ==
  /\ filed \in [Ids -> BOOLEAN] /\ claimed \in [Ids -> BOOLEAN]
  /\ receipt \in [Ids -> {"none", "ok", "failed", "rejected"}]
  /\ spc \in {"idle", "pick"} \cup SupervisorSteps /\ batch \subseteq Ids
  /\ cur \in Ids \cup {NoId} /\ (spc \in SupervisorSteps => cur \in Ids)
  /\ result \in {"ok", "failed", "rejected"} /\ ran \in [Ids -> Nat]
  /\ crashes \in 0 .. MaxCrashes /\ incarnation \in 0 .. crashes
  /\ births \in 1 .. MaxBirths /\ loaded \in BOOLEAN
  /\ procs \subseteq 1 .. births /\ before \subseteq 1 .. births /\ daemon \in procs \cup {0}
  /\ closed \in BOOLEAN /\ epoch \in 0 .. MaxEpoch /\ frozenAt \in Nat /\ drained \in BOOLEAN
  /\ quiet \in [Asker -> {"idle", "withdrawn", "quiet"}]
  /\ opState \in [Ops -> {"none", "sending", "settling", "unknown", "resolved"}]
  /\ carriers \in [Ops -> SUBSET (1 .. births)]
  /\ baseline \in [Ids -> Sights] /\ cohort \in [Ids -> SUBSET Ops]
  /\ done \in [Ids -> {"none", "resolved", "unresolved"}]
  /\ pc \in [Calls -> Place] /\ seen \in [Calls -> Sights] /\ sure \in [Calls -> SUBSET Ops]

\* A request is executed at most once: not twice after a retry, a second call
\* under the same id, an agent that died waiting or a supervisor that died at
\* any step (cycle() claims by renaming and discards what has a receipt).
ResetRunsOnce == \A r \in Ids : ran[r] <= 1

\* An unknown outcome is cleared only once every process that may have been
\* working on it is gone, the daemon and its runners alike: the evidence of
\* maintenance_reset and reset, taken up again by any number of calls.
ResolvedMeansGone ==
  \A o \in Ops : opState[o] = "resolved" => carriers[o] \cap procs = {}

\* A caller told that its request was withdrawn is told the truth, unless the
\* request's file could not be removed (run() passes over that OSError and says
\* "withdrawn" all the same): it is not filed and not running, and unless a
\* receipt says otherwise it never ran, so it runs only if somebody asks again.
ToldTruly ==
  \A c \in Calls : pc[c] # "withdrawn" /\ pc'[c] = "withdrawn" =>
    LET r == IdOf[c]
    IN ~filed'[r] /\ (ran[r] = 0 \/ (receipt[r] # "none" /\ pc[c] = "wait"))
WithdrawnNeverRuns == [][ToldTruly]_vars

\* What makes the three inductive.  A request is in one place: what is claimed
\* and unanswered is not filed, what has run is claimed or answered, the claim
\* in hand is unanswered until the receipt, and only one call looks at a time.
OnePlace ==
  /\ \A r \in Ids : claimed[r] /\ receipt[r] = "none" => ~filed[r]
  /\ \A r \in Ids : ran[r] > 0 => claimed[r] \/ receipt[r] # "none"
InHand ==
  /\ spc \in SupervisorSteps \ {"clear"} => claimed[cur] /\ receipt[cur] = "none"
  /\ spc = "read" => ran[cur] = 0
  /\ spc = "clear" => receipt[cur] # "none"
OneLooks ==
  /\ \A c, d \in Calls : pc[c] \in Running /\ pc[d] \in Running => c = d
  /\ \A c \in Calls : pc[c] \in {"unfiled", "pollclaim", "unclaimed", "pollagain"} =>
       ~filed[IdOf[c]]
  /\ \A c \in Calls : pc[c] \in {"unclaimed", "pollagain"} => ~claimed[IdOf[c]]
OnceInv == OnePlace /\ InHand /\ OneLooks /\ ResetRunsOnce

\* The operations whose sender has ended: no process takes them up any more.
Ended == {o \in Ops : opState[o] \in {"settling", "unknown", "resolved"}}
Gone(o) == carriers[o] \cap procs = {}

Touched(r) == filed[r] \/ claimed[r] \/ receipt[r] # "none"
\* The stop of a restart found the runtime's account empty.
Scanned(r) ==
  \/ receipt[r] = "ok"
  \/ /\ cur = r /\ spc \in SupervisorSteps
     /\ spc \in {"start", "running"} \/ (spc = "publish" /\ result = "ok")

Entered == {"freeze", "recorded", "attest", "check", "wait", "answered", "after", "recheck",
            "resolve"} \cup Running
Frozen == Entered \ {"freeze"}

\* A restart of one entry: filed under that entry or later, with no sender left
\* while the entry lasts, and once scanned every ended operation is gone.
EntryScanned ==
  \A c \in Calls : KindOf[c] = "maintenance" =>
    /\ pc[c] \in Entered \/ Touched(IdOf[c]) => epoch >= EpochOf[c]
    /\ (pc[c] \in Frozen \/ Touched(IdOf[c])) /\ Held(c) => InState("sending") = {}
    /\ Scanned(IdOf[c]) /\ Held(c) => \A o \in Ended : Gone(o)
\* A restart for one operation: asked for once it is unknown.
TargetScanned ==
  \A c \in Calls : KindOf[c] = "operation" =>
    /\ pc[c] \in {"idle", "drain"} => ~Touched(IdOf[c])
    /\ pc[c] # "idle" => TargetOf[c] \in Ended
    /\ sure[c] \subseteq {TargetOf[c]}
    /\ Scanned(IdOf[c]) => Gone(TargetOf[c])
CohortEnded ==
  /\ \A r \in Ids : cohort[r] \subseteq Ended
  /\ \A c \in Calls : sure[c] \subseteq Ended
FailedUntilDone == spc \in {"bootout", "exit", "scan", "start", "running"} => result = "failed"
OnReceipt ==
  /\ \A c \in Calls : pc[c] \in {"after", "recheck", "resolve"} => receipt[IdOf[c]] = "ok"
  /\ \A c \in Calls : pc[c] = "resolve" => \A o \in sure[c] : Gone(o)
GoneInv ==
  /\ EntryScanned /\ TargetScanned /\ CohortEnded /\ FailedUntilDone /\ OnReceipt /\ ResolvedMeansGone

\* What may not last: a request nobody took, or one in the supervisor's hands.
\* One the supervisor died with stays claimed for good, and unanswered.
Unanswered(r) == filed[r] \/ (cur = r /\ receipt[r] = "none")

=============================================================================
