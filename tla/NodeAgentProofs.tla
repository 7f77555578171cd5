--------------------------- MODULE NodeAgentProofs ---------------------------
(***************************************************************************)
(* Machine-checked proofs about NodeAgent, for any number of processes and *)
(* operations and any bounds: its type invariant, the inductive invariant  *)
(* of the operation ledger, that it implements OperationLedger, and what   *)
(* its gate keeps apart.                                                   *)
(***************************************************************************)
EXTENDS NodeAgent, TLAPS

USE AgentAssumption, KindAssumption, BoundAssumption

-----------------------------------------------------------------------------
(* The type invariant.                                                     *)

\* Every way a row is written keeps the rows well-typed.
LEMMA RowTyped ==
  ASSUME TypeOK, NEW p \in Agents, NEW o \in Ops,
         \/ UNCHANGED rowVars
         \/ CancelRow(p, o) \/ DoubtRow(p, o)
         \/ task[p][o] \in Committable /\ CommitOutcome(p, o)
         \/ SetRow(o, "accepted", myGen[p])
         \/ SetRow(o, "failed", opGen[o])
         \/ SetRow(o, "running", opGen[o])
  PROVE  opState' \in [Ops -> RowState] /\ opGen' \in [Ops -> Nat]
<1>0. opState \in [Ops -> RowState] /\ opGen \in [Ops -> Nat] /\ myGen[p] \in Nat
  BY DEF TypeOK
<1>1. ASSUME NEW s \in RowState, NEW g \in Nat, SetRow(o, s, g)
      PROVE  opState' \in [Ops -> RowState] /\ opGen' \in [Ops -> Nat]
  BY <1>0, <1>1 DEF SetRow
<1>2. CASE UNCHANGED rowVars
  BY <1>0, <1>2 DEF rowVars
<1>3. opGen[o] \in Nat /\ {"accepted", "failed", "running", "cancelled_unsent"} \subseteq RowState
  BY <1>0 DEF RowState
<1>4. CASE CancelRow(p, o)
  <2>1. SetRow(o, "cancelled_unsent", myGen[p]) \/ UNCHANGED rowVars
    BY <1>4 DEF CancelRow
  <2> QED BY <2>1, <1>0, <1>1, <1>2, <1>3
<1>5. CASE DoubtRow(p, o)
  <2>1. SetRow(o, "cancelled_unsent", opGen[o]) \/ CancelRow(p, o)
    BY <1>5 DEF DoubtRow
  <2> QED BY <2>1, <1>1, <1>3, <1>4
<1>6. CASE task[p][o] \in Committable /\ CommitOutcome(p, o)
  <2>1. OutcomeRow(task[p][o]) \in RowState
    BY <1>6 DEF OutcomeRow, Committable, RowState
  <2>2. SetRow(o, OutcomeRow(task[p][o]), opGen[o]) \/ UNCHANGED rowVars
    BY <1>6 DEF CommitOutcome
  <2> QED BY <2>1, <2>2, <1>1, <1>2, <1>3
<1>7. CASE \/ SetRow(o, "accepted", myGen[p]) \/ SetRow(o, "failed", opGen[o])
           \/ SetRow(o, "running", opGen[o])
  BY <1>7, <1>0, <1>1, <1>3
<1> QED BY <1>2, <1>4, <1>5, <1>6, <1>7

\* A task moved to a place leaves the tasks well-typed.
LEMMA TaskTyped ==
  ASSUME TypeOK, NEW p \in Agents, NEW o \in Ops, NEW b \in Place, Goto(p, o, b)
  PROVE  task' \in [Agents -> [Ops -> Place]]
BY DEF TypeOK, Goto

\* A gate set to a gate state leaves the gates well-typed.
LEMMA GateTyped ==
  ASSUME TypeOK, NEW p \in Agents, NEW s \in Gate, SetGate(p, s)
  PROVE  gate' \in [Agents -> Gate]
BY DEF TypeOK, SetGate

\* _close_locked computes a gate state.
LEMMA CloseToTyped ==
  ASSUME TypeOK, NEW p \in Agents, NEW s \in Gate
  PROVE  CloseTo(p, s) \in Gate
BY DEF TypeOK, CloseTo, Gate

\* _reopen_locked computes a gate state.
LEMMA ReopenToTyped ==
  ASSUME TypeOK, NEW p \in Agents, NEW f, NEW x
  PROVE  ReopenTo(p, f, x) \in Gate
BY DEF TypeOK, ReopenTo, Gate

\* A handler that leaves goes to a place.
LEMMA LeaveTyped == ASSUME NEW o PROVE Leave(o) \in Place
BY DEF Leave, Place

\* Init is well-typed.
LEMMA TypeInit == Init => TypeOK
<1> SUFFICES ASSUME Init PROVE TypeOK
  OBVIOUS
<1>1. /\ opState \in [Ops -> RowState] /\ opGen \in [Ops -> Nat]
      /\ gate \in [Agents -> Gate] /\ task \in [Agents -> [Ops -> Place]]
  BY DEF Init, RowState, Gate, Place
<1>2. /\ myGen \in [Agents -> Nat] /\ frozenAt \in [Agents -> Nat]
      /\ exclusive \in [Agents -> Ops \cup {NoOp}] /\ restoring \in [Agents -> Nat]
      /\ uncommitted \in [Agents -> SUBSET Ops] /\ tick \in [Agents -> Nat \cup {NoTick}]
      /\ baseline \in [Agents -> [Ops -> Nat]] /\ delivered \in [Ops -> Nat]
  BY DEF Init
<1> QED BY <1>1, <1>2 DEF Init, TypeOK

\* Steps of a process keep the types.
LEMMA TypeProcess ==
  ASSUME TypeOK, NEW p \in Agents, ProcessStep(p)
  PROVE  TypeOK'
<1> USE DEF idVars, rowVars, memVars, runtimeVars
<1>1. CASE Claim(p)
  BY <1>1 DEF Claim, TypeOK, SetGate, Gate, RowState, Takeover
<1>2. CASE OpenGate(p)
  BY <1>2 DEF OpenGate, TypeOK, SetGate, ReopenTo, Gate
<1>3. CASE Crash(p)
  BY <1>3 DEF Crash, Forget, TypeOK, SetGate, Gate, Place
<1>4. CASE StopAgent(p)
  BY <1>4 DEF StopAgent, TypeOK, SetGate, Gate
<1>5. CASE WatchLost(p)
  BY <1>5 DEF WatchLost, TypeOK, SetGate, Gate
<1>6. CASE Exit(p)
  BY <1>6 DEF Exit, Forget, TypeOK, SetGate, Gate, Place
<1>7. CASE Drain(p)
  BY <1>7 DEF Drain, TypeOK, SetGate, CloseTo, Gate
<1>8. CASE Reopen(p)
  BY <1>8 DEF Reopen, TypeOK, SetGate, ReopenTo, Gate
<1>9. CASE RecheckDrain(p)
  BY <1>9 DEF RecheckDrain, TypeOK, SetGate, ReopenTo, Gate
<1>10. CASE ReadHold(p)
  <2>1. PICK t \in Nat : tick' = [tick EXCEPT ![p] = t]
    BY <1>10 DEF ReadHold, ThawTick, TypeOK
  <2> QED BY <1>10, <2>1 DEF ReadHold, TypeOK
<1>11. CASE Freeze(p)
  <2>1. tick[p] \in Nat
    BY <1>11 DEF Freeze, TypeOK
  <2>2. CASE gate[p] = "lost"
    BY <1>11, <2>2 DEF Freeze, TypeOK
  <2>3. CASE gate[p] # "lost"
    BY <1>11, <2>1, <2>3 DEF Freeze, TypeOK, SetGate, Gate
  <2> QED BY <2>2, <2>3
<1>12. CASE Thaw(p)
  BY <1>12 DEF Thaw, TypeOK, SetGate, ReopenTo, Gate
<1>13. CASE Interrupt(p)
  <2> DEFINE cancelled == [o \in Ops |-> IF task[p][o] \in Senders THEN "cancelled"
                                                                ELSE task[p][o]]
  <2>a. cancelled \in [Ops -> Place]
    BY DEF TypeOK, Place, Tasks, Senders
  <2>b. task' = [task EXCEPT ![p] = cancelled]
    BY <1>13 DEF Interrupt
  <2> HIDE DEF cancelled
  <2>1. task' \in [Agents -> [Ops -> Place]]
    BY <2>a, <2>b DEF TypeOK
  <2>2. gate' \in [Agents -> Gate] /\ frozenAt' \in [Agents -> Nat]
    <3>1. CASE gate[p] = "lost"
      BY <1>13, <3>1 DEF Interrupt, TypeOK
    <3>2. CASE gate[p] # "lost"
      <4>1. SetGate(p, "maintenance") /\ frozenAt' = [frozenAt EXCEPT ![p] = epoch]
        BY <1>13, <3>2 DEF Interrupt
      <4> QED BY <4>1 DEF TypeOK, SetGate, Gate
    <3> QED BY <3>1, <3>2
  <2>3. UNCHANGED <<idVars, rowVars, runtimeVars, exclusive, restoring, operatorHold, stopping,
                    uncommitted, tick, baseline, quietAt>>
    BY <1>13 DEF Interrupt
  <2> QED BY <2>1, <2>2, <2>3 DEF TypeOK
<1>14. CASE ReportQuiet(p)
  BY <1>14 DEF ReportQuiet, TypeOK
<1> QED
  BY <1>1, <1>2, <1>3, <1>4, <1>5, <1>6, <1>7, <1>8, <1>9, <1>10, <1>11, <1>12, <1>13, <1>14
  DEF ProcessStep

\* So do the steps of the environment.
LEMMA TypeEnvironment ==
  ASSUME TypeOK, Environment
  PROVE  TypeOK'
<1> USE DEF rowVars, memVars, runtimeVars, idVars
<1>1. CASE SessionLost
  BY <1>1 DEF SessionLost, TypeOK
<1>2. CASE CloseHold
  BY <1>2 DEF CloseHold, TypeOK
<1>3. CASE OpenHold
  BY <1>3 DEF OpenHold, TypeOK
<1>4. CASE RuntimeRestarts
  BY <1>4 DEF RuntimeRestarts, TypeOK
<1>5. CASE \E o \in Ops : RuntimeFinishes(o)
  BY <1>5 DEF RuntimeFinishes, TypeOK
<1> QED BY <1>1, <1>2, <1>3, <1>4, <1>5 DEF Environment

\* And the steps of a handler or of its task.
LEMMA TypeOp ==
  ASSUME TypeOK, NEW p \in Agents, NEW o \in Ops, OpStep(p, o)
  PROVE  TypeOK'
<1> USE DEF idVars, rowVars, memVars, runtimeVars
<1>1. CASE Submit(p, o)
  BY <1>1, TaskTyped DEF Submit, TypeOK, Place, Waiting
<1>2. CASE SubmitLifecycle(p, o)
  BY <1>2 DEF SubmitLifecycle, TypeOK, Goto, SetGate, CloseTo, Gate, Place, Waiting
<1>3. CASE \E e \in 1..MaxEpoch : SubmitRestore(p, o, e)
  BY <1>3 DEF SubmitRestore, TypeOK, Goto, Place, Waiting
<1>4. CASE Insert(p, o)
  <2>1. opState' \in [Ops -> RowState] /\ opGen' \in [Ops -> Nat]
    BY <1>4, RowTyped DEF Insert
  <2>2. PICK b \in Place : Goto(p, o, b)
    BY <1>4, LeaveTyped DEF Insert, Place, Waiting
  <2>3. task' \in [Agents -> [Ops -> Place]]
    BY <2>2, TaskTyped
  <2>4. gate' \in [Agents -> Gate]
    BY <1>4 DEF Insert, TypeOK, SetGate, Gate
  <2>5. UNCHANGED <<idVars, memVars, runtimeVars, uncommitted, quietAt>>
    BY <1>4 DEF Insert
  <2> QED BY <2>1, <2>3, <2>4, <2>5 DEF TypeOK
<1>5. CASE InsertFault(p, o)
  <2>1. opState' \in [Ops -> RowState] /\ opGen' \in [Ops -> Nat]
    BY <1>5, RowTyped DEF InsertFault
  <2>2. PICK b \in Place : Goto(p, o, b)
    BY <1>5, LeaveTyped DEF InsertFault, Place, Waiting
  <2>3. task' \in [Agents -> [Ops -> Place]]
    BY <2>2, TaskTyped
  <2>4. UNCHANGED <<idVars, memVars, runtimeVars, gate, uncommitted, quietAt>>
    BY <1>5 DEF InsertFault
  <2> QED BY <2>1, <2>3, <2>4 DEF TypeOK
<1>6. CASE GiveUp(p, o) \/ SeeIdle(p, o) \/ TakeSlot(p, o)
  BY <1>6, TaskTyped DEF GiveUp, SeeIdle, TakeSlot, TypeOK, Place, Waiting
<1>7. CASE Promote(p, o)
  BY <1>7, TaskTyped, RowTyped DEF Promote, TypeOK, Place, Tasks
<1>8. CASE PromoteRefused(p, o)
  BY <1>8 DEF PromoteRefused, TypeOK, Goto, SetGate, Gate, Place, Waiting
<1>9. CASE PromoteFault(p, o)
  BY <1>9, TaskTyped, RowTyped DEF PromoteFault, TypeOK, Place, Waiting
<1>10. CASE Unsent(p, o) \/ UnsentFault(p, o) \/ CancelRoute(p, o)
  <2>1. opState' \in [Ops -> RowState] /\ opGen' \in [Ops -> Nat]
    BY <1>10, RowTyped DEF Unsent, UnsentFault, CancelRoute
  <2>2. task' = task \/ Goto(p, o, Leave(o))
    BY <1>10 DEF Unsent, UnsentFault, CancelRoute
  <2>3. task' \in [Agents -> [Ops -> Place]]
    BY <2>2, TaskTyped, LeaveTyped DEF TypeOK
  <2>4. gate' = gate \/ SetGate(p, "lost")
    BY <1>10 DEF Unsent, UnsentFault, CancelRoute
  <2>5. gate' \in [Agents -> Gate]
    BY <2>4, GateTyped DEF TypeOK, Gate
  <2>6. UNCHANGED <<idVars, memVars, runtimeVars, uncommitted, quietAt>>
    BY <1>10 DEF Unsent, UnsentFault, CancelRoute
  <2> QED BY <2>1, <2>3, <2>5, <2>6 DEF TypeOK
<1>11. CASE SettleDoubt(p, o)
  <2>1. opState' \in [Ops -> RowState] /\ opGen' \in [Ops -> Nat]
    BY <1>11, RowTyped DEF SettleDoubt
  <2>2. task' \in [Agents -> [Ops -> Place]]
    BY <1>11, TaskTyped, LeaveTyped DEF SettleDoubt
  <2>3. UNCHANGED <<idVars, memVars, runtimeVars, gate, uncommitted, quietAt>>
    BY <1>11 DEF SettleDoubt
  <2> QED BY <2>1, <2>2, <2>3 DEF TypeOK
<1>12. CASE DoubtFault(p, o)
  <2>1. opState' \in [Ops -> RowState] /\ opGen' \in [Ops -> Nat]
    BY <1>12, RowTyped DEF DoubtFault
  <2>2. task' \in [Agents -> [Ops -> Place]]
    BY <1>12, TaskTyped, LeaveTyped DEF DoubtFault
  <2>3. gate' \in [Agents -> Gate]
    BY <1>12, GateTyped, CloseToTyped DEF DoubtFault, Gate
  <2>4. uncommitted' = [uncommitted EXCEPT ![p] = @ \cup {o}]
    BY <1>12 DEF DoubtFault
  <2>5. UNCHANGED <<idVars, memVars, runtimeVars, quietAt>>
    BY <1>12 DEF DoubtFault
  <2> QED BY <2>1, <2>2, <2>3, <2>4, <2>5 DEF TypeOK
<1>13. CASE Send(p, o) \/ RelayNotSent(p, o) \/ RelayUncertain(p, o)
  BY <1>13, TaskTyped
  DEF Send, RelayNotSent, RelayUncertain, TypeOK, Place, Tasks, Senders, Settling
<1>14. CASE Deliver(p, o)
  BY <1>14, TaskTyped DEF Deliver, TypeOK, Place, Tasks, Senders
<1>15. CASE RelayAnswered(p, o)
  BY <1>15, TaskTyped DEF RelayAnswered, TypeOK, Place, Tasks, Settling
<1>16. CASE BlockUncertain(p, o)
  <2>1. task' \in [Agents -> [Ops -> Place]] /\ gate' \in [Agents -> Gate]
    BY <1>16, TaskTyped, GateTyped, CloseToTyped DEF BlockUncertain, Gate, Place, Tasks, Settling
  <2>2. /\ uncommitted' = [uncommitted EXCEPT ![p] = @ \cup {o}]
        /\ UNCHANGED <<idVars, rowVars, memVars, runtimeVars, quietAt>>
    BY <1>16 DEF BlockUncertain
  <2> QED BY <2>1, <2>2 DEF TypeOK
<1>17. CASE Settle(p, o)
  <2>1. opState' \in [Ops -> RowState] /\ opGen' \in [Ops -> Nat]
    BY <1>17, RowTyped DEF Settle
  <2>2. task' \in [Agents -> [Ops -> Place]]
    BY <1>17, TaskTyped, LeaveTyped DEF Settle
  <2>3. gate' = gate \/ SetGate(p, "lost")
    BY <1>17 DEF Settle
  <2>4. gate' \in [Agents -> Gate]
    BY <2>3, GateTyped DEF TypeOK, Gate
  <2>5. uncommitted' \in [Agents -> SUBSET Ops]
    <3>1. CASE Owns(p)
      <4>1. uncommitted' = [uncommitted EXCEPT ![p] = IF task[p][o] = "marked" THEN @ \ {o} ELSE @]
        BY <1>17, <3>1 DEF Settle
      <4> QED BY <4>1 DEF TypeOK
    <3>2. CASE ~Owns(p)
      BY <1>17, <3>2 DEF Settle, TypeOK
    <3> QED BY <3>1, <3>2
  <2>6. UNCHANGED <<idVars, memVars, runtimeVars, quietAt>>
    BY <1>17 DEF Settle
  <2> QED BY <2>1, <2>2, <2>4, <2>5, <2>6 DEF TypeOK
<1>18. CASE SettleUnacked(p, o)
  BY <1>18, RowTyped DEF SettleUnacked, TypeOK
<1>19. CASE EndExclusive(p, o)
  <2>1. task' \in [Agents -> [Ops -> Place]]
    BY <1>19, TaskTyped DEF EndExclusive, Place
  <2>2. /\ gate' \in [Agents -> Gate]
        /\ exclusive' \in [Agents -> Ops \cup {NoOp}] /\ restoring' \in [Agents -> Nat]
    <3>1. CASE exclusive[p] = o
      <4>1. /\ exclusive' = [exclusive EXCEPT ![p] = NoOp]
            /\ restoring' = [restoring EXCEPT ![p] = 0]
            /\ gate' = gate \/ SetGate(p, gate[p]) \/ SetGate(p, ReopenTo(p, frozenAt[p], NoOp))
        BY <1>19, <3>1 DEF EndExclusive
      <4>2. gate' \in [Agents -> Gate]
        BY <4>1, GateTyped, ReopenToTyped DEF TypeOK
      <4> QED BY <4>1, <4>2 DEF TypeOK
    <3>2. CASE exclusive[p] # o
      BY <1>19, <3>2 DEF EndExclusive, TypeOK
    <3> QED BY <3>1, <3>2
  <2>3. UNCHANGED <<idVars, rowVars, runtimeVars, frozenAt, operatorHold, stopping, uncommitted,
                    tick, baseline, quietAt>>
    BY <1>19 DEF EndExclusive
  <2> QED BY <2>1, <2>2, <2>3 DEF TypeOK
<1>20. CASE ResolveStart(p, o)
  BY <1>20 DEF ResolveStart, TypeOK, SetGate, CloseTo, Gate
<1>21. CASE ResolveDropped(p, o)
  BY <1>21 DEF ResolveDropped, TypeOK
<1>22. CASE ResolveComplete(p, o)
  <2>1. opState' \in [Ops -> RowState] /\ opGen' \in [Ops -> Nat]
    BY <1>22, RowTyped DEF ResolveComplete
  <2>2. task' = task \/ Goto(p, o, "reopening")
    BY <1>22 DEF ResolveComplete
  <2>3. task' \in [Agents -> [Ops -> Place]]
    BY <2>2, TaskTyped DEF TypeOK, Place
  <2>4. baseline' = [baseline EXCEPT ![p][o] = 0]
    BY <1>22 DEF ResolveComplete
  <2>5. UNCHANGED <<idVars, runtimeVars, gate, frozenAt, exclusive, restoring, operatorHold,
                    stopping, uncommitted, tick, quietAt>>
    BY <1>22 DEF ResolveComplete
  <2> QED BY <2>1, <2>3, <2>4, <2>5 DEF TypeOK
<1>23. CASE ReopenResolved(p, o)
  BY <1>23 DEF ReopenResolved, TypeOK, Goto, Place, SetGate, ReopenTo, Gate
<1> QED
  BY <1>1, <1>2, <1>3, <1>4, <1>5, <1>6, <1>7, <1>8, <1>9, <1>10, <1>11, <1>12, <1>13, <1>14,
     <1>15, <1>16, <1>17, <1>18, <1>19, <1>20, <1>21, <1>22, <1>23
  DEF OpStep

\* Every step, and stuttering, keeps the types.
LEMMA TypeNext == TypeOK /\ [Next]_vars => TypeOK'
<1> SUFFICES ASSUME TypeOK, [Next]_vars PROVE TypeOK'
  OBVIOUS
<1>1. CASE UNCHANGED vars
  BY <1>1 DEF vars, idVars, rowVars, memVars, runtimeVars, TypeOK
<1>2. CASE Next
  BY <1>2, TypeProcess, TypeOp, TypeEnvironment DEF Next
<1> QED BY <1>1, <1>2

\* Every reachable state of the node agent is well-typed, whatever the numbers
\* of processes and operations and however database calls fail.
THEOREM TypeCorrect == Spec => []TypeOK
BY TypeInit, TypeNext, PTL DEF Spec

-----------------------------------------------------------------------------
(* The operation ledger.  Most steps are of one of two shapes: a quiet one *)
(* moves tasks and touches no row, a row step writes the one row it owns.  *)

\* What may become of a task while its row stays as it is.
Harmless(q, x) ==
  \/ task'[q][x] = task[q][x]
  \/ task'[q][x] \in {"none", "ending", "reopening", "uncertain", "marked"}
  \/ /\ task'[q][x] \in Waiting \cup {"withheld"}
     /\ opState[x] = "absent" \/ task[q][x] \in Waiting \cup {"promoted"}
  \/ task'[q][x] = "sending" /\ task[q][x] = "promoted"
  \/ task'[q][x] = "failed" /\ task[q][x] = "sending"
  \/ task'[q][x] = "cancelled" /\ task[q][x] \in Senders

\* A process that ends, or has not started, holds nothing afterwards.
EmptyWhenOff ==
  \A q \in Agents, x \in Ops :
    /\ baseline'[q][x] = baseline[q][x] \/ baseline'[q][x] = 0
    /\ gate'[q] = "off" => task'[q][x] = "none" /\ baseline'[q][x] = 0

QuietStep ==
  /\ UNCHANGED <<generation, owner, myGen, rowVars, runtimeVars>>
  /\ EmptyWhenOff
  /\ \A q \in Agents, x \in Ops : Harmless(q, x)

\* The writes of a row that its owner p makes, with the place p is at.
RowChange(p, o) ==
  \/ opState[o] = "absent" /\ opState'[o] = "accepted"
  \/ opState[o] \in {"absent", "accepted"} /\ opState'[o] = "cancelled_unsent"
  \/ /\ Mine(p, o, "accepted") /\ task[p][o] = "slot"
     /\ opState'[o] = "running" /\ opGen'[o] = opGen[o] /\ task'[p][o] \in {"promoted", "doubt"}
  \/ /\ Mine(p, o, "running")
     /\ \/ task[p][o] \in {"doubt", "withheld"} /\ opState'[o] = "cancelled_unsent"
        \/ task[p][o] = "marked" /\ opState'[o] = "outcome_unknown"
        \/ task[p][o] \in {"completed", "failed"} /\ opState'[o] = task[p][o]
  \/ opState[o] = "outcome_unknown" /\ opState'[o] = "failed" /\ o \notin executing

RowStep(p, o) ==
  /\ UNCHANGED <<generation, owner, myGen, runtimeVars>>
  /\ EmptyWhenOff
  /\ \A x \in Ops : x # o => opState'[x] = opState[x] /\ opGen'[x] = opGen[x]
  /\ \A q \in Agents, x \in Ops : q # p \/ x # o => task'[q][x] = task[q][x]
  /\ Owns(p) /\ RowChange(p, o)
  /\ opState'[o] # "running" =>
       task'[p][o] \in {task[p][o], "none", "ending", "reopening", "queued", "unsent", "doubt"}

\* A quiet step keeps the ledger's invariant.
LEMMA QuietKeeps ==
  ASSUME LedgerInv, TypeOK', QuietStep
  PROVE  LedgerInv'
<1> USE DEF Owns, Mine, rowVars, runtimeVars
<1>1. OwnerIsNewest' /\ WorkWasSent' /\ DeliveredOnce' /\ UnsentNeverDelivered' /\ ExecutionAccounted'
  BY DEF LedgerInv, QuietStep, OwnerIsNewest, WorkWasSent, DeliveredOnce, UnsentNeverDelivered,
         ExecutionAccounted
<1>2. OffIsEmpty'
  BY DEF QuietStep, EmptyWhenOff, OffIsEmpty
<1>3. BaselineHolds'
  BY DEF LedgerInv, QuietStep, EmptyWhenOff, BaselineHolds
<1> SUFFICES ASSUME NEW q \in Agents, NEW x \in Ops
             PROVE  /\ (task[q][x] \in {"promoted"} \cup Senders => Owns(q) /\ Mine(q, x, "running"))'
                    /\ (task[q][x] \in {"promoted", "sending"} => delivered[x] = 0)'
                    /\ (task[q][x] \in Waiting \cup {"withheld"} /\ Mine(q, x, "running")
                          => delivered[x] = 0)'
                    /\ (task[q][x] = "completed" => delivered[x] = 1)'
                    /\ (task[q][x] \in {"completed", "failed"} /\ Mine(q, x, "running")
                          => x \notin executing)'
  BY <1>1, <1>2, <1>3 DEF LedgerInv, SenderOwnsRow, NotYetSent, OutcomeIsFinal
<1>4. Harmless(q, x)
  BY DEF QuietStep
<1>5. UNCHANGED <<generation, owner, myGen, opState, opGen, executing, delivered>>
  BY DEF QuietStep
<1> QED
  BY <1>4, <1>5 DEF LedgerInv, Harmless, SenderOwnsRow, NotYetSent, OutcomeIsFinal, WorkWasSent,
                    Senders, Waiting

\* The newest generation has one holder.
LEMMA OneOwner ==
  ASSUME LedgerInv, NEW p \in Agents, NEW q \in Agents, Owns(p), myGen[q] = myGen[p]
  PROVE  q = p
BY DEF LedgerInv, OwnerIsNewest, Owns

\* A row step keeps the ledger's invariant.
LEMMA RowKeeps ==
  ASSUME LedgerInv, TypeOK', NEW p \in Agents, NEW o \in Ops, RowStep(p, o)
  PROVE  LedgerInv'
<1> USE DEF Mine, runtimeVars
<1>1. UNCHANGED <<generation, owner, myGen, instance, executing, delivered>>
  BY DEF RowStep
<1>2. /\ Owns(p) /\ RowChange(p, o) /\ EmptyWhenOff
      /\ \A x \in Ops : x # o => opState'[x] = opState[x] /\ opGen'[x] = opGen[x]
      /\ \A q \in Agents, x \in Ops : q # p \/ x # o => task'[q][x] = task[q][x]
  BY DEF RowStep
<1>3. OwnerIsNewest' /\ WorkWasSent' /\ DeliveredOnce' /\ OffIsEmpty'
  BY <1>1, <1>2 DEF LedgerInv, OwnerIsNewest, WorkWasSent, DeliveredOnce, OffIsEmpty, EmptyWhenOff
<1>4. UnsentNeverDelivered'
  BY <1>1, <1>2 DEF LedgerInv, RowChange, UnsentNeverDelivered, NotYetSent, Waiting
<1>5. ExecutionAccounted'
  BY <1>1, <1>2 DEF LedgerInv, RowChange, ExecutionAccounted, OutcomeIsFinal, WorkWasSent,
                    NotYetSent, Waiting, UnsentNeverDelivered
<1>6. BaselineHolds'
  BY <1>1, <1>2 DEF LedgerInv, RowChange, BaselineHolds, EmptyWhenOff
<1> SUFFICES ASSUME NEW q \in Agents, NEW x \in Ops
             PROVE  /\ (task[q][x] \in {"promoted"} \cup Senders => Owns(q) /\ Mine(q, x, "running"))'
                    /\ (task[q][x] \in {"promoted", "sending"} => delivered[x] = 0)'
                    /\ (task[q][x] \in Waiting \cup {"withheld"} /\ Mine(q, x, "running")
                          => delivered[x] = 0)'
                    /\ (task[q][x] = "completed" => delivered[x] = 1)'
                    /\ (task[q][x] \in {"completed", "failed"} /\ Mine(q, x, "running")
                          => x \notin executing)'
  BY <1>3, <1>4, <1>5, <1>6 DEF LedgerInv, SenderOwnsRow, NotYetSent, OutcomeIsFinal
<1>7. CASE x # o
  BY <1>1, <1>2, <1>7 DEF LedgerInv, SenderOwnsRow, NotYetSent, OutcomeIsFinal, Owns
<1>8. CASE x = o /\ q # p
  <2>1. task'[q][o] = task[q][o]
    BY <1>2, <1>8
  <2>2. ~(Owns(q) /\ Mine(q, o, "running"))
    BY <1>2, <1>8, OneOwner DEF Owns
  <2>3. task[q][o] \notin {"promoted"} \cup Senders
    BY <2>2 DEF LedgerInv, SenderOwnsRow
  <2>4. CASE opState'[o] # "running"
    BY <1>1, <1>8, <2>1, <2>3, <2>4 DEF LedgerInv, OutcomeIsFinal, Senders
  <2>5. CASE opState'[o] = "running"
    <3>1. Mine(p, o, "accepted") /\ opGen'[o] = opGen[o]
      BY <1>2, <2>5 DEF RowChange
    <3>2. opGen'[o] # myGen[q]
      BY <1>2, <1>8, <3>1, OneOwner
    <3> QED BY <1>1, <1>8, <2>1, <2>3, <3>2 DEF LedgerInv, OutcomeIsFinal, Senders
  <2> QED BY <2>4, <2>5
<1>9. CASE x = o /\ q = p
  <2>1. CASE opState'[o] = "running"
    <3>1. /\ Mine(p, o, "accepted") /\ opGen'[o] = opGen[o]
          /\ task'[p][o] \in {"promoted", "doubt"}
      BY <1>2, <2>1 DEF RowChange
    <3>2. delivered[o] = 0
      BY <3>1 DEF LedgerInv, UnsentNeverDelivered
    <3> QED BY <1>1, <1>2, <1>9, <2>1, <3>1, <3>2 DEF Owns
  <2>2. CASE opState'[o] # "running"
    <3>1. \/ task'[p][o] = task[p][o]
          \/ task'[p][o] \in {"none", "ending", "reopening", "queued", "unsent", "doubt"}
      BY <2>2 DEF RowStep
    <3>2. task[p][o] \notin {"promoted"} \cup Senders
      BY <1>2, <2>2 DEF LedgerInv, SenderOwnsRow, RowChange, Senders
    <3> QED BY <1>1, <1>9, <2>2, <3>1, <3>2 DEF LedgerInv, OutcomeIsFinal, Senders
  <2> QED BY <2>1, <2>2
<1> QED BY <1>7, <1>8, <1>9

\* No row, task or attestation exists at first, so the invariant holds.
LEMMA LedgerInit == Init => LedgerInv
<1> SUFFICES ASSUME Init PROVE LedgerInv
  OBVIOUS
<1>1. OwnerIsNewest /\ OffIsEmpty /\ SenderOwnsRow /\ NotYetSent /\ OutcomeIsFinal
  BY DEF Init, OwnerIsNewest, OffIsEmpty, SenderOwnsRow, NotYetSent, OutcomeIsFinal, Senders, Waiting
<1>2. WorkWasSent /\ BaselineHolds /\ DeliveredOnce /\ UnsentNeverDelivered /\ ExecutionAccounted
  BY DEF Init, WorkWasSent, BaselineHolds, DeliveredOnce, UnsentNeverDelivered, ExecutionAccounted
<1> QED BY <1>1, <1>2, TypeInit DEF LedgerInv

\* What EXCEPT means for a task and a gate, place by place.
LEMMA GotoAt ==
  ASSUME TypeOK, NEW p \in Agents, NEW o \in Ops, NEW b, Goto(p, o, b)
  PROVE  /\ task'[p][o] = b
         /\ \A q \in Agents, x \in Ops : q # p \/ x # o => task'[q][x] = task[q][x]
BY DEF TypeOK, Goto

\* A gate that is set changes for its own process only.
LEMMA SetGateAt ==
  ASSUME TypeOK, NEW p \in Agents, NEW s, SetGate(p, s)
  PROVE  gate'[p] = s /\ \A q \in Agents : q # p => gate'[q] = gate[q]
BY DEF TypeOK, SetGate

\* A row that is written is the only one that changes.
LEMMA SetRowAt ==
  ASSUME TypeOK, NEW o \in Ops, NEW s, NEW g, SetRow(o, s, g)
  PROVE  /\ opState'[o] = s /\ opGen'[o] = g
         /\ \A x \in Ops : x # o => opState'[x] = opState[x] /\ opGen'[x] = opGen[x]
BY DEF TypeOK, SetRow

\* A step that only moves a gate is quiet, unless it turns one off.
LEMMA GateOnly ==
  ASSUME LedgerInv, UNCHANGED <<generation, owner, myGen, rowVars, runtimeVars, task, baseline>>,
         \A q \in Agents : gate'[q] = "off" => gate[q] = "off"
  PROVE  QuietStep
BY DEF QuietStep, EmptyWhenOff, Harmless, LedgerInv, OffIsEmpty

\* Every step of a process but an election is quiet.
LEMMA QuietProcess ==
  ASSUME LedgerInv, NEW p \in Agents, ProcessStep(p), ~Claim(p)
  PROVE  QuietStep
<1> USE DEF idVars, memVars
<1>0. TypeOK
  BY DEF LedgerInv
<1>1. CASE OpenGate(p)
  BY <1>0, <1>1, GateOnly, SetGateAt DEF OpenGate, ReopenTo
<1>2. CASE Crash(p) \/ Exit(p)
  <2>1. Forget(p) /\ UNCHANGED <<generation, owner, myGen, rowVars, runtimeVars>>
    BY <1>2 DEF Crash, Exit
  <2>2. /\ gate'[p] = "off" /\ \A x \in Ops : task'[p][x] = "none" /\ baseline'[p][x] = 0
        /\ \A q \in Agents \ {p} : gate'[q] = gate[q] /\ task'[q] = task[q] /\ baseline'[q] = baseline[q]
    BY <1>0, <2>1 DEF Forget, SetGate, TypeOK
  <2> QED BY <2>1, <2>2 DEF QuietStep, EmptyWhenOff, Harmless, LedgerInv, OffIsEmpty
<1>3. CASE StopAgent(p) \/ WatchLost(p)
  BY <1>0, <1>3, GateOnly, SetGateAt DEF StopAgent, WatchLost
<1>4. CASE Drain(p)
  BY <1>0, <1>4, GateOnly, SetGateAt DEF Drain, CloseTo, Up
<1>5. CASE Reopen(p)
  BY <1>0, <1>5, GateOnly, SetGateAt DEF Reopen, ReopenTo, Up
<1>6. CASE RecheckDrain(p)
  BY <1>0, <1>6, GateOnly, SetGateAt DEF RecheckDrain, ReopenTo
<1>7. CASE ReadHold(p) \/ ReportQuiet(p)
  BY <1>7, GateOnly DEF ReadHold, ReportQuiet
<1>8. CASE Freeze(p)
  BY <1>0, <1>8, GateOnly, SetGateAt DEF Freeze
<1>9. CASE Thaw(p)
  BY <1>0, <1>9, GateOnly, SetGateAt DEF Thaw, ReopenTo
<1>10. CASE Interrupt(p)
  <2>1. \A q \in Agents : gate'[q] = "off" => gate[q] = "off"
    BY <1>0, <1>10, SetGateAt DEF Interrupt
  <2>2. \A q \in Agents, x \in Ops :
          \/ task'[q][x] = task[q][x]
          \/ task'[q][x] = "cancelled" /\ task[q][x] \in Senders
    BY <1>0, <1>10 DEF Interrupt, TypeOK
  <2>3. UNCHANGED <<generation, owner, myGen, rowVars, runtimeVars, baseline>>
    BY <1>10 DEF Interrupt
  <2> QED
    BY <2>1, <2>2, <2>3 DEF QuietStep, EmptyWhenOff, Harmless, LedgerInv, OffIsEmpty, Senders
<1> QED
  BY <1>1, <1>2, <1>3, <1>4, <1>5, <1>6, <1>7, <1>8, <1>9, <1>10 DEF ProcessStep

\* The steps of a handler or task that write no row and reach no runtime.
QuietOp(p, o) ==
  \/ Submit(p, o) \/ SubmitLifecycle(p, o) \/ \E e \in 1..MaxEpoch : SubmitRestore(p, o, e)
  \/ GiveUp(p, o) \/ SeeIdle(p, o) \/ TakeSlot(p, o) \/ PromoteRefused(p, o)
  \/ Send(p, o) \/ RelayNotSent(p, o) \/ RelayUncertain(p, o) \/ BlockUncertain(p, o)
  \/ EndExclusive(p, o) \/ ReopenResolved(p, o) \/ ResolveDropped(p, o)

\* A step that moves one task, and perhaps its process's gate, is quiet.
LEMMA MoveOnly ==
  ASSUME LedgerInv, NEW p \in Agents, NEW o \in Ops, NEW b, Goto(p, o, b),
         UNCHANGED <<generation, owner, myGen, rowVars, runtimeVars, baseline>>,
         gate[p] # "off", Harmless(p, o),
         \A q \in Agents : gate'[q] = "off" => gate[q] = "off"
  PROVE  QuietStep
<1>1. \A q \in Agents, x \in Ops : q # p \/ x # o => task'[q][x] = task[q][x]
  BY GotoAt DEF LedgerInv
<1> QED BY <1>1 DEF QuietStep, EmptyWhenOff, Harmless, LedgerInv, OffIsEmpty

\* A process with a task or an attestation is not off.
LEMMA BusyIsOn ==
  ASSUME LedgerInv, NEW p \in Agents, NEW o \in Ops, task[p][o] # "none" \/ baseline[p][o] # 0
  PROVE  gate[p] # "off"
BY DEF LedgerInv, OffIsEmpty

\* Each step of a handler that writes no row is quiet.
LEMMA QuietOpStep ==
  ASSUME LedgerInv, NEW p \in Agents, NEW o \in Ops, QuietOp(p, o)
  PROVE  QuietStep
<1> USE DEF idVars, memVars
<1>0. TypeOK
  BY DEF LedgerInv
<1>1. CASE Submit(p, o)
  BY <1>0, <1>1, MoveOnly, GotoAt DEF Submit, Harmless, Waiting
<1>2. CASE SubmitLifecycle(p, o)
  BY <1>0, <1>2, MoveOnly, GotoAt, SetGateAt DEF SubmitLifecycle, Harmless, Waiting, CloseTo
<1>3. CASE \E e \in 1..MaxEpoch : SubmitRestore(p, o, e)
  BY <1>0, <1>3, MoveOnly, GotoAt DEF SubmitRestore, Restorable, Harmless, Waiting
<1>4. CASE GiveUp(p, o) \/ SeeIdle(p, o) \/ TakeSlot(p, o)
  <2>1. PICK b : Goto(p, o, b) /\ b \in Waiting /\ task[p][o] \in Waiting
    BY <1>4 DEF GiveUp, SeeIdle, TakeSlot, Waiting
  <2>2. Harmless(p, o)
    BY <1>0, <2>1, GotoAt DEF Harmless
  <2>3. gate[p] # "off"
    BY <2>1, BusyIsOn DEF Waiting
  <2> QED BY <1>4, <2>1, <2>2, <2>3, MoveOnly DEF GiveUp, SeeIdle, TakeSlot
<1>5. CASE PromoteRefused(p, o)
  <2>1. PICK b : Goto(p, o, b) /\ b \in {"none", "unsent"} /\ task[p][o] = "slot"
    BY <1>5 DEF PromoteRefused
  <2>2. Harmless(p, o)
    BY <1>0, <2>1, GotoAt DEF Harmless, Waiting
  <2>3. gate[p] # "off"
    BY <2>1, BusyIsOn
  <2>4. \A q \in Agents : gate'[q] = "off" => gate[q] = "off"
    BY <1>0, <1>5, SetGateAt DEF PromoteRefused
  <2> QED BY <1>5, <2>1, <2>2, <2>3, <2>4, MoveOnly DEF PromoteRefused
<1>6. CASE Send(p, o) \/ RelayNotSent(p, o) \/ RelayUncertain(p, o)
  <2>1. PICK b : /\ Goto(p, o, b)
                 /\ \/ task[p][o] = "promoted" /\ b \in {"withheld", "sending"}
                    \/ task[p][o] = "sending" /\ b = "failed"
                    \/ task[p][o] \in Senders /\ b = "uncertain"
    BY <1>6 DEF Send, RelayNotSent, RelayUncertain
  <2>2. Harmless(p, o)
    BY <1>0, <2>1, GotoAt DEF Harmless
  <2>3. gate[p] # "off"
    BY <2>1, BusyIsOn DEF Senders
  <2> QED BY <1>6, <2>1, <2>2, <2>3, MoveOnly DEF Send, RelayNotSent, RelayUncertain
<1>7. CASE BlockUncertain(p, o)
  <2>1. gate[p] # "off"
    BY <1>7, BusyIsOn DEF BlockUncertain
  <2> QED BY <1>0, <1>7, <2>1, MoveOnly, GotoAt, SetGateAt DEF BlockUncertain, Harmless, CloseTo
<1>8. CASE EndExclusive(p, o)
  <2>1. gate[p] # "off" /\ Goto(p, o, "none")
    BY <1>8, BusyIsOn DEF EndExclusive
  <2>2. gate' = gate \/ SetGate(p, gate[p]) \/ SetGate(p, ReopenTo(p, frozenAt[p], NoOp))
    BY <1>8 DEF EndExclusive
  <2>3. \A q \in Agents : gate'[q] = "off" => gate[q] = "off"
    BY <1>0, <2>1, <2>2, SetGateAt DEF ReopenTo
  <2> QED BY <1>0, <1>8, <2>1, <2>3, MoveOnly, GotoAt DEF EndExclusive, Harmless
<1>9. CASE ReopenResolved(p, o)
  <2>1. gate[p] # "off" /\ Goto(p, o, "none")
    BY <1>9, BusyIsOn DEF ReopenResolved
  <2>2. \A q \in Agents : gate'[q] = "off" => gate[q] = "off"
    BY <1>0, <1>9, <2>1, SetGateAt DEF ReopenResolved, ReopenTo
  <2> QED BY <1>0, <1>9, <2>1, <2>2, MoveOnly, GotoAt DEF ReopenResolved, Harmless
<1>10. CASE ResolveDropped(p, o)
  <2>1. \A q \in Agents, x \in Ops : baseline'[q][x] \in {baseline[q][x], 0}
    BY <1>0, <1>10 DEF ResolveDropped, TypeOK
  <2> QED BY <1>10, <2>1 DEF ResolveDropped, QuietStep, EmptyWhenOff, Harmless, LedgerInv, OffIsEmpty
<1> QED BY <1>1, <1>2, <1>3, <1>4, <1>5, <1>6, <1>7, <1>8, <1>9, <1>10 DEF QuietOp

\* The steps that may write the row of their operation.
RowOp(p, o) ==
  \/ Insert(p, o) \/ InsertFault(p, o) \/ Promote(p, o) \/ PromoteFault(p, o)
  \/ Unsent(p, o) \/ UnsentFault(p, o) \/ SettleDoubt(p, o) \/ DoubtFault(p, o)
  \/ CancelRoute(p, o) \/ Settle(p, o) \/ SettleUnacked(p, o) \/ ResolveComplete(p, o)

\* A step of one operation: no other task, row or identity, and no runtime.
Local(p, o) ==
  /\ UNCHANGED <<generation, owner, myGen, runtimeVars>>
  /\ gate[p] # "off"
  /\ \A q \in Agents : gate'[q] = "off" => gate[q] = "off"
  /\ \A q \in Agents, x \in Ops : baseline'[q][x] \in {baseline[q][x], 0}
  /\ \A x \in Ops : x # o => opState'[x] = opState[x] /\ opGen'[x] = opGen[x]
  /\ \A q \in Agents, x \in Ops : q # p \/ x # o => task'[q][x] = task[q][x]

\* A step of one handler that leaves the rows alone and is harmless is quiet.
LEMMA LocalIsQuiet ==
  ASSUME LedgerInv, NEW p \in Agents, NEW o \in Ops, Local(p, o), UNCHANGED rowVars, Harmless(p, o)
  PROVE  QuietStep
BY DEF Local, QuietStep, EmptyWhenOff, Harmless, LedgerInv, OffIsEmpty

\* A step of one handler that writes its row as its owner is a row step.
LEMMA LocalIsRow ==
  ASSUME LedgerInv, NEW p \in Agents, NEW o \in Ops, Local(p, o), Owns(p), RowChange(p, o),
         opState'[o] # "running" =>
           task'[p][o] \in {task[p][o], "none", "ending", "reopening", "queued", "unsent", "doubt"}
  PROVE  RowStep(p, o)
BY DEF Local, RowStep, EmptyWhenOff, LedgerInv, OffIsEmpty

\* cancel_accepted leaves the row alone or cancels what was never started.
LEMMA CancelRowEffect ==
  ASSUME TypeOK, NEW p \in Agents, NEW o \in Ops, CancelRow(p, o)
  PROVE  /\ \A x \in Ops : x # o => opState'[x] = opState[x] /\ opGen'[x] = opGen[x]
         /\ \/ UNCHANGED rowVars
            \/ opState[o] \in {"absent", "accepted"} /\ opState'[o] = "cancelled_unsent"
<1>1. CASE opState[o] = "absent" \/ Mine(p, o, "accepted")
  <2>1. SetRow(o, "cancelled_unsent", myGen[p])
    BY <1>1 DEF CancelRow
  <2> QED BY <1>1, <2>1, SetRowAt DEF Mine
<1>2. CASE ~(opState[o] = "absent" \/ Mine(p, o, "accepted"))
  BY <1>2 DEF CancelRow, rowVars
<1> QED BY <1>1, <1>2

\* _unsent_after_failed_promotion also takes back a promotion of its own.
LEMMA DoubtRowEffect ==
  ASSUME TypeOK, NEW p \in Agents, NEW o \in Ops, DoubtRow(p, o)
  PROVE  /\ \A x \in Ops : x # o => opState'[x] = opState[x] /\ opGen'[x] = opGen[x]
         /\ \/ UNCHANGED rowVars
            \/ opState[o] \in {"absent", "accepted"} /\ opState'[o] = "cancelled_unsent"
            \/ Mine(p, o, "running") /\ opState'[o] = "cancelled_unsent"
<1>1. CASE Mine(p, o, "running")
  <2>1. SetRow(o, "cancelled_unsent", opGen[o])
    BY <1>1 DEF DoubtRow
  <2> QED BY <1>1, <2>1, SetRowAt
<1>2. CASE ~Mine(p, o, "running")
  BY <1>2, CancelRowEffect DEF DoubtRow
<1> QED BY <1>1, <1>2

\* An outcome is committed only over the row running under the same generation.
LEMMA CommitEffect ==
  ASSUME TypeOK, NEW p \in Agents, NEW o \in Ops, CommitOutcome(p, o), task[p][o] \in Committable
  PROVE  /\ \A x \in Ops : x # o => opState'[x] = opState[x] /\ opGen'[x] = opGen[x]
         /\ \/ UNCHANGED rowVars
            \/ Mine(p, o, "running") /\ opState'[o] = OutcomeRow(task[p][o])
<1>1. CASE Mine(p, o, "running")
  BY <1>1, SetRowAt DEF CommitOutcome
<1>2. CASE ~Mine(p, o, "running")
  BY <1>2 DEF CommitOutcome, rowVars
<1> QED BY <1>1, <1>2

\* Each of these steps is quiet or a row step.
LEMMA RowOpStep ==
  ASSUME LedgerInv, NEW p \in Agents, NEW o \in Ops, RowOp(p, o)
  PROVE  QuietStep \/ RowStep(p, o)
<1> USE DEF idVars, memVars
<1>0. TypeOK
  BY DEF LedgerInv
<1> DEFINE Others == \A x \in Ops : x # o => opState'[x] = opState[x] /\ opGen'[x] = opGen[x]
<1>1. CASE Insert(p, o) \/ InsertFault(p, o)
  <2>1. \/ InsertApplies(p, o) /\ SetRow(o, "accepted", myGen[p])
        \/ UNCHANGED rowVars
    BY <1>1 DEF Insert, InsertFault
  <2>2. PICK b : Goto(p, o, b) /\ b \in {"queued", "unsent", "none", "ending"} /\ task[p][o] = "inserting"
    BY <1>1 DEF Insert, InsertFault, Leave
  <2>3. \A q \in Agents : gate'[q] = "off" => gate[q] = "off"
    BY <1>0, <1>1, SetGateAt DEF Insert, InsertFault
  <2>4. Local(p, o)
    <3>1. Others
      BY <1>0, <2>1, SetRowAt DEF rowVars
    <3> QED BY <1>0, <1>1, <2>2, <2>3, <3>1, GotoAt, BusyIsOn DEF Local, Insert, InsertFault
  <2>5. task'[p][o] = b
    BY <1>0, <2>2, GotoAt
  <2>6. CASE UNCHANGED rowVars
    BY <2>2, <2>4, <2>5, <2>6, LocalIsQuiet DEF Harmless, Waiting
  <2>7. CASE InsertApplies(p, o) /\ SetRow(o, "accepted", myGen[p])
    <3>1. Owns(p) /\ opState[o] = "absent" /\ opState'[o] = "accepted"
      BY <1>0, <2>7, SetRowAt DEF InsertApplies
    <3> QED BY <2>2, <2>4, <2>5, <3>1, LocalIsRow DEF RowChange
  <2> QED BY <2>1, <2>6, <2>7
<1>2. CASE Promote(p, o) \/ PromoteFault(p, o)
  <2>1. \/ PromoteApplies(p, o) /\ SetRow(o, "running", opGen[o])
        \/ UNCHANGED rowVars /\ PromoteFault(p, o)
    BY <1>2 DEF Promote, PromoteFault
  <2>2. PICK b : Goto(p, o, b) /\ b \in {"promoted", "doubt"} /\ task[p][o] = "slot"
                 /\ (PromoteFault(p, o) => b = "doubt")
    BY <1>2 DEF Promote, PromoteFault
  <2>3. Local(p, o)
    <3>1. Others
      BY <1>0, <2>1, SetRowAt DEF rowVars
    <3> QED BY <1>0, <1>2, <2>2, <3>1, GotoAt, BusyIsOn DEF Local, Promote, PromoteFault
  <2>4. task'[p][o] = b
    BY <1>0, <2>2, GotoAt
  <2>5. CASE UNCHANGED rowVars /\ PromoteFault(p, o)
    BY <2>2, <2>3, <2>4, <2>5, LocalIsQuiet DEF Harmless, Waiting
  <2>6. CASE PromoteApplies(p, o) /\ SetRow(o, "running", opGen[o])
    <3>1. Owns(p) /\ Mine(p, o, "accepted") /\ opState'[o] = "running" /\ opGen'[o] = opGen[o]
      BY <1>0, <2>6, SetRowAt DEF PromoteApplies, RowAdmits
    <3> QED BY <2>2, <2>3, <2>4, <3>1, LocalIsRow DEF RowChange
  <2> QED BY <2>1, <2>5, <2>6
<1>3. CASE Unsent(p, o) \/ UnsentFault(p, o) \/ CancelRoute(p, o)
  <2>1. (Owns(p) /\ CancelRow(p, o)) \/ UNCHANGED rowVars
    BY <1>3 DEF Unsent, UnsentFault, CancelRoute
  <2>2. /\ \A q \in Agents, x \in Ops : q # p \/ x # o => task'[q][x] = task[q][x]
        /\ task'[p][o] \in {task[p][o], "none", "ending"} /\ gate[p] # "off"
    BY <1>0, <1>3, GotoAt, BusyIsOn DEF Unsent, UnsentFault, CancelRoute, Leave, Up
  <2>3. \A q \in Agents : gate'[q] = "off" => gate[q] = "off"
    BY <1>0, <1>3, SetGateAt DEF Unsent, UnsentFault, CancelRoute
  <2>4. Local(p, o)
    <3>1. Others
      BY <1>0, <2>1, CancelRowEffect DEF rowVars
    <3> QED BY <1>3, <2>2, <2>3, <3>1 DEF Local, Unsent, UnsentFault, CancelRoute
  <2>5. CASE UNCHANGED rowVars
    BY <2>2, <2>4, <2>5, LocalIsQuiet DEF Harmless
  <2>6. CASE Owns(p) /\ CancelRow(p, o) /\ ~UNCHANGED rowVars
    BY <1>0, <2>2, <2>4, <2>6, CancelRowEffect, LocalIsRow DEF RowChange
  <2> QED BY <2>1, <2>5, <2>6
<1>4. CASE SettleDoubt(p, o) \/ DoubtFault(p, o)
  <2>1. (Owns(p) /\ DoubtRow(p, o)) \/ UNCHANGED rowVars
    BY <1>4 DEF SettleDoubt, DoubtFault
  <2>2. /\ \A q \in Agents, x \in Ops : q # p \/ x # o => task'[q][x] = task[q][x]
        /\ task'[p][o] \in {"none", "ending"} /\ gate[p] # "off" /\ task[p][o] = "doubt"
    BY <1>0, <1>4, GotoAt, BusyIsOn DEF SettleDoubt, DoubtFault, Leave
  <2>3. \A q \in Agents : gate'[q] = "off" => gate[q] = "off"
    BY <1>0, <1>4, SetGateAt DEF SettleDoubt, DoubtFault, CloseTo
  <2>4. Local(p, o)
    <3>1. Others
      BY <1>0, <2>1, DoubtRowEffect DEF rowVars
    <3> QED BY <1>4, <2>2, <2>3, <3>1 DEF Local, SettleDoubt, DoubtFault
  <2>5. CASE UNCHANGED rowVars
    BY <2>2, <2>4, <2>5, LocalIsQuiet DEF Harmless
  <2>6. CASE Owns(p) /\ DoubtRow(p, o) /\ ~UNCHANGED rowVars
    BY <1>0, <2>2, <2>4, <2>6, DoubtRowEffect, LocalIsRow DEF RowChange
  <2> QED BY <2>1, <2>5, <2>6
<1>5. CASE Settle(p, o) \/ SettleUnacked(p, o)
  <2>1. (Owns(p) /\ CommitOutcome(p, o)) \/ UNCHANGED rowVars
    BY <1>5 DEF Settle, SettleUnacked
  <2>2. /\ \A q \in Agents, x \in Ops : q # p \/ x # o => task'[q][x] = task[q][x]
        /\ task'[p][o] \in {task[p][o], "none", "ending"} /\ gate[p] # "off"
        /\ task[p][o] \in Committable
    BY <1>0, <1>5, GotoAt, BusyIsOn DEF Settle, SettleUnacked, Leave, Committable
  <2>3. \A q \in Agents : gate'[q] = "off" => gate[q] = "off"
    BY <1>0, <1>5, SetGateAt DEF Settle, SettleUnacked
  <2>4. Local(p, o)
    <3>1. Others
      BY <1>0, <2>1, <2>2, CommitEffect DEF rowVars
    <3> QED BY <1>5, <2>2, <2>3, <3>1 DEF Local, Settle, SettleUnacked
  <2>5. CASE UNCHANGED rowVars
    BY <2>2, <2>4, <2>5, LocalIsQuiet DEF Harmless
  <2>6. CASE Owns(p) /\ CommitOutcome(p, o) /\ ~UNCHANGED rowVars
    <3>1. Mine(p, o, "running") /\ opState'[o] = OutcomeRow(task[p][o])
      BY <1>0, <2>2, <2>6, CommitEffect
    <3>2. RowChange(p, o) /\ opState'[o] # "running"
      BY <2>2, <3>1 DEF RowChange, OutcomeRow, Committable
    <3> QED BY <2>2, <2>4, <2>6, <3>2, LocalIsRow
  <2> QED BY <2>1, <2>5, <2>6
<1>6. CASE ResolveComplete(p, o)
  <2>1. gate[p] # "off" /\ Owns(p) /\ task[p][o] = "none"
    BY <1>6, BusyIsOn DEF ResolveComplete, RestartAttested
  <2>2. \A q \in Agents, x \in Ops : baseline'[q][x] \in {baseline[q][x], 0}
    BY <1>0, <1>6 DEF ResolveComplete, TypeOK
  <2>3. CASE Mine(p, o, "outcome_unknown")
    <3>1. SetRow(o, "failed", opGen[o]) /\ Goto(p, o, "reopening")
      BY <1>6, <2>3 DEF ResolveComplete
    <3>2. Local(p, o)
      BY <1>0, <1>6, <2>1, <2>2, <3>1, SetRowAt, GotoAt DEF Local, ResolveComplete
    <3>3. o \notin executing
      BY <1>6 DEF ResolveComplete, RestartAttested, LedgerInv, BaselineHolds
    <3> QED BY <1>0, <2>1, <2>3, <3>1, <3>2, <3>3, SetRowAt, GotoAt, LocalIsRow DEF RowChange, Mine
  <2>4. CASE ~Mine(p, o, "outcome_unknown")
    <3>1. UNCHANGED <<rowVars, task>>
      BY <1>6, <2>4 DEF ResolveComplete
    <3> QED BY <1>6, <2>1, <2>2, <3>1, LocalIsQuiet DEF Local, Harmless, ResolveComplete, rowVars
  <2> QED BY <2>3, <2>4
<1> QED BY <1>1, <1>2, <1>3, <1>4, <1>5, <1>6 DEF RowOp

\* No election supersedes a process that may still send: a process of the same
\* lock domain has to be gone, and one of another kernel is refused while any
\* row is running or unknown.
LEMMA ClaimFindsNoSender ==
  ASSUME LedgerInv, NEW p \in Agents, Claim(p), NEW q \in Agents, NEW o \in Ops
  PROVE  task[q][o] \notin {"promoted"} \cup Senders
<1> SUFFICES ASSUME task[q][o] \in {"promoted"} \cup Senders PROVE FALSE
  OBVIOUS
<1>1. owner = q /\ opState[o] = "running" /\ owner # NoAgent
  BY DEF LedgerInv, SenderOwnsRow, Owns, Mine
<1>2. gate[q] # "off"
  BY BusyIsOn DEF Senders
<1>3. KernelOf[p] = KernelOf[q] /\ DomainOf[p] = DomainOf[q]
  BY <1>1 DEF Claim, ClaimAllowed
<1> QED BY <1>2, <1>3 DEF Claim, ClaimAllowed, HostLockFree

\* An election keeps the invariant: it finds no sender, so no row it makes
\* unknown or unsent still has a relay of its own.
LEMMA ClaimKeeps ==
  ASSUME LedgerInv, TypeOK', NEW p \in Agents, Claim(p)
  PROVE  LedgerInv'
<1>1. /\ generation' = generation + 1 /\ owner' = p
      /\ UNCHANGED <<instance, executing, delivered, task, baseline>>
  BY DEF Claim, memVars, runtimeVars
<1>2. /\ \A q \in Agents : q # p => myGen'[q] = myGen[q] /\ gate'[q] = gate[q]
      /\ myGen'[p] = generation + 1 /\ gate'[p] = "starting"
  BY DEF Claim, SetGate, LedgerInv, TypeOK
<1>3. \A x \in Ops : /\ opState[x] = "running" => opState'[x] = "outcome_unknown"
                     /\ opState[x] = "accepted" => opState'[x] = "cancelled_unsent"
                     /\ opState[x] \notin {"running", "accepted"} => opState'[x] = opState[x]
  BY DEF Claim, Takeover
<1>4. \A q \in Agents, x \in Ops : ~(Mine(q, x, "running"))'
  BY <1>3 DEF Mine
<1>5. OwnerIsNewest'
  <2>1. \A q \in Agents : myGen[q] \in Nat /\ generation \in Nat /\ myGen[q] <= generation
    BY DEF LedgerInv, TypeOK, OwnerIsNewest
  <2>2. \A q \in Agents : q # p => myGen'[q] <= generation' /\ myGen'[q] # generation'
    BY <1>1, <1>2, <2>1
  <2>3. myGen'[p] <= generation'
    BY <1>1, <1>2, <2>1
  <2> QED BY <1>1, <2>2, <2>3 DEF OwnerIsNewest
<1>6. OffIsEmpty' /\ WorkWasSent' /\ DeliveredOnce'
  BY <1>1, <1>2 DEF LedgerInv, OffIsEmpty, WorkWasSent, DeliveredOnce
<1>7. SenderOwnsRow'
  BY <1>1, ClaimFindsNoSender DEF SenderOwnsRow
<1>8. NotYetSent' /\ OutcomeIsFinal'
  BY <1>1, <1>4, ClaimFindsNoSender DEF LedgerInv, NotYetSent, OutcomeIsFinal, Senders
<1>9. UnsentNeverDelivered' /\ ExecutionAccounted' /\ BaselineHolds'
  <2>1. UnsentNeverDelivered'
    BY <1>1, <1>3 DEF LedgerInv, UnsentNeverDelivered
  <2>2. ExecutionAccounted'
    BY <1>1, <1>3 DEF LedgerInv, ExecutionAccounted
  <2>3. BaselineHolds'
    BY <1>1, <1>3 DEF LedgerInv, BaselineHolds
  <2> QED BY <2>1, <2>2, <2>3
<1> QED BY <1>5, <1>6, <1>7, <1>8, <1>9 DEF LedgerInv

\* The request reaches the runtime: once, for a row that is running.
LEMMA DeliverKeeps ==
  ASSUME LedgerInv, TypeOK', NEW p \in Agents, NEW o \in Ops, Deliver(p, o)
  PROVE  LedgerInv'
<1>0. TypeOK
  BY DEF LedgerInv
<1>1. /\ Owns(p) /\ Mine(p, o, "running") /\ delivered[o] = 0 /\ task[p][o] = "sending"
  BY DEF Deliver, LedgerInv, SenderOwnsRow, NotYetSent, Senders
<1>2. /\ delivered'[o] = 1 /\ \A x \in Ops : x # o => delivered'[x] = delivered[x]
      /\ executing' = executing \cup {o}
  BY <1>0, <1>1 DEF Deliver, TypeOK
<1>3. UNCHANGED <<generation, owner, myGen, gate, opState, opGen, baseline, instance>>
  BY DEF Deliver, idVars, rowVars, memVars
<1>4. /\ task'[p][o] = "sent"
      /\ \A q \in Agents, x \in Ops : q # p \/ x # o => task'[q][x] = task[q][x]
  BY <1>0, GotoAt DEF Deliver
<1>5. \A q \in Agents : q # p => ~Mine(q, o, "running") /\ task[q][o] \notin {"promoted", "sending", "completed"}
  <2> TAKE q \in Agents
  <2> HAVE q # p
  <2>1. myGen[q] # myGen[p]
    BY <1>1, OneOwner
  <2>2. ~Mine(q, o, "running")
    BY <1>1, <2>1 DEF Mine
  <2> QED BY <1>1, <2>2 DEF LedgerInv, SenderOwnsRow, OutcomeIsFinal, Senders
<1>6. OwnerIsNewest' /\ OffIsEmpty' /\ WorkWasSent' /\ DeliveredOnce'
  <2>1. OwnerIsNewest' /\ OffIsEmpty'
    BY <1>1, <1>3, <1>4, BusyIsOn DEF LedgerInv, OwnerIsNewest, OffIsEmpty
  <2>2. DeliveredOnce'
    BY <1>2 DEF LedgerInv, DeliveredOnce
  <2>3. WorkWasSent'
    BY <1>0, <1>2 DEF LedgerInv, WorkWasSent, TypeOK
  <2> QED BY <2>1, <2>2, <2>3
<1>7. SenderOwnsRow'
  BY <1>1, <1>3, <1>4 DEF LedgerInv, SenderOwnsRow, Owns, Mine
<1>8. NotYetSent'
  BY <1>2, <1>3, <1>4, <1>5 DEF LedgerInv, NotYetSent, Mine, Waiting
<1>9. OutcomeIsFinal'
  BY <1>2, <1>3, <1>4, <1>5 DEF LedgerInv, OutcomeIsFinal, Mine
<1>10. UnsentNeverDelivered' /\ ExecutionAccounted' /\ BaselineHolds'
  BY <1>1, <1>2, <1>3 DEF LedgerInv, UnsentNeverDelivered, ExecutionAccounted, BaselineHolds, Mine
<1> QED BY <1>6, <1>7, <1>8, <1>9, <1>10 DEF LedgerInv

\* The runtime's answer ends the work it answers for.
LEMMA AnswerKeeps ==
  ASSUME LedgerInv, TypeOK', NEW p \in Agents, NEW o \in Ops, RelayAnswered(p, o)
  PROVE  LedgerInv'
<1>0. TypeOK
  BY DEF LedgerInv
<1>1. /\ UNCHANGED <<generation, owner, myGen, gate, opState, opGen, baseline, instance, delivered>>
      /\ executing' = executing \ {o} /\ delivered[o] = 1 /\ task[p][o] # "none"
  BY DEF RelayAnswered, idVars, rowVars, memVars, LedgerInv, WorkWasSent
<1>2. /\ task'[p][o] \in {"completed", "failed"}
      /\ \A q \in Agents, x \in Ops : q # p \/ x # o => task'[q][x] = task[q][x]
  BY <1>0, GotoAt DEF RelayAnswered
<1>3. OwnerIsNewest' /\ OffIsEmpty' /\ WorkWasSent' /\ DeliveredOnce'
  BY <1>1, <1>2, BusyIsOn DEF LedgerInv, OwnerIsNewest, OffIsEmpty, WorkWasSent, DeliveredOnce
<1>4. SenderOwnsRow' /\ NotYetSent' /\ OutcomeIsFinal'
  BY <1>1, <1>2 DEF LedgerInv, SenderOwnsRow, NotYetSent, OutcomeIsFinal, Owns, Mine, Senders, Waiting
<1>5. UnsentNeverDelivered' /\ ExecutionAccounted' /\ BaselineHolds'
  BY <1>1 DEF LedgerInv, UnsentNeverDelivered, ExecutionAccounted, BaselineHolds
<1> QED BY <1>3, <1>4, <1>5 DEF LedgerInv

\* A resolution attests the instance that runs now.
LEMMA ResolveStartKeeps ==
  ASSUME LedgerInv, TypeOK', NEW p \in Agents, NEW o \in Ops, ResolveStart(p, o)
  PROVE  LedgerInv'
<1>0. TypeOK
  BY DEF LedgerInv
<1>1. /\ UNCHANGED <<generation, owner, myGen, opState, opGen, task, instance, executing, delivered>>
      /\ opState[o] = "outcome_unknown" /\ gate[p] # "off"
  BY DEF ResolveStart, idVars, rowVars, runtimeVars, Up
<1>2. /\ baseline'[p][o] = instance
      /\ \A q \in Agents, x \in Ops : q # p \/ x # o => baseline'[q][x] = baseline[q][x]
  BY <1>0 DEF ResolveStart, TypeOK
<1>3. \A q \in Agents : gate'[q] = "off" => gate[q] = "off"
  BY <1>0, SetGateAt DEF ResolveStart, CloseTo, Up
<1>4. OffIsEmpty' /\ BaselineHolds'
  BY <1>1, <1>2, <1>3 DEF LedgerInv, OffIsEmpty, BaselineHolds
<1> QED
  BY <1>1, <1>4
  DEF LedgerInv, OwnerIsNewest, WorkWasSent, DeliveredOnce, SenderOwnsRow, NotYetSent,
      OutcomeIsFinal, UnsentNeverDelivered, ExecutionAccounted, Owns, Mine

\* The runtime ending work, one operation or all of it, breaks nothing.
LEMMA RuntimeKeeps ==
  ASSUME LedgerInv, TypeOK', RuntimeRestarts \/ \E o \in Ops : RuntimeFinishes(o)
  PROVE  LedgerInv'
<1>1. /\ UNCHANGED <<generation, owner, myGen, gate, opState, opGen, task, baseline, delivered>>
      /\ executing' \subseteq executing /\ (executing' = {} \/ instance' = instance)
  BY DEF RuntimeRestarts, RuntimeFinishes, idVars, rowVars, memVars
<1> QED
  BY <1>1
  DEF LedgerInv, OwnerIsNewest, OffIsEmpty, WorkWasSent, DeliveredOnce, SenderOwnsRow, NotYetSent,
      OutcomeIsFinal, UnsentNeverDelivered, ExecutionAccounted, BaselineHolds, Owns, Mine

\* Every step keeps the invariant.
LEMMA LedgerNext == LedgerInv /\ [Next]_vars => LedgerInv'
<1> SUFFICES ASSUME LedgerInv, [Next]_vars PROVE LedgerInv'
  OBVIOUS
<1>1. TypeOK'
  BY TypeNext DEF LedgerInv
<1>2. CASE UNCHANGED vars
  BY <1>1, <1>2, GateOnly, QuietKeeps DEF vars, idVars, memVars
<1>3. ASSUME NEW p \in Agents, ProcessStep(p) PROVE LedgerInv'
  BY <1>1, <1>3, ClaimKeeps, QuietProcess, QuietKeeps
<1>4. ASSUME NEW p \in Agents, NEW o \in Ops, OpStep(p, o) PROVE LedgerInv'
  <2>1. \/ QuietOp(p, o) \/ RowOp(p, o)
        \/ Deliver(p, o) \/ RelayAnswered(p, o) \/ ResolveStart(p, o)
    BY <1>4 DEF OpStep, QuietOp, RowOp
  <2> QED BY <1>1, <2>1, QuietOpStep, RowOpStep, QuietKeeps, RowKeeps, DeliverKeeps, AnswerKeeps,
             ResolveStartKeeps
<1>5. CASE Environment
  <2>1. CASE SessionLost \/ CloseHold \/ OpenHold
    BY <1>1, <2>1, GateOnly, QuietKeeps DEF SessionLost, CloseHold, OpenHold, idVars, memVars
  <2> QED BY <1>1, <1>5, <2>1, RuntimeKeeps DEF Environment
<1> QED BY <1>2, <1>3, <1>4, <1>5 DEF Next

\* The inductive invariant holds of every reachable state.
THEOREM LedgerInvariant == Spec => []LedgerInv
BY LedgerInit, LedgerNext, PTL DEF Spec

\* An operation is never delivered twice, and what the ledger calls unsent was
\* never delivered: for any number of agents, crashes, takeovers and faults.
THEOREM AtMostOnce == Spec => [](DeliveredOnce /\ UnsentNeverDelivered)
<1>1. LedgerInv => DeliveredOnce /\ UnsentNeverDelivered
  BY DEF LedgerInv
<1> QED BY <1>1, LedgerInvariant, PTL

\* The ledger never calls an operation over while the runtime may be working
\* on it, and only the owner of record of a running row can be sending.
THEOREM Accounted == Spec => [](ExecutionAccounted /\ SenderOwnsRow)
<1>1. LedgerInv => ExecutionAccounted /\ SenderOwnsRow
  BY DEF LedgerInv
<1> QED BY <1>1, LedgerInvariant, PTL

-----------------------------------------------------------------------------
(* The node agent implements the ledger's contract.                        *)

\* A row step is one step of the ledger on that operation.
LEMMA RowRefines ==
  ASSUME LedgerInv, TypeOK', NEW p \in Agents, NEW o \in Ops, RowStep(p, o), opState' # opState,
         RowAdmits(p, o) \/ opState'[o] # "running"
  PROVE  Ledger!Next
<1> USE DEF Mine, Ledger!Record
<1>1. opState' = [opState EXCEPT ![o] = opState'[o]] /\ UNCHANGED <<delivered, executing>>
  BY DEF RowStep, runtimeVars, LedgerInv, TypeOK
<1>2. RowChange(p, o)
  BY DEF RowStep
<1>3. CASE opState[o] = "absent" /\ opState'[o] = "accepted"
  BY <1>1, <1>3 DEF Ledger!Next, Ledger!Accept
<1>4. CASE opState[o] \in {"absent", "accepted"} /\ opState'[o] = "cancelled_unsent"
  BY <1>1, <1>4 DEF Ledger!Next, Ledger!Cancel, Ledger!Open, LedgerInv, UnsentNeverDelivered
<1>5. CASE Mine(p, o, "accepted") /\ opState'[o] = "running"
  BY <1>1, <1>5 DEF Ledger!Next, Ledger!Start, RowAdmits, AnyUnknown
<1>6. CASE Mine(p, o, "running") /\ task[p][o] \in {"doubt", "withheld"} /\ opState'[o] = "cancelled_unsent"
  BY <1>1, <1>6 DEF Ledger!Next, Ledger!Cancel, Ledger!Open, LedgerInv, NotYetSent, Waiting
<1>7. CASE Mine(p, o, "running") /\ opState'[o] = "outcome_unknown"
  BY <1>1, <1>7 DEF Ledger!Next, Ledger!LoseTrack
<1>8. CASE Mine(p, o, "running") /\ task[p][o] \in {"completed", "failed"} /\ opState'[o] = task[p][o]
  BY <1>1, <1>8 DEF Ledger!Next, Ledger!Complete, Ledger!Fail, LedgerInv, OutcomeIsFinal
<1>9. CASE opState[o] = "outcome_unknown" /\ opState'[o] = "failed" /\ o \notin executing
  BY <1>1, <1>9 DEF Ledger!Next, Ledger!Fail
<1> QED BY <1>2, <1>3, <1>4, <1>5, <1>6, <1>7, <1>8, <1>9 DEF RowChange

\* A row becomes running only when nothing on the node is unknown.
LEMMA RunningWasAdmitted ==
  ASSUME LedgerInv, NEW p \in Agents, NEW o \in Ops, RowOp(p, o), opState' # opState
  PROVE  RowAdmits(p, o) \/ opState'[o] # "running"
<1>0. TypeOK
  BY DEF LedgerInv
<1>1. CASE Promote(p, o) \/ PromoteFault(p, o)
  BY <1>1 DEF Promote, PromoteFault, PromoteApplies, rowVars
<1>2. CASE Insert(p, o) \/ InsertFault(p, o)
  BY <1>0, <1>2, SetRowAt DEF Insert, InsertFault, rowVars
<1>3. CASE Unsent(p, o) \/ UnsentFault(p, o) \/ CancelRoute(p, o)
  BY <1>0, <1>3, CancelRowEffect DEF Unsent, UnsentFault, CancelRoute, rowVars
<1>4. CASE SettleDoubt(p, o) \/ DoubtFault(p, o)
  BY <1>0, <1>4, DoubtRowEffect DEF SettleDoubt, DoubtFault, rowVars
<1>5. CASE Settle(p, o) \/ SettleUnacked(p, o)
  <2>1. CommitOutcome(p, o) /\ task[p][o] \in Committable
    BY <1>5 DEF Settle, SettleUnacked, rowVars
  <2> QED BY <1>0, <2>1, CommitEffect DEF OutcomeRow, Committable, rowVars
<1>6. CASE ResolveComplete(p, o)
  BY <1>0, <1>6, SetRowAt DEF ResolveComplete, rowVars
<1> QED BY <1>1, <1>2, <1>3, <1>4, <1>5, <1>6 DEF RowOp

\* Every step changes rows and deliveries as the ledger allows, or not at all.
LEMMA RefinesNext == LedgerInv /\ [Next]_vars => [Ledger!Next]_(Ledger!vars)
<1> SUFFICES ASSUME LedgerInv, [Next]_vars,
                    ~UNCHANGED <<opState, delivered, executing>>
             PROVE  Ledger!Next
  BY DEF Ledger!vars
<1>1. TypeOK'
  BY TypeNext DEF LedgerInv
<1>2. ~QuietStep
  BY DEF QuietStep, rowVars, runtimeVars
<1>3. ASSUME NEW p \in Agents, ProcessStep(p) PROVE Ledger!Next
  <2>1. Claim(p)
    BY <1>2, <1>3, QuietProcess
  <2>2. opState' = [o \in Ops |-> IF opState[o] = "accepted" THEN "cancelled_unsent"
                                  ELSE IF opState[o] = "running" THEN "outcome_unknown"
                                  ELSE opState[o]]
    BY <2>1 DEF Claim, Takeover
  <2> QED BY <2>1, <2>2 DEF Claim, runtimeVars, Ledger!Next, Ledger!ChangeHands
<1>4. ASSUME NEW p \in Agents, NEW o \in Ops, OpStep(p, o) PROVE Ledger!Next
  <2>1. \/ QuietOp(p, o) \/ RowOp(p, o)
        \/ Deliver(p, o) \/ RelayAnswered(p, o) \/ ResolveStart(p, o)
    BY <1>4 DEF OpStep, QuietOp, RowOp
  <2>2. CASE RowOp(p, o)
    <3>1. RowStep(p, o)
      BY <1>2, <2>2, RowOpStep
    <3>2. opState' # opState
      BY <3>1 DEF RowStep, runtimeVars
    <3> QED BY <1>1, <2>2, <3>1, <3>2, RunningWasAdmitted, RowRefines
  <2>3. CASE Deliver(p, o)
    <3>1. opState[o] = "running" /\ delivered[o] = 0
      BY <2>3 DEF Deliver, LedgerInv, SenderOwnsRow, NotYetSent, Senders, Mine
    <3>2. /\ delivered' = [delivered EXCEPT ![o] = 1]
          /\ executing' = executing \cup {o} /\ UNCHANGED opState
      BY <2>3, <3>1 DEF Deliver, rowVars, LedgerInv, TypeOK
    <3> QED BY <3>1, <3>2 DEF Ledger!Next, Ledger!Reach
  <2>4. CASE RelayAnswered(p, o)
    <3>1. executing' = executing \ {o} /\ UNCHANGED <<opState, delivered>>
      BY <2>4 DEF RelayAnswered, rowVars
    <3>2. {o} \in SUBSET Ops /\ {o} # {}
      OBVIOUS
    <3> QED BY <3>1, <3>2 DEF Ledger!Next, Ledger!StopWork
  <2>5. ~ResolveStart(p, o)
    BY DEF ResolveStart, rowVars, runtimeVars
  <2> QED BY <1>2, <2>1, <2>2, <2>3, <2>4, <2>5, QuietOpStep
<1>5. CASE Environment
  <2>1. CASE RuntimeRestarts
    <3>1. executing' = executing \ Ops /\ UNCHANGED <<opState, delivered>>
      BY <2>1 DEF RuntimeRestarts, rowVars, LedgerInv, TypeOK
    <3>2. Ops # {}
      BY <2>1 DEF RuntimeRestarts, rowVars, LedgerInv, TypeOK
    <3> QED BY <3>1, <3>2 DEF Ledger!Next, Ledger!StopWork
  <2>2. ASSUME NEW o \in Ops, RuntimeFinishes(o) PROVE Ledger!Next
    <3>1. executing' = executing \ {o} /\ UNCHANGED <<opState, delivered>>
      BY <2>2 DEF RuntimeFinishes, rowVars
    <3>2. {o} \in SUBSET Ops /\ {o} # {}
      OBVIOUS
    <3> QED BY <3>1, <3>2 DEF Ledger!Next, Ledger!StopWork
  <2>3. ~(SessionLost \/ CloseHold \/ OpenHold)
    BY DEF SessionLost, CloseHold, OpenHold, rowVars, runtimeVars
  <2> QED BY <1>5, <2>1, <2>2, <2>3 DEF Environment
<1>6. ~UNCHANGED vars
  BY DEF vars, rowVars, runtimeVars
<1> QED BY <1>3, <1>4, <1>5, <1>6 DEF Next

\* The initial states are initial states of the ledger.
LEMMA RefinesInit == Init => Ledger!Init
BY DEF Init, Ledger!Init

\* NodeAgent implements OperationLedger: whatever its processes, elections,
\* faults and crashes do, rows and deliveries move only as the ledger allows.
THEOREM Refinement == Spec => ImplementsLedger
<1>1. Spec => []LedgerInv
  BY LedgerInvariant
<1> QED BY <1>1, RefinesInit, RefinesNext, PTL DEF Spec, ImplementsLedger, Ledger!Spec

-----------------------------------------------------------------------------
(* The gate: an owner that serves knows of no unknown, a lifecycle         *)
(* operation has the node to itself, one summary is outstanding, a node    *)
(* reported quiet stays quiet for its hold, and nothing is promoted beside *)
(* an orphan.  All of it rests on the ledger's invariant.                  *)

-----------------------------------------------------------------------------
(* How tasks move: the few steps by which one enters a part of its life.   *)

MayWrite == {"promoted"} \cup Senders
Busy(s) == s \notin {"none", "reopening"}
Submits(p, o) ==
  Submit(p, o) \/ SubmitLifecycle(p, o) \/ \E e \in 1..MaxEpoch : SubmitRestore(p, o, e)

\* A task of process q for operation x is where it was, or entered by the step
\* named for that part: a submission, the idle wait, a promotion, a block.
Moves(q, x) ==
  /\ Busy(task'[q][x]) => Busy(task[q][x]) \/ Submits(q, x)
  /\ task'[q][x] \in {"idle", "slot"} =>
       task[q][x] \in {"idle", "slot"} \/ SeeIdle(q, x) \/ x \notin ExclusiveOps
  /\ task'[q][x] \in Tasks => task[q][x] \in Tasks \/ Promote(q, x)
  /\ task'[q][x] \in MayWrite => task[q][x] \in MayWrite \/ Promote(q, x)
  /\ task'[q][x] = "marked" => task[q][x] = "marked" \/ BlockUncertain(q, x)

\* A step that moves one task within what its place allows moves all as named.
LEMMA MoveOne ==
  ASSUME TypeOK, NEW p \in Agents, NEW o \in Ops, NEW b, Goto(p, o, b),
         Moves(p, o)
  PROVE  \A q \in Agents, x \in Ops : Moves(q, x)
<1>1. \A q \in Agents, x \in Ops : q # p \/ x # o => task'[q][x] = task[q][x]
  BY GotoAt
<1> SUFFICES ASSUME NEW q \in Agents, NEW x \in Ops, q # p \/ x # o PROVE Moves(q, x)
  OBVIOUS
<1>2. task'[q][x] = task[q][x]
  BY <1>1
<1> QED BY <1>2 DEF Moves, Busy

\* Leaving tasks alone moves them as named.
LEMMA MoveNone ==
  ASSUME UNCHANGED task
  PROVE  \A q \in Agents, x \in Ops : Moves(q, x)
BY DEF Moves, Busy

\* Steps of a process cancel relays or forget everything.
LEMMA ProcessMoves ==
  ASSUME TypeOK, NEW p \in Agents, ProcessStep(p)
  PROVE  \A q \in Agents, x \in Ops : Moves(q, x)
<1>1. CASE Crash(p) \/ Exit(p)
  <2>1. task' = [task EXCEPT ![p] = [x \in Ops |-> "none"]]
    BY <1>1 DEF Crash, Exit, Forget
  <2>2. \A q \in Agents, x \in Ops : task'[q][x] = task[q][x] \/ task'[q][x] = "none"
    BY <2>1 DEF TypeOK
  <2> QED BY <2>2 DEF Moves, Busy, Tasks, Senders, Settling, MayWrite
<1>2. CASE Interrupt(p)
  <2>1. task' = [task EXCEPT ![p] = [x \in Ops |-> IF task[p][x] \in Senders THEN "cancelled"
                                                                         ELSE task[p][x]]]
    BY <1>2 DEF Interrupt
  <2>2. \A q \in Agents, x \in Ops :
          task'[q][x] = task[q][x] \/ (task'[q][x] = "cancelled" /\ task[q][x] \in Senders)
    BY <2>1 DEF TypeOK
  <2> QED BY <2>2 DEF Moves, Busy, Tasks, Senders, Settling, MayWrite
<1>3. CASE UNCHANGED task
  BY <1>3, MoveNone
<1>4. UNCHANGED task \/ Crash(p) \/ Exit(p) \/ Interrupt(p)
  BY DEF ProcessStep, Claim, OpenGate, StopAgent, WatchLost, Drain, Reopen, RecheckDrain,
         ReadHold, Freeze, Thaw, ReportQuiet
<1> QED BY <1>1, <1>2, <1>3, <1>4

\* Steps of a handler or task move that one as named.
LEMMA OpMoves ==
  ASSUME TypeOK, NEW p \in Agents, NEW o \in Ops, OpStep(p, o)
  PROVE  \A q \in Agents, x \in Ops : Moves(q, x)
<1> USE DEF Busy, Tasks, Senders, Settling, MayWrite
<1>1. CASE Submits(p, o)
  <2>1. Goto(p, o, "inserting")
    BY <1>1 DEF Submits, Submit, SubmitLifecycle, SubmitRestore
  <2> QED BY <1>1, <2>1, GotoAt, MoveOne DEF Moves
<1>2. CASE Insert(p, o) \/ InsertFault(p, o)
  <2>1. PICK b : Goto(p, o, b) /\ b \in {"queued", "unsent", "none", "ending"}
    BY <1>2 DEF Insert, InsertFault, Leave
  <2>2. task[p][o] = "inserting"
    BY <1>2 DEF Insert, InsertFault
  <2> QED BY <2>1, <2>2, GotoAt, MoveOne DEF Moves
<1>3. CASE GiveUp(p, o) \/ PromoteRefused(p, o) \/ PromoteFault(p, o)
  <2>1. PICK b : Goto(p, o, b) /\ b \in {"unsent", "none", "doubt"}
    BY <1>3 DEF GiveUp, PromoteRefused, PromoteFault
  <2>2. task[p][o] \in {"queued", "idle", "slot"}
    BY <1>3 DEF GiveUp, PromoteRefused, PromoteFault
  <2> QED BY <2>1, <2>2, GotoAt, MoveOne DEF Moves
<1>4. CASE SeeIdle(p, o) \/ TakeSlot(p, o)
  <2>1. PICK b : Goto(p, o, b) /\ b \in {"idle", "slot"}
    BY <1>4 DEF SeeIdle, TakeSlot
  <2>2. /\ task[p][o] \in {"queued", "idle"}
        /\ task[p][o] = "idle" \/ SeeIdle(p, o) \/ o \notin ExclusiveOps
    BY <1>4 DEF SeeIdle, TakeSlot
  <2> QED BY <2>1, <2>2, GotoAt, MoveOne DEF Moves
<1>5. CASE Promote(p, o)
  <2>1. Goto(p, o, "promoted") /\ task[p][o] = "slot"
    BY <1>5 DEF Promote
  <2> QED BY <1>5, <2>1, GotoAt, MoveOne DEF Moves
<1>6. CASE Unsent(p, o) \/ UnsentFault(p, o) \/ SettleDoubt(p, o) \/ DoubtFault(p, o) \/ Settle(p, o)
  <2>1. PICK b : Goto(p, o, b) /\ b \in {"none", "ending"}
    BY <1>6 DEF Unsent, UnsentFault, SettleDoubt, DoubtFault, Settle, Leave
  <2>2. Busy(task[p][o])
    BY <1>6 DEF Unsent, UnsentFault, SettleDoubt, DoubtFault, Settle, Committable
  <2> QED BY <2>1, <2>2, GotoAt, MoveOne DEF Moves
<1>7. CASE Send(p, o) \/ Deliver(p, o) \/ RelayNotSent(p, o) \/ RelayAnswered(p, o) \/ RelayUncertain(p, o)
  <2>1. PICK b : Goto(p, o, b) /\ b \in {"withheld", "sending", "sent", "failed", "completed", "uncertain"}
    BY <1>7 DEF Send, Deliver, RelayNotSent, RelayAnswered, RelayUncertain
  <2>2. task[p][o] \in MayWrite
    BY <1>7 DEF Send, Deliver, RelayNotSent, RelayAnswered, RelayUncertain
  <2> QED BY <2>1, <2>2, GotoAt, MoveOne DEF Moves
<1>8. CASE BlockUncertain(p, o)
  <2>1. Goto(p, o, "marked") /\ task[p][o] = "uncertain"
    BY <1>8 DEF BlockUncertain
  <2> QED BY <1>8, <2>1, GotoAt, MoveOne DEF Moves
<1>9. CASE EndExclusive(p, o) \/ ReopenResolved(p, o)
  <2>1. Goto(p, o, "none")
    BY <1>9 DEF EndExclusive, ReopenResolved
  <2> QED BY <2>1, GotoAt, MoveOne DEF Moves
<1>10. CASE ResolveComplete(p, o)
  <2>1. UNCHANGED task \/ Goto(p, o, "reopening")
    BY <1>10 DEF ResolveComplete
  <2> QED BY <2>1, GotoAt, MoveOne, MoveNone DEF Moves
<1>11. CASE CancelRoute(p, o) \/ SettleUnacked(p, o) \/ ResolveStart(p, o) \/ ResolveDropped(p, o)
  BY <1>11, MoveNone DEF CancelRoute, SettleUnacked, ResolveStart, ResolveDropped
<1> QED
  BY <1>1, <1>2, <1>3, <1>4, <1>5, <1>6, <1>7, <1>8, <1>9, <1>10, <1>11 DEF OpStep, Submits

\* Every step moves every task as named.
LEMMA NextMoves ==
  ASSUME TypeOK, [Next]_vars
  PROVE  \A q \in Agents, x \in Ops : Moves(q, x)
<1>1. CASE UNCHANGED vars
  BY <1>1, MoveNone DEF vars
<1>2. CASE Environment
  BY <1>2, MoveNone DEF Environment, SessionLost, CloseHold, OpenHold, RuntimeRestarts, RuntimeFinishes
<1> QED BY <1>1, <1>2, ProcessMoves, OpMoves DEF Next

-----------------------------------------------------------------------------
(* How a gate moves.                                                       *)

\* What a step of an operation may do to its process's gate, other than the
\* refused promotion that freezes it.
GateMoves(p) ==
  \/ UNCHANGED gate
  \/ SetGate(p, gate[p]) \/ SetGate(p, "lost")
  \/ SetGate(p, CloseTo(p, "draining")) \/ SetGate(p, CloseTo(p, "blocked"))
  \/ /\ UNCHANGED <<opState, uncommitted>>
     /\ \/ SetGate(p, ReopenTo(p, frozenAt[p], exclusive[p]))
        \/ exclusive'[p] = NoOp /\ SetGate(p, ReopenTo(p, frozenAt[p], NoOp))

\* A step of an operation leaves the hold as it was, and moves its gate so.
LEMMA OpGate ==
  ASSUME TypeOK, NEW p \in Agents, NEW o \in Ops, OpStep(p, o)
  PROVE  /\ UNCHANGED <<idVars, tick, quietAt>>
         /\ PromoteRefused(p, o) \/ (UNCHANGED frozenAt /\ GateMoves(p))
<1> USE DEF memVars, rowVars
<1>1. CASE \/ Submit(p, o) \/ SubmitLifecycle(p, o) \/ (\E e \in 1..MaxEpoch : SubmitRestore(p, o, e))
           \/ Insert(p, o) \/ InsertFault(p, o)
  BY <1>1 DEF Submit, SubmitLifecycle, SubmitRestore, Insert, InsertFault, GateMoves
<1>2. CASE GiveUp(p, o) \/ SeeIdle(p, o) \/ TakeSlot(p, o) \/ Promote(p, o) \/ PromoteFault(p, o)
  BY <1>2 DEF GiveUp, SeeIdle, TakeSlot, Promote, PromoteFault, GateMoves
<1>3. CASE PromoteRefused(p, o)
  BY <1>3 DEF PromoteRefused
<1>4. CASE Unsent(p, o) \/ UnsentFault(p, o) \/ SettleDoubt(p, o) \/ DoubtFault(p, o) \/ CancelRoute(p, o)
  BY <1>4 DEF Unsent, UnsentFault, SettleDoubt, DoubtFault, CancelRoute, GateMoves
<1>5. CASE Send(p, o) \/ Deliver(p, o) \/ RelayNotSent(p, o) \/ RelayAnswered(p, o) \/ RelayUncertain(p, o)
  BY <1>5 DEF Send, Deliver, RelayNotSent, RelayAnswered, RelayUncertain, GateMoves
<1>6. CASE BlockUncertain(p, o) \/ Settle(p, o) \/ SettleUnacked(p, o)
  BY <1>6 DEF BlockUncertain, Settle, SettleUnacked, GateMoves
<1>7. CASE EndExclusive(p, o)
  <2>1. UNCHANGED <<idVars, tick, quietAt, frozenAt, opState, uncommitted>>
    BY <1>7 DEF EndExclusive
  <2>2. CASE exclusive[p] = o
    <3>1. exclusive'[p] = NoOp
      BY <1>7, <2>2 DEF EndExclusive, TypeOK
    <3>2. \/ UNCHANGED gate \/ SetGate(p, gate[p]) \/ SetGate(p, ReopenTo(p, frozenAt[p], NoOp))
      BY <1>7, <2>2 DEF EndExclusive
    <3> QED BY <2>1, <3>1, <3>2 DEF GateMoves
  <2>3. CASE exclusive[p] # o
    BY <1>7, <2>1, <2>3 DEF EndExclusive, GateMoves
  <2> QED BY <2>2, <2>3
<1>8. CASE ResolveStart(p, o) \/ ResolveDropped(p, o) \/ ResolveComplete(p, o)
  BY <1>8 DEF ResolveStart, ResolveDropped, ResolveComplete, GateMoves
<1>9. CASE ReopenResolved(p, o)
  BY <1>9 DEF ReopenResolved, GateMoves
<1> QED
  BY <1>1, <1>2, <1>3, <1>4, <1>5, <1>6, <1>7, <1>8, <1>9 DEF OpStep

-----------------------------------------------------------------------------
(* The hold and the freeze.                                                *)

\* Holds are numbered upwards; nothing is frozen or quiet for a later one.
LEMMA HoldNext ==
  ASSUME LedgerInv, HoldNumbered, [Next]_vars
  PROVE  HoldNumbered'
<1> USE DEF idVars, memVars
<1>0. TypeOK /\ epoch \in Nat /\ quietAt \in Nat
      /\ \A q \in Agents : frozenAt[q] \in Nat /\ tick[q] \in Nat \cup {NoTick}
  BY DEF LedgerInv, TypeOK
<1> DEFINE Held == UNCHANGED <<closed, epoch, quietAt, frozenAt, tick>>
<1>1. CASE Held
  BY <1>1 DEF HoldNumbered
<1>2. ASSUME NEW p \in Agents, ProcessStep(p), ~Held PROVE HoldNumbered'
  <2>1. CASE OpenGate(p)
    BY <1>0, <2>1 DEF OpenGate, HoldNumbered, TypeOK
  <2>2. CASE Crash(p) \/ Exit(p)
    <3>1. /\ frozenAt' = [frozenAt EXCEPT ![p] = 0] /\ tick' = [tick EXCEPT ![p] = NoTick]
          /\ UNCHANGED <<closed, epoch, quietAt>>
      BY <2>2 DEF Crash, Exit, Forget
    <3> QED BY <1>0, <3>1 DEF HoldNumbered, TypeOK, NoTick
  <2>3. CASE ReadHold(p)
    <3>1. UNCHANGED <<epoch, quietAt, frozenAt, closed>>
      BY <2>3 DEF ReadHold
    <3>2. \/ closed /\ tick' = [tick EXCEPT ![p] = epoch]
          \/ tick' = [tick EXCEPT ![p] = 0]
      BY <2>3 DEF ReadHold, ThawTick
    <3>3. \A q \in Agents : tick'[q] = tick[q] \/ tick'[q] \in {0, epoch}
      BY <1>0, <3>2 DEF TypeOK
    <3> QED BY <1>0, <3>1, <3>3 DEF HoldNumbered, NoTick
  <2>4. CASE Freeze(p)
    BY <1>0, <2>4 DEF Freeze, HoldNumbered, TypeOK, NoTick
  <2>5. CASE Thaw(p)
    BY <1>0, <2>5 DEF Thaw, HoldNumbered, TypeOK, NoTick
  <2>6. CASE Interrupt(p)
    <3>1. /\ UNCHANGED frozenAt \/ frozenAt' = [frozenAt EXCEPT ![p] = epoch]
          /\ UNCHANGED <<closed, epoch, quietAt, tick>>
      BY <2>6 DEF Interrupt
    <3> QED BY <1>0, <3>1 DEF HoldNumbered, TypeOK
  <2>7. CASE ReportQuiet(p)
    BY <1>0, <2>7 DEF ReportQuiet, HoldNumbered
  <2>8. CASE Claim(p) \/ StopAgent(p) \/ WatchLost(p) \/ Drain(p) \/ Reopen(p) \/ RecheckDrain(p)
    BY <1>2, <2>8 DEF Claim, StopAgent, WatchLost, Drain, Reopen, RecheckDrain
  <2> QED BY <1>2, <2>1, <2>2, <2>3, <2>4, <2>5, <2>6, <2>7, <2>8 DEF ProcessStep
<1>3. ASSUME NEW p \in Agents, NEW o \in Ops, OpStep(p, o), ~Held PROVE HoldNumbered'
  <2>1. PromoteRefused(p, o)
    BY <1>0, <1>3, OpGate
  <2> QED BY <1>0, <2>1 DEF PromoteRefused, HoldNumbered, TypeOK
<1>4. CASE Environment
  <2>1. CASE CloseHold \/ OpenHold
    <3>1. /\ UNCHANGED <<frozenAt, tick, quietAt>>
          /\ epoch' = epoch \/ epoch' = epoch + 1
          /\ closed' => epoch' = epoch + 1
      BY <2>1 DEF CloseHold, OpenHold
    <3> QED BY <1>0, <3>1 DEF HoldNumbered, NoTick
  <2> QED BY <1>1, <1>4, <2>1 DEF Environment, SessionLost, RuntimeRestarts, RuntimeFinishes
<1>5. CASE UNCHANGED vars
  BY <1>1, <1>5 DEF vars
<1> QED BY <1>1, <1>2, <1>3, <1>4, <1>5 DEF Next

\* After a step a frozen gate of q is shut, and one that serves has nothing
\* uncommitted, no exclusive operation, and either served before or was opened
\* when nothing was unknown.
Sound(q) ==
  /\ frozenAt'[q] # 0 => gate'[q] \in {"maintenance", "lost"}
  /\ gate'[q] \in {"off", "starting", "serving"} => exclusive'[q] = NoOp
  /\ gate'[q] = "serving" =>
       /\ uncommitted'[q] = {}
       /\ gate[q] = "serving" \/ (~AnyUnknown /\ UNCHANGED opState)

SoundBefore == HoldNumbered /\ FrozenIsShut /\ UncommittedIsShut /\ ExclusiveHasNode

Kept(q) ==
  /\ gate'[q] = gate[q] /\ frozenAt'[q] = frozenAt[q]
  /\ exclusive'[q] = exclusive[q] /\ uncommitted'[q] = uncommitted[q]

\* What a step leaves as it was stays sound.
LEMMA KeptSound ==
  ASSUME SoundBefore, NEW q \in Agents, Kept(q)
  PROVE  Sound(q)
BY DEF SoundBefore, FrozenIsShut, UncommittedIsShut, ExclusiveHasNode, Kept, Sound

\* A process's step changes its own gate only.
LEMMA ProcessKeeps ==
  ASSUME TypeOK, NEW p \in Agents, ProcessStep(p), NEW q \in Agents, q # p
  PROVE  Kept(q)
<1> USE DEF memVars, Kept, SetGate, TypeOK
<1>1. CASE Claim(p) \/ OpenGate(p) \/ StopAgent(p) \/ WatchLost(p)
  BY <1>1 DEF Claim, OpenGate, StopAgent, WatchLost
<1>2. CASE Crash(p) \/ Exit(p)
  <2>1. Forget(p)
    BY <1>2 DEF Crash, Exit
  <2> QED BY <2>1 DEF Forget
<1>3. CASE Drain(p) \/ Reopen(p) \/ RecheckDrain(p) \/ ReadHold(p) \/ ReportQuiet(p)
  BY <1>3 DEF Drain, Reopen, RecheckDrain, ReadHold, ReportQuiet
<1>4. CASE Freeze(p)
  BY <1>4 DEF Freeze
<1>5. CASE Thaw(p)
  BY <1>5 DEF Thaw
<1>6. CASE Interrupt(p)
  <2>1. /\ UNCHANGED <<exclusive, uncommitted>>
        /\ \/ UNCHANGED <<gate, frozenAt>>
           \/ SetGate(p, "maintenance") /\ frozenAt' = [frozenAt EXCEPT ![p] = epoch]
    BY <1>6 DEF Interrupt
  <2> QED BY <2>1
<1> QED BY <1>1, <1>2, <1>3, <1>4, <1>5, <1>6 DEF ProcessStep

\* So does the step of an operation.
LEMMA OpKeeps ==
  ASSUME TypeOK, NEW p \in Agents, NEW o \in Ops, OpStep(p, o), NEW q \in Agents, q # p
  PROVE  Kept(q)
<1>1. gate'[q] = gate[q] /\ frozenAt'[q] = frozenAt[q]
  <2>1. CASE PromoteRefused(p, o)
    BY <2>1, SetGateAt DEF PromoteRefused, TypeOK
  <2> QED BY <2>1, OpGate, SetGateAt DEF GateMoves
<1>2. exclusive'[q] = exclusive[q]
  <2>1. CASE SubmitLifecycle(p, o) \/ (\E e \in 1..MaxEpoch : SubmitRestore(p, o, e)) \/ EndExclusive(p, o)
    BY <2>1 DEF SubmitLifecycle, SubmitRestore, EndExclusive, TypeOK
  <2>2. CASE QuietOp(p, o)
    BY <2>1, <2>2
    DEF QuietOp, Submit, GiveUp, SeeIdle, TakeSlot, PromoteRefused, Send, RelayNotSent,
        RelayUncertain, BlockUncertain, ReopenResolved, ResolveDropped, memVars
  <2>3. CASE RowOp(p, o)
    BY <2>3
    DEF RowOp, Insert, InsertFault, Promote, PromoteFault, Unsent, UnsentFault, SettleDoubt,
        DoubtFault, CancelRoute, Settle, SettleUnacked, ResolveComplete, memVars
  <2>4. CASE Deliver(p, o) \/ RelayAnswered(p, o) \/ ResolveStart(p, o)
    BY <2>4 DEF Deliver, RelayAnswered, ResolveStart, memVars
  <2> QED BY <2>2, <2>3, <2>4 DEF OpStep, QuietOp, RowOp
<1>3. uncommitted'[q] = uncommitted[q]
  <2>1. CASE BlockUncertain(p, o) \/ DoubtFault(p, o) \/ Settle(p, o)
    BY <2>1 DEF BlockUncertain, DoubtFault, Settle, TypeOK
  <2>2. CASE QuietOp(p, o)
    BY <2>1, <2>2
    DEF QuietOp, Submit, SubmitLifecycle, SubmitRestore, GiveUp, SeeIdle, TakeSlot,
        PromoteRefused, Send, RelayNotSent, RelayUncertain, EndExclusive, ReopenResolved,
        ResolveDropped
  <2>3. CASE RowOp(p, o)
    BY <2>1, <2>3
    DEF RowOp, Insert, InsertFault, Promote, PromoteFault, Unsent, UnsentFault, SettleDoubt,
        CancelRoute, SettleUnacked, ResolveComplete
  <2>4. CASE Deliver(p, o) \/ RelayAnswered(p, o) \/ ResolveStart(p, o)
    BY <2>4 DEF Deliver, RelayAnswered, ResolveStart
  <2> QED BY <2>2, <2>3, <2>4 DEF OpStep, QuietOp, RowOp
<1> QED BY <1>1, <1>2, <1>3 DEF Kept

\* A process's own gate is sound after its step.
LEMMA ProcessSound ==
  ASSUME TypeOK, SoundBefore, NEW p \in Agents, ProcessStep(p)
  PROVE  Sound(p)
<1> USE DEF memVars, rowVars
<1>0. /\ frozenAt[p] # 0 => gate[p] \in {"maintenance", "lost"}
      /\ gate[p] \in {"off", "starting", "serving"} => exclusive[p] = NoOp
      /\ gate[p] = "serving" => uncommitted[p] = {}
      /\ closed => epoch # 0
  BY DEF SoundBefore, HoldNumbered, FrozenIsShut, UncommittedIsShut, ExclusiveHasNode
<1>1. CASE Claim(p)
  BY <1>0, <1>1, SetGateAt DEF Claim, Sound
<1>2. CASE OpenGate(p)
  <2>0. PICK seen \in IF DbFaults THEN {closed, FALSE} ELSE {closed} :
          /\ frozenAt' = [frozenAt EXCEPT ![p] = IF seen THEN epoch ELSE 0]
          /\ SetGate(p, ReopenTo(p, IF seen THEN epoch ELSE 0, NoOp))
    BY <1>2, Zenon DEF OpenGate
  <2>a. (seen = closed \/ seen = FALSE)
    BY <2>0
  <2>1. (IF seen THEN epoch ELSE 0) = 0 \/ ((IF seen THEN epoch ELSE 0) = epoch /\ closed)
    <3>1. CASE seen
      BY <3>1, <2>a
    <3>2. CASE ~seen
      BY <3>2
    <3> QED BY <3>1, <3>2
  <2> DEFINE f == IF seen THEN epoch ELSE 0
  <2>2. frozenAt'[p] = f /\ gate'[p] = ReopenTo(p, f, NoOp)
    BY <2>0, SetGateAt DEF TypeOK
  <2>b. f = 0 \/ (f = epoch /\ closed)
    BY <2>1
  <2> HIDE DEF f
  <2>3. UNCHANGED <<exclusive, uncommitted, opState>> /\ gate[p] = "starting"
    BY <1>2 DEF OpenGate
  <2> QED BY <1>0, <2>b, <2>2, <2>3 DEF ReopenTo, Sound
<1>3. CASE Crash(p) \/ Exit(p)
  <2>1. Forget(p)
    BY <1>3 DEF Crash, Exit
  <2>2. gate'[p] = "off" /\ frozenAt'[p] = 0 /\ exclusive'[p] = NoOp
    BY <2>1, SetGateAt DEF Forget, TypeOK
  <2> QED BY <2>2 DEF Sound
<1>4. CASE StopAgent(p) \/ WatchLost(p)
  BY <1>4, SetGateAt DEF StopAgent, WatchLost, Sound
<1>5. CASE Drain(p)
  BY <1>0, <1>5, SetGateAt DEF Drain, CloseTo, Up, Sound
<1>6. CASE Reopen(p)
  <2>1. CASE UNCHANGED gate
    BY <1>0, <1>6, <2>1 DEF Reopen, Sound
  <2>2. CASE SetGate(p, ReopenTo(p, frozenAt[p], exclusive[p]))
    BY <1>0, <1>6, <2>2, SetGateAt DEF Reopen, ReopenTo, Up, Sound
  <2> QED BY <1>6, <2>1, <2>2 DEF Reopen
<1>7. CASE RecheckDrain(p)
  BY <1>0, <1>7, SetGateAt DEF RecheckDrain, ReopenTo, Sound
<1>8. CASE ReadHold(p) \/ ReportQuiet(p)
  BY <1>0, <1>8 DEF ReadHold, ReportQuiet, Sound
<1>9. CASE Freeze(p)
  <2>1. CASE gate[p] = "lost"
    BY <1>9, <2>1 DEF Freeze, Sound
  <2>2. CASE gate[p] # "lost"
    BY <1>9, <2>2, SetGateAt DEF Freeze, Sound
  <2> QED BY <2>1, <2>2
<1>10. CASE Thaw(p)
  <2>1. frozenAt'[p] = 0 /\ UNCHANGED <<exclusive, uncommitted, opState>>
    BY <1>10 DEF Thaw, TypeOK
  <2>2. \/ SetGate(p, "lost")
        \/ SetGate(p, gate[p])
        \/ SetGate(p, "draining")
        \/ exclusive[p] = NoOp /\ SetGate(p, ReopenTo(p, 0, NoOp)) /\ gate[p] # "lost"
    BY <1>10 DEF Thaw
  <2> QED BY <1>0, <2>1, <2>2, SetGateAt DEF ReopenTo, Sound
<1>11. CASE Interrupt(p)
  <2>1. /\ UNCHANGED <<exclusive, uncommitted, opState>>
        /\ \/ UNCHANGED <<gate, frozenAt>>
           \/ SetGate(p, "maintenance")
    BY <1>11 DEF Interrupt
  <2> QED BY <1>0, <2>1, SetGateAt DEF Sound
<1> QED
  BY <1>1, <1>2, <1>3, <1>4, <1>5, <1>6, <1>7, <1>8, <1>9, <1>10, <1>11 DEF ProcessStep

\* And so it is after the step of one of its operations.
LEMMA OpSound ==
  ASSUME LedgerInv, SoundBefore, NEW p \in Agents, NEW o \in Ops, OpStep(p, o)
  PROVE  Sound(p)
<1> USE DEF memVars, rowVars
<1>t. TypeOK
  BY DEF LedgerInv
<1>0. /\ frozenAt[p] # 0 => gate[p] \in {"maintenance", "lost"}
      /\ gate[p] \in {"off", "starting", "serving"} => exclusive[p] = NoOp
      /\ gate[p] = "serving" => uncommitted[p] = {}
  BY DEF SoundBefore, FrozenIsShut, UncommittedIsShut, ExclusiveHasNode
<1>1. CASE SubmitLifecycle(p, o)
  BY <1>t, <1>0, <1>1, SetGateAt DEF SubmitLifecycle, CloseTo, Sound
<1>2. CASE \E e \in 1..MaxEpoch : SubmitRestore(p, o, e)
  BY <1>0, <1>2 DEF SubmitRestore, Restorable, Sound
<1>3. CASE PromoteRefused(p, o)
  <2>1. \/ gate'[p] = "lost" \/ gate'[p] = "maintenance"
        \/ gate'[p] = gate[p] /\ frozenAt'[p] = frozenAt[p]
    BY <1>t, <1>3, SetGateAt DEF PromoteRefused, TypeOK
  <2> QED BY <1>0, <1>3, <2>1 DEF PromoteRefused, Sound
<1>4. CASE BlockUncertain(p, o) \/ DoubtFault(p, o)
  <2>1. gate'[p] = CloseTo(p, "blocked") /\ UNCHANGED <<frozenAt, exclusive>>
    BY <1>t, <1>4, SetGateAt DEF BlockUncertain, DoubtFault
  <2> QED BY <1>0, <2>1 DEF CloseTo, Sound
<1>5. CASE Settle(p, o)
  <2>1. /\ gate'[p] = gate[p] \/ gate'[p] = "lost"
        /\ uncommitted[p] = {} => uncommitted'[p] = {}
        /\ UNCHANGED <<frozenAt, exclusive>>
    BY <1>t, <1>5, SetGateAt DEF Settle, TypeOK
  <2> QED BY <1>0, <2>1 DEF Sound
<1>6. CASE EndExclusive(p, o)
  <2>1. GateMoves(p) /\ UNCHANGED <<frozenAt, uncommitted, opState>>
    BY <1>t, <1>6, OpGate DEF EndExclusive, PromoteRefused
  <2>2. exclusive'[p] = NoOp \/ (UNCHANGED <<exclusive, gate>>)
    BY <1>t, <1>6 DEF EndExclusive, TypeOK
  <2>3. gate[p] # "off"
    BY <1>6, BusyIsOn DEF EndExclusive
  <2> QED BY <1>t, <1>0, <2>1, <2>2, <2>3, SetGateAt DEF GateMoves, CloseTo, ReopenTo, Sound
<1>7. CASE ResolveStart(p, o)
  BY <1>t, <1>0, <1>7, SetGateAt DEF ResolveStart, CloseTo, Sound
<1>8. CASE ReopenResolved(p, o)
  <2>1. UNCHANGED <<frozenAt, uncommitted, opState, exclusive>>
    BY <1>8 DEF ReopenResolved
  <2>2. CASE UNCHANGED gate
    BY <1>0, <2>1, <2>2 DEF Sound
  <2>3. CASE SetGate(p, ReopenTo(p, frozenAt[p], exclusive[p]))
    BY <1>t, <1>0, <2>1, <2>3, SetGateAt DEF ReopenTo, Sound
  <2> QED BY <1>8, <2>2, <2>3 DEF ReopenResolved
<1>9. CASE Insert(p, o) \/ Unsent(p, o) \/ CancelRoute(p, o)
  <2>1. /\ gate'[p] = gate[p] \/ gate'[p] = "lost"
        /\ UNCHANGED <<frozenAt, exclusive, uncommitted>>
    BY <1>t, <1>9, SetGateAt DEF Insert, Unsent, CancelRoute
  <2> QED BY <1>0, <2>1 DEF Sound
<1>10. CASE \/ Submit(p, o) \/ InsertFault(p, o) \/ GiveUp(p, o) \/ SeeIdle(p, o) \/ TakeSlot(p, o)
            \/ Promote(p, o) \/ PromoteFault(p, o) \/ UnsentFault(p, o) \/ SettleDoubt(p, o)
            \/ Send(p, o) \/ Deliver(p, o) \/ RelayNotSent(p, o) \/ RelayAnswered(p, o)
            \/ RelayUncertain(p, o) \/ SettleUnacked(p, o) \/ ResolveDropped(p, o)
            \/ ResolveComplete(p, o)
  <2>1. Kept(p)
    BY <1>10
    DEF Submit, InsertFault, GiveUp, SeeIdle, TakeSlot, Promote, PromoteFault, UnsentFault,
        SettleDoubt, Send, Deliver, RelayNotSent, RelayAnswered, RelayUncertain, SettleUnacked,
        ResolveDropped, ResolveComplete, Kept
  <2> QED BY <2>1, KeptSound
<1> QED
  BY <1>1, <1>2, <1>3, <1>4, <1>5, <1>6, <1>7, <1>8, <1>9, <1>10 DEF OpStep

\* Every step leaves every gate sound.
LEMMA NextSound ==
  ASSUME LedgerInv, SoundBefore, [Next]_vars, NEW q \in Agents
  PROVE  Sound(q)
<1>1. CASE UNCHANGED vars
  BY <1>1, KeptSound DEF vars, memVars, Kept
<1>2. CASE Environment
  BY <1>2, KeptSound
  DEF Environment, SessionLost, CloseHold, OpenHold, RuntimeRestarts, RuntimeFinishes, memVars, Kept
<1>3. ASSUME NEW p \in Agents, ProcessStep(p) PROVE Sound(q)
  BY <1>3, ProcessSound, ProcessKeeps, KeptSound DEF LedgerInv
<1>4. ASSUME NEW p \in Agents, NEW o \in Ops, OpStep(p, o) PROVE Sound(q)
  BY <1>4, OpSound, OpKeeps, KeptSound DEF LedgerInv
<1> QED BY <1>1, <1>2, <1>3, <1>4 DEF Next

\* A frozen gate stays shut, and what is unknown keeps a gate from serving.
LEMMA FrozenNext ==
  ASSUME LedgerInv, SoundBefore, [Next]_vars
  PROVE  FrozenIsShut'
BY NextSound DEF Sound, FrozenIsShut

\* Only its own settlement or the end of the process forgets an unknown.
LEMMA UncommittedGrows ==
  ASSUME TypeOK, [Next]_vars, NEW q \in Agents, NEW x \in Ops, x \in uncommitted[q]
  PROVE  x \in uncommitted'[q] \/ task'[q][x] # "marked"
<1>1. CASE UNCHANGED vars \/ Environment
  BY <1>1
  DEF vars, Environment, SessionLost, CloseHold, OpenHold, RuntimeRestarts, RuntimeFinishes
<1>2. ASSUME NEW p \in Agents, ProcessStep(p) PROVE x \in uncommitted'[q] \/ task'[q][x] # "marked"
  <2>1. CASE Crash(p) \/ Exit(p)
    <3>1. /\ task' = [task EXCEPT ![p] = [y \in Ops |-> "none"]]
          /\ uncommitted' = [uncommitted EXCEPT ![p] = {}]
      BY <2>1 DEF Crash, Exit, Forget
    <3> QED BY <3>1 DEF TypeOK
  <2>2. UNCHANGED uncommitted \/ Crash(p) \/ Exit(p)
    BY <1>2
    DEF ProcessStep, Claim, OpenGate, StopAgent, WatchLost, Drain, Reopen, RecheckDrain,
        ReadHold, Freeze, Thaw, Interrupt, ReportQuiet
  <2> QED BY <2>1, <2>2
<1>3. ASSUME NEW p \in Agents, NEW o \in Ops, OpStep(p, o)
      PROVE  x \in uncommitted'[q] \/ task'[q][x] # "marked"
  <2>1. CASE q # p
    BY <1>3, <2>1, OpKeeps DEF Kept
  <2>2. CASE BlockUncertain(p, o) \/ DoubtFault(p, o)
    <3>1. uncommitted' = [uncommitted EXCEPT ![p] = @ \cup {o}]
      BY <2>2 DEF BlockUncertain, DoubtFault
    <3> QED BY <3>1 DEF TypeOK
  <2>3. CASE q = p /\ Settle(p, o)
    <3>1. x # o => x \in uncommitted'[q]
      BY <2>3 DEF Settle, TypeOK
    <3>2. task'[p][o] \in {"none", "ending"}
      BY <2>3, GotoAt DEF Settle, Leave
    <3> QED BY <2>3, <3>1, <3>2
  <2>4. \/ UNCHANGED uncommitted
        \/ BlockUncertain(p, o) \/ DoubtFault(p, o) \/ Settle(p, o)
    <3>1. CASE QuietOp(p, o)
      BY <3>1
      DEF QuietOp, Submit, SubmitLifecycle, SubmitRestore, GiveUp, SeeIdle, TakeSlot,
          PromoteRefused, Send, RelayNotSent, RelayUncertain, EndExclusive, ReopenResolved,
          ResolveDropped
    <3>2. CASE RowOp(p, o)
      BY <3>2
      DEF RowOp, Insert, InsertFault, Promote, PromoteFault, Unsent, UnsentFault, SettleDoubt,
          CancelRoute, SettleUnacked, ResolveComplete
    <3>3. CASE Deliver(p, o) \/ RelayAnswered(p, o) \/ ResolveStart(p, o)
      BY <3>3 DEF Deliver, RelayAnswered, ResolveStart
    <3> QED BY <1>3, <3>1, <3>2, <3>3 DEF OpStep, QuietOp, RowOp
  <2> QED BY <2>1, <2>2, <2>3, <2>4
<1> QED BY <1>1, <1>2, <1>3 DEF Next

\* What is marked is remembered as uncommitted, and a gate that serves has none.
LEMMA UncommittedNext ==
  ASSUME LedgerInv, SoundBefore, [Next]_vars
  PROVE  UncommittedIsShut'
<1>0. TypeOK
  BY DEF LedgerInv
<1>1. \A q \in Agents : gate'[q] = "serving" => uncommitted'[q] = {}
  BY NextSound DEF Sound
<1>2. ASSUME NEW q \in Agents, NEW x \in Ops, task'[q][x] = "marked"
      PROVE  x \in uncommitted'[q]
  <2>1. task[q][x] = "marked" \/ BlockUncertain(q, x)
    BY <1>0, <1>2, NextMoves DEF Moves
  <2>2. CASE task[q][x] = "marked"
    <3>1. x \in uncommitted[q]
      BY <2>2 DEF SoundBefore, UncommittedIsShut
    <3> QED BY <1>0, <1>2, <3>1, UncommittedGrows
  <2>3. CASE BlockUncertain(q, x)
    BY <1>0, <2>3 DEF BlockUncertain, TypeOK
  <2> QED BY <2>1, <2>2, <2>3
<1> QED BY <1>1, <1>2 DEF UncommittedIsShut

-----------------------------------------------------------------------------
(* An exclusive operation has the node to itself.                          *)

\* While an operation is exclusive, it stays so until it gives the node back.
LEMMA ExclusiveStays ==
  ASSUME LedgerInv, SoundBefore, [Next]_vars, NEW q \in Agents, NEW x \in ExclusiveOps,
         Busy(task[q][x]), Busy(task'[q][x])
  PROVE  exclusive'[q] = x
<1>0. TypeOK /\ x \in Ops
  BY DEF LedgerInv, ExclusiveOps
<1>a. exclusive[q] = x /\ x # NoOp
  BY <1>0 DEF SoundBefore, ExclusiveHasNode, Busy
<1>1. CASE UNCHANGED vars \/ Environment
  BY <1>a, <1>1
  DEF vars, memVars, Environment, SessionLost, CloseHold, OpenHold, RuntimeRestarts, RuntimeFinishes
<1>2. ASSUME NEW p \in Agents, ProcessStep(p) PROVE exclusive'[q] = x
  <2>1. CASE Crash(p) \/ Exit(p)
    <3>1. /\ task' = [task EXCEPT ![p] = [y \in Ops |-> "none"]]
          /\ exclusive' = [exclusive EXCEPT ![p] = NoOp]
      BY <2>1 DEF Crash, Exit, Forget
    <3>2. q # p
      BY <1>0, <3>1 DEF TypeOK, Busy
    <3> QED BY <1>0, <1>a, <3>1, <3>2 DEF TypeOK
  <2>2. UNCHANGED exclusive \/ Crash(p) \/ Exit(p)
    BY <1>2
    DEF ProcessStep, Claim, OpenGate, StopAgent, WatchLost, Drain, Reopen, RecheckDrain,
        ReadHold, Freeze, Thaw, Interrupt, ReportQuiet, memVars
  <2> QED BY <1>a, <2>1, <2>2
<1>3. ASSUME NEW p \in Agents, NEW o \in Ops, OpStep(p, o) PROVE exclusive'[q] = x
  <2>1. CASE q # p
    BY <1>0, <1>3, <1>a, <2>1, OpKeeps DEF Kept
  <2>2. CASE q = p /\ SubmitLifecycle(p, o)
    BY <1>a, <2>2 DEF SubmitLifecycle, SoundBefore, ExclusiveHasNode
  <2>3. CASE q = p /\ \E e \in 1..MaxEpoch : SubmitRestore(p, o, e)
    BY <1>a, <2>3 DEF SubmitRestore, Restorable
  <2>4. CASE q = p /\ EndExclusive(p, o)
    <3>1. task'[p][o] = "none"
      BY <1>0, <2>4, GotoAt DEF EndExclusive
    <3>2. exclusive[p] # o
      BY <1>a, <2>4, <3>1 DEF Busy
    <3> QED BY <1>a, <2>4, <3>2 DEF EndExclusive
  <2>5. \/ UNCHANGED exclusive
        \/ SubmitLifecycle(p, o) \/ (\E e \in 1..MaxEpoch : SubmitRestore(p, o, e)) \/ EndExclusive(p, o)
    <3>1. CASE QuietOp(p, o)
      BY <3>1
      DEF QuietOp, Submit, GiveUp, SeeIdle, TakeSlot, PromoteRefused, Send, RelayNotSent,
          RelayUncertain, BlockUncertain, ReopenResolved, ResolveDropped, memVars
    <3>2. CASE RowOp(p, o)
      BY <3>2
      DEF RowOp, Insert, InsertFault, Promote, PromoteFault, Unsent, UnsentFault, SettleDoubt,
          DoubtFault, CancelRoute, Settle, SettleUnacked, ResolveComplete, memVars
    <3>3. CASE Deliver(p, o) \/ RelayAnswered(p, o) \/ ResolveStart(p, o)
      BY <3>3 DEF Deliver, RelayAnswered, ResolveStart, memVars
    <3> QED BY <1>3, <3>1, <3>2, <3>3 DEF OpStep, QuietOp, RowOp
  <2> QED BY <1>a, <2>1, <2>2, <2>3, <2>4, <2>5
<1> QED BY <1>1, <1>2, <1>3 DEF Next

\* A promotion finds no other operation exclusive.
LEMMA PromotedAlone ==
  ASSUME LedgerInv, SoundBefore, NEW p \in Agents, NEW y \in Ops, Promote(p, y),
         NEW x \in ExclusiveOps, Busy(task[p][x])
  PROVE  y = x
<1>0. x \in Ops
  BY DEF ExclusiveOps
<1>1. exclusive[p] = x /\ x # NoOp
  BY <1>0 DEF SoundBefore, ExclusiveHasNode, Busy
<1>2. CASE y \in ExclusiveOps
  BY <1>1, <1>2 DEF Promote, SoundBefore, ExclusiveHasNode
<1>3. CASE y \notin ExclusiveOps
  BY <1>1, <1>3
  DEF Promote, PromoteApplies, GateAdmits, SoundBefore, ExclusiveHasNode, ExclusiveOps
<1> QED BY <1>2, <1>3

\* Every step keeps the node with the operation that has it.
LEMMA ExclusiveNext ==
  ASSUME LedgerInv, SoundBefore, [Next]_vars
  PROVE  ExclusiveHasNode'
<1>0. TypeOK
  BY DEF LedgerInv
<1>m. \A q \in Agents, x \in Ops : Moves(q, x)
  BY <1>0, NextMoves
<1>1. \A q \in Agents : gate'[q] \in {"off", "starting", "serving"} => exclusive'[q] = NoOp
  BY NextSound DEF Sound
<1>2. ASSUME NEW q \in Agents, NEW x \in ExclusiveOps, Busy(task'[q][x])
      PROVE  exclusive'[q] = x
  <2>0. x \in Ops
    BY DEF ExclusiveOps
  <2>1. CASE Busy(task[q][x])
    BY <1>2, <2>1, ExclusiveStays
  <2>2. CASE Submits(q, x)
    <3>1. exclusive' = [exclusive EXCEPT ![q] = x]
      BY <2>2 DEF Submits, Submit, SubmitLifecycle, SubmitRestore
    <3> QED BY <1>0, <3>1 DEF TypeOK
  <2> QED BY <1>2, <1>m, <2>0, <2>1, <2>2 DEF Moves
<1>3. ASSUME NEW q \in Agents, NEW x \in ExclusiveOps, task'[q][x] \in {"idle", "slot"} \cup Tasks
      PROVE  Admitted(q)' \subseteq {x}
  <2>0. x \in Ops
    BY DEF ExclusiveOps
  <2>1. \A y \in Ops : task'[q][y] \in Tasks => task[q][y] \in Tasks \/ Promote(q, y)
    BY <1>m DEF Moves
  <2>2. CASE task[q][x] \in {"idle", "slot"} \cup Tasks
    <3>1. Admitted(q) \subseteq {x}
      BY <2>2 DEF SoundBefore, ExclusiveHasNode
    <3>2. Busy(task[q][x])
      BY <2>2 DEF Busy, Tasks, Senders, Settling
    <3>3. \A y \in Ops : Promote(q, y) => y = x
      BY <3>2, PromotedAlone
    <3> QED BY <2>1, <3>1, <3>3 DEF Admitted
  <2>3. CASE SeeIdle(q, x)
    <3>1. \A y \in Ops : task[q][y] \notin Tasks
      BY <2>3 DEF SeeIdle, Admitted
    <3>2. task'[q][x] = "idle" /\ \A y \in Ops : y # x => task'[q][y] = task[q][y]
      BY <1>0, <2>0, <2>3, GotoAt DEF SeeIdle
    <3> QED BY <3>1, <3>2 DEF Admitted
  <2>4. CASE Promote(q, x)
    <3>1. task[q][x] = "slot"
      BY <2>4 DEF Promote
    <3> QED BY <2>2, <3>1
  <2> QED BY <1>3, <1>m, <2>0, <2>2, <2>3, <2>4 DEF Moves
<1> QED BY <1>1, <1>2, <1>3 DEF ExclusiveHasNode, Busy

-----------------------------------------------------------------------------
(* The rows.                                                               *)

OpenRow == {"accepted", "running", "outcome_unknown"}

\* How the row of operation o changes in a step of process p, if it does: an
\* insert that found no other summary, or a later state under its generation.
OpensRow(p, o) ==
  opState'[o] \in OpenRow =>
    \/ opState'[o] = opState[o] /\ opGen'[o] = opGen[o]
    \/ /\ Owns(p) /\ opState[o] = "absent" /\ ~SummaryBusy(o)
       /\ opState'[o] = "accepted" /\ opGen'[o] = myGen[p]
    \/ /\ Mine(p, o, "accepted") /\ PromoteApplies(p, o) /\ task[p][o] = "slot"
       /\ task'[p][o] # "slot" /\ opState'[o] = "running" /\ opGen'[o] = opGen[o]
    \/ /\ Owns(p) /\ Mine(p, o, "running") /\ task[p][o] = "marked"
       /\ opState'[o] = "outcome_unknown" /\ opGen'[o] = opGen[o]

\* Every step that writes a row opens it so.
LEMMA RowOpens ==
  ASSUME LedgerInv, NEW p \in Agents, NEW o \in Ops, OpStep(p, o)
  PROVE  /\ OpensRow(p, o)
         /\ \A x \in Ops : x # o => opState'[x] = opState[x] /\ opGen'[x] = opGen[x]
<1>0. TypeOK
  BY DEF LedgerInv
<1> DEFINE Others == \A x \in Ops : x # o => opState'[x] = opState[x] /\ opGen'[x] = opGen[x]
<1>1. CASE UNCHANGED rowVars
  BY <1>1 DEF rowVars, OpensRow
<1>2. CASE Insert(p, o) \/ InsertFault(p, o)
  <2>1. \/ InsertApplies(p, o) /\ SetRow(o, "accepted", myGen[p])
        \/ UNCHANGED rowVars
    BY <1>2 DEF Insert, InsertFault
  <2> QED BY <1>0, <1>1, <2>1, SetRowAt DEF InsertApplies, OpensRow
<1>3. CASE Promote(p, o) \/ PromoteFault(p, o)
  <2>1. \/ PromoteApplies(p, o) /\ SetRow(o, "running", opGen[o])
        \/ UNCHANGED rowVars
    BY <1>3 DEF Promote, PromoteFault
  <2>2. task[p][o] = "slot" /\ task'[p][o] # "slot"
    BY <1>0, <1>3, GotoAt DEF Promote, PromoteFault
  <2> QED BY <1>0, <1>1, <2>1, <2>2, SetRowAt DEF PromoteApplies, RowAdmits, OpensRow
<1>4. CASE Unsent(p, o) \/ UnsentFault(p, o) \/ CancelRoute(p, o)
  <2>1. CancelRow(p, o) \/ UNCHANGED rowVars
    BY <1>4 DEF Unsent, UnsentFault, CancelRoute
  <2> QED BY <1>0, <1>1, <2>1, CancelRowEffect DEF OpensRow, OpenRow
<1>5. CASE SettleDoubt(p, o) \/ DoubtFault(p, o)
  <2>1. DoubtRow(p, o) \/ UNCHANGED rowVars
    BY <1>5 DEF SettleDoubt, DoubtFault
  <2> QED BY <1>0, <1>1, <2>1, DoubtRowEffect DEF OpensRow, OpenRow
<1>6. CASE Settle(p, o) \/ SettleUnacked(p, o)
  <2>1. (Owns(p) /\ CommitOutcome(p, o)) \/ UNCHANGED rowVars
    BY <1>6 DEF Settle, SettleUnacked
  <2>2. task[p][o] \in Committable
    BY <1>6 DEF Settle, SettleUnacked
  <2>3. CASE Owns(p) /\ Mine(p, o, "running") /\ SetRow(o, OutcomeRow(task[p][o]), opGen[o])
    BY <1>0, <2>2, <2>3, SetRowAt DEF OpensRow, OpenRow, OutcomeRow, Committable
  <2> QED BY <1>1, <2>1, <2>3 DEF CommitOutcome
<1>7. CASE ResolveComplete(p, o)
  <2>1. SetRow(o, "failed", opGen[o]) \/ UNCHANGED rowVars
    BY <1>7 DEF ResolveComplete
  <2> QED BY <1>0, <1>1, <2>1, SetRowAt DEF OpensRow, OpenRow
<1>8. UNCHANGED rowVars \/ RowOp(p, o)
  BY DEF OpStep, RowOp, Submit, SubmitLifecycle, SubmitRestore, GiveUp, SeeIdle, TakeSlot,
         PromoteRefused, Send, Deliver, RelayNotSent, RelayAnswered, RelayUncertain,
         BlockUncertain, EndExclusive, ResolveStart, ResolveDropped, ReopenResolved
<1> QED BY <1>1, <1>2, <1>3, <1>4, <1>5, <1>6, <1>7, <1>8 DEF RowOp

\* Steps that are neither an election nor an operation's leave the rows alone,
\* and only an election changes who owns the node.
LEMMA OtherRows ==
  ASSUME [Next]_vars, \A p \in Agents : ~Claim(p)
  PROVE  /\ UNCHANGED <<generation, owner, myGen>>
         /\ UNCHANGED rowVars \/ \E p \in Agents, o \in Ops : OpStep(p, o)
<1> USE DEF idVars, rowVars
<1>1. CASE UNCHANGED vars \/ Environment
  BY <1>1
  DEF vars, Environment, SessionLost, CloseHold, OpenHold, RuntimeRestarts, RuntimeFinishes
<1>2. ASSUME NEW p \in Agents, ProcessStep(p)
      PROVE  UNCHANGED <<generation, owner, myGen, rowVars>>
  BY <1>2
  DEF ProcessStep, OpenGate, Crash, Exit, StopAgent, WatchLost, Drain, Reopen, RecheckDrain,
      ReadHold, Freeze, Thaw, Interrupt, ReportQuiet
<1>3. ASSUME NEW p \in Agents, NEW o \in Ops, OpStep(p, o)
      PROVE  UNCHANGED <<generation, owner, myGen>>
  <2>1. CASE QuietOp(p, o)
    BY <2>1
    DEF QuietOp, Submit, SubmitLifecycle, SubmitRestore, GiveUp, SeeIdle, TakeSlot,
        PromoteRefused, Send, RelayNotSent, RelayUncertain, BlockUncertain, EndExclusive,
        ReopenResolved, ResolveDropped
  <2>2. CASE RowOp(p, o)
    BY <2>2
    DEF RowOp, Insert, InsertFault, Promote, PromoteFault, Unsent, UnsentFault, SettleDoubt,
        DoubtFault, CancelRoute, Settle, SettleUnacked, ResolveComplete
  <2>3. CASE Deliver(p, o) \/ RelayAnswered(p, o) \/ ResolveStart(p, o)
    BY <2>3 DEF Deliver, RelayAnswered, ResolveStart
  <2> QED BY <1>3, <2>1, <2>2, <2>3 DEF OpStep, QuietOp, RowOp
<1> QED BY <1>1, <1>2, <1>3 DEF Next

\* A serving owner goes on knowing everything: the only row that becomes unknown
\* under it is one it had marked, and for that it closed its gate.
LEMMA ServingNext ==
  ASSUME LedgerInv, SoundBefore, ServingMeansKnown, [Next]_vars
  PROVE  ServingMeansKnown'
<1> SUFFICES ASSUME NEW q \in Agents, gate'[q] = "serving", Owns(q)'
             PROVE  uncommitted'[q] = {} /\ ~AnyUnknown'
  BY DEF ServingMeansKnown
<1>0. TypeOK
  BY DEF LedgerInv
<1>1. /\ uncommitted'[q] = {}
      /\ gate[q] = "serving" \/ (~AnyUnknown /\ UNCHANGED opState)
  BY NextSound DEF Sound
<1>2. CASE ~AnyUnknown /\ UNCHANGED opState
  BY <1>1, <1>2 DEF AnyUnknown
<1>3. CASE gate[q] = "serving"
  <2>1. \A p \in Agents : ~Claim(p)
    <3> SUFFICES ASSUME NEW p \in Agents, Claim(p) PROVE FALSE
      OBVIOUS
    <3>1. owner' = p /\ gate'[p] = "starting"
      BY <1>0, SetGateAt DEF Claim
    <3> QED BY <3>1 DEF Owns
  <2>2. UNCHANGED <<generation, owner, myGen>>
    BY <2>1, OtherRows
  <2>3. Owns(q)
    BY <2>2 DEF Owns
  <2>4. ~AnyUnknown /\ uncommitted[q] = {}
    BY <1>3, <2>3 DEF ServingMeansKnown
  <2>5. CASE UNCHANGED rowVars
    BY <1>1, <2>4, <2>5 DEF AnyUnknown, rowVars
  <2>6. ASSUME NEW p \in Agents, NEW o \in Ops, OpStep(p, o), opState'[o] = "outcome_unknown"
        PROVE  FALSE
    <3>1. Owns(p) /\ task[p][o] = "marked"
      BY <2>4, <2>6, RowOpens DEF OpensRow, OpenRow, AnyUnknown
    <3>2. p = q
      BY <2>3, <3>1 DEF Owns
    <3> QED BY <2>4, <3>1, <3>2 DEF SoundBefore, UncommittedIsShut
  <2>7. ASSUME NEW p \in Agents, NEW o \in Ops, OpStep(p, o) PROVE ~AnyUnknown'
    BY <2>4, <2>6, <2>7, RowOpens DEF AnyUnknown
  <2> QED BY <1>1, <2>1, <2>5, <2>7, OtherRows
<1> QED BY <1>1, <1>2, <1>3

\* A second summary is not accepted while one is open.
LEMMA SummaryNext ==
  ASSUME LedgerInv, SummarySingle, [Next]_vars
  PROVE  SummarySingle'
<1>0. \A x \in SummaryOps : x \in Ops
  OBVIOUS
<1>1. CASE UNCHANGED rowVars
  BY <1>1 DEF SummarySingle, rowVars
<1>2. ASSUME NEW p \in Agents, Claim(p) PROVE SummarySingle'
  <2>1. \A x \in Ops : opState'[x] \in OpenRow => opState[x] \in OpenRow
    BY <1>2 DEF Claim, Takeover, OpenRow
  <2> QED BY <1>0, <2>1 DEF SummarySingle, OpenRow
<1>3. ASSUME NEW p \in Agents, NEW o \in Ops, OpStep(p, o) PROVE SummarySingle'
  <2>1. \A x \in Ops : x # o => opState'[x] = opState[x]
    BY <1>3, RowOpens
  <2>2. CASE opState'[o] \in OpenRow => opState[o] \in OpenRow
    BY <1>0, <2>1, <2>2 DEF SummarySingle, OpenRow
  <2>3. CASE opState'[o] \in OpenRow /\ opState[o] \notin OpenRow
    <3>1. ~SummaryBusy(o)
      BY <1>3, <2>3, RowOpens DEF OpensRow, OpenRow, Mine
    <3> QED BY <1>0, <2>1, <3>1 DEF SummaryBusy, SummarySingle, OpenRow
  <2> QED BY <2>2, <2>3
<1> QED BY <1>1, <1>2, <1>3, OtherRows

\* Once quiet for a hold, the node stays quiet until the hold lifts.
LEMMA QuietNext ==
  ASSUME LedgerInv, HoldNumbered, QuietHold, [Next]_vars
  PROVE  QuietHold'
<1>0. TypeOK
  BY DEF LedgerInv
<1> SUFFICES ASSUME closed', quietAt' = epoch', NEW q \in Agents, NEW x \in Ops \ RestoreOps,
                    task'[q][x] \in MayWrite
             PROVE  FALSE
  BY DEF QuietHold, MayWrite
<1>1. task[q][x] \in MayWrite \/ Promote(q, x)
  BY <1>0, NextMoves DEF Moves
<1>2. CASE UNCHANGED <<closed, epoch, quietAt>>
  <2>1. task[q][x] \notin MayWrite
    BY <1>2 DEF QuietHold, MayWrite
  <2>2. ~Promote(q, x)
    BY <1>2 DEF Promote, PromoteApplies, HoldAdmits
  <2> QED BY <1>1, <2>1, <2>2
<1>3. ASSUME NEW p \in Agents, ReportQuiet(p) PROVE FALSE
  <2>1. task'[q][x] = task[q][x]
    BY <1>3 DEF ReportQuiet
  <2>2. Owns(q) /\ Owns(p)
    BY <1>3, <2>1 DEF ReportQuiet, LedgerInv, SenderOwnsRow, MayWrite
  <2>3. p = q
    BY <2>2 DEF Owns
  <2> QED BY <1>3, <2>1, <2>3 DEF ReportQuiet, Sending, MayWrite
<1>4. CASE CloseHold \/ OpenHold
  BY <1>0, <1>4 DEF CloseHold, OpenHold, HoldNumbered, TypeOK
<1>5. ASSUME NEW p \in Agents, NEW o \in Ops, OpStep(p, o) PROVE FALSE
  BY <1>0, <1>2, <1>5, OpGate DEF idVars
<1>6. ASSUME NEW p \in Agents, ProcessStep(p) PROVE FALSE
  <2>1. UNCHANGED <<closed, epoch, quietAt>> \/ ReportQuiet(p)
    BY <1>6
    DEF ProcessStep, Claim, OpenGate, Crash, Exit, StopAgent, WatchLost, Drain, Reopen,
        RecheckDrain, ReadHold, Freeze, Thaw, Interrupt, idVars
  <2> QED BY <1>2, <1>3, <2>1
<1>7. CASE UNCHANGED vars \/ Environment
  BY <1>2, <1>4, <1>7
  DEF vars, Environment, SessionLost, RuntimeRestarts, RuntimeFinishes, idVars
<1> QED BY <1>5, <1>6, <1>7 DEF Next

-----------------------------------------------------------------------------
(* Whose work the runtime is doing.                                        *)

\* A process acts for an operation only while it is on.
LEMMA OpIsOn ==
  ASSUME LedgerInv, NEW p \in Agents, NEW o \in Ops, OpStep(p, o)
  PROVE  gate[p] # "off"
<1>1. \/ task[p][o] # "none" \/ baseline[p][o] # 0 \/ Up(p)
      \/ gate[p] = "serving" \/ gate[p] = "maintenance"
  <2>1. CASE QuietOp(p, o)
    BY <2>1
    DEF QuietOp, Submit, SubmitLifecycle, SubmitRestore, Restorable, GiveUp, SeeIdle, TakeSlot,
        PromoteRefused, Send, RelayNotSent, RelayUncertain, BlockUncertain, EndExclusive,
        ReopenResolved, ResolveDropped, Senders
  <2>2. CASE RowOp(p, o)
    BY <2>2
    DEF RowOp, Insert, InsertFault, Promote, PromoteFault, Unsent, UnsentFault, SettleDoubt,
        DoubtFault, CancelRoute, Settle, SettleUnacked, Committable, ResolveComplete,
        RestartAttested
  <2>3. CASE Deliver(p, o) \/ RelayAnswered(p, o) \/ ResolveStart(p, o)
    BY <2>3 DEF Deliver, RelayAnswered, ResolveStart
  <2> QED BY <2>1, <2>2, <2>3 DEF OpStep, QuietOp, RowOp
<1> QED BY <1>1, BusyIsOn DEF Up

\* Only an election turns a process on, and one that is off reads no hold.
LEMMA OnlyClaimStarts ==
  ASSUME LedgerInv, OffFollowsNothing, [Next]_vars, NEW q \in Agents
  PROVE  /\ gate[q] = "off" => gate'[q] = "off" \/ Claim(q)
         /\ gate'[q] = "off" => tick'[q] = NoTick
<1>0. TypeOK
  BY DEF LedgerInv
<1>1. CASE UNCHANGED vars \/ Environment
  BY <1>1
  DEF vars, memVars, Environment, SessionLost, CloseHold, OpenHold, RuntimeRestarts,
      RuntimeFinishes, OffFollowsNothing
<1>2. ASSUME NEW p \in Agents, NEW o \in Ops, OpStep(p, o)
      PROVE  gate'[q] = "off" <=> gate[q] = "off"
  <2>1. CASE q # p
    BY <1>0, <1>2, <2>1, OpKeeps DEF Kept
  <2>2. CASE q = p
    <3>1. gate[p] # "off"
      BY <1>2, OpIsOn
    <3>2. CASE PromoteRefused(p, o)
      BY <1>0, <2>2, <3>1, <3>2, SetGateAt DEF PromoteRefused
    <3>3. CASE GateMoves(p)
      BY <1>0, <2>2, <3>1, <3>3, SetGateAt DEF GateMoves, CloseTo, ReopenTo
    <3> QED BY <1>0, <1>2, <3>2, <3>3, OpGate
  <2> QED BY <2>1, <2>2
<1>3. ASSUME NEW p \in Agents, NEW o \in Ops, OpStep(p, o) PROVE tick'[q] = tick[q]
  BY <1>0, <1>3, OpGate
<1>4. ASSUME NEW p \in Agents, ProcessStep(p)
      PROVE  /\ gate[q] = "off" => gate'[q] = "off" \/ Claim(q)
             /\ gate'[q] = "off" => tick'[q] = NoTick
  <2>1. CASE Claim(p)
    BY <1>0, <2>1, SetGateAt DEF Claim, memVars, OffFollowsNothing
  <2>2. CASE Crash(p) \/ Exit(p)
    <3>1. Forget(p)
      BY <2>2 DEF Crash, Exit
    <3>2. /\ gate'[p] = "off" /\ tick'[p] = NoTick
          /\ q # p => gate'[q] = gate[q] /\ tick'[q] = tick[q]
      BY <1>0, <3>1, SetGateAt DEF Forget, TypeOK
    <3> QED BY <3>2 DEF OffFollowsNothing
  <2>3. CASE ReadHold(p)
    <3>1. UNCHANGED gate /\ gate[p] # "off"
      BY <2>3 DEF ReadHold, Up
    <3>2. q # p => tick'[q] = tick[q]
      BY <1>0, <2>3 DEF ReadHold, TypeOK
    <3> QED BY <3>1, <3>2 DEF OffFollowsNothing
  <2>4. CASE Freeze(p) \/ Thaw(p)
    <3>1. tick[p] # NoTick /\ tick'[p] = NoTick /\ (q # p => tick'[q] = tick[q])
      BY <1>0, <2>4 DEF Freeze, Thaw, TypeOK, NoTick, ThawTick
    <3>2. gate[p] # "off"
      BY <3>1 DEF OffFollowsNothing
    <3>3. q # p => gate'[q] = gate[q]
      BY <1>0, <2>4, SetGateAt DEF Freeze, Thaw
    <3> QED BY <3>1, <3>2, <3>3 DEF OffFollowsNothing
  <2>5. CASE OpenGate(p) \/ StopAgent(p) \/ WatchLost(p)
    <3>1. gate[p] # "off" /\ UNCHANGED tick
      BY <2>5 DEF OpenGate, StopAgent, WatchLost, Up, memVars
    <3>2. gate'[p] # "off" /\ (q # p => gate'[q] = gate[q])
      <4>1. PICK s : SetGate(p, s) /\ (s = "lost" \/ \E f : s = ReopenTo(p, f, NoOp))
        BY <2>5 DEF OpenGate, StopAgent, WatchLost
      <4> QED BY <1>0, <3>1, <4>1, SetGateAt DEF ReopenTo
    <3> QED BY <3>1, <3>2 DEF OffFollowsNothing
  <2>6. CASE Drain(p) \/ Reopen(p) \/ RecheckDrain(p)
    <3>1. gate[p] # "off" /\ UNCHANGED tick
      BY <2>6 DEF Drain, Reopen, RecheckDrain, Up, memVars
    <3>2. gate'[p] # "off" /\ (q # p => gate'[q] = gate[q])
      BY <1>0, <2>6, <3>1, SetGateAt DEF Drain, Reopen, RecheckDrain, CloseTo, ReopenTo
    <3> QED BY <3>1, <3>2 DEF OffFollowsNothing
  <2>7. CASE Interrupt(p) \/ ReportQuiet(p)
    <3>1. gate[p] # "off" /\ UNCHANGED tick
      BY <2>7 DEF Interrupt, ReportQuiet, Up, memVars
    <3>2. UNCHANGED gate \/ SetGate(p, "maintenance")
      BY <2>7 DEF Interrupt, ReportQuiet
    <3> QED BY <1>0, <3>1, <3>2, SetGateAt DEF OffFollowsNothing
  <2> QED BY <1>4, <2>1, <2>2, <2>3, <2>4, <2>5, <2>6, <2>7 DEF ProcessStep
<1> QED BY <1>1, <1>2, <1>3, <1>4 DEF Next, OffFollowsNothing

\* A task ends by settling, or with its process.
LEMMA TasksEnd ==
  ASSUME TypeOK, [Next]_vars, NEW q \in Agents, NEW x \in Ops,
         task[q][x] \in Tasks, task'[q][x] \notin Tasks
  PROVE  Settle(q, x) \/ gate'[q] = "off"
<1> USE DEF Tasks, Senders, Settling
<1>1. ~(UNCHANGED vars \/ Environment)
  BY DEF vars, Environment, SessionLost, CloseHold, OpenHold, RuntimeRestarts, RuntimeFinishes
<1>2. ASSUME NEW p \in Agents, ProcessStep(p) PROVE gate'[q] = "off"
  <2>1. CASE Crash(p) \/ Exit(p)
    <3>1. Forget(p)
      BY <2>1 DEF Crash, Exit
    <3> QED BY <3>1, SetGateAt DEF Forget, TypeOK
  <2>2. CASE Interrupt(p)
    <3>1. task' = [task EXCEPT ![p] = [y \in Ops |-> IF task[p][y] \in Senders THEN "cancelled"
                                                                           ELSE task[p][y]]]
      BY <2>2 DEF Interrupt
    <3> QED BY <3>1 DEF TypeOK
  <2>3. UNCHANGED task \/ Crash(p) \/ Exit(p) \/ Interrupt(p)
    BY <1>2
    DEF ProcessStep, Claim, OpenGate, StopAgent, WatchLost, Drain, Reopen, RecheckDrain,
        ReadHold, Freeze, Thaw, ReportQuiet
  <2> QED BY <2>1, <2>2, <2>3
<1>3. ASSUME NEW p \in Agents, NEW o \in Ops, OpStep(p, o) PROVE Settle(q, x)
  <2>1. CASE Settle(p, o)
    BY <2>1, GotoAt DEF Settle
  <2>2. CASE Send(p, o) \/ Deliver(p, o) \/ RelayNotSent(p, o) \/ RelayAnswered(p, o)
             \/ RelayUncertain(p, o) \/ BlockUncertain(p, o) \/ Promote(p, o)
    <3>1. PICK b : Goto(p, o, b) /\ b \in Tasks
      BY <2>2 DEF Send, Deliver, RelayNotSent, RelayAnswered, RelayUncertain, BlockUncertain, Promote
    <3> QED BY <3>1, GotoAt
  <2>3. CASE \/ Insert(p, o) \/ InsertFault(p, o) \/ GiveUp(p, o) \/ SeeIdle(p, o)
             \/ TakeSlot(p, o) \/ PromoteRefused(p, o) \/ PromoteFault(p, o) \/ Unsent(p, o)
             \/ UnsentFault(p, o) \/ SettleDoubt(p, o) \/ DoubtFault(p, o) \/ Submits(p, o)
             \/ EndExclusive(p, o) \/ ReopenResolved(p, o) \/ ResolveComplete(p, o)
    <3>1. task[p][o] \notin Tasks
      BY <2>3
      DEF Insert, InsertFault, GiveUp, SeeIdle, TakeSlot, PromoteRefused, PromoteFault, Unsent,
          UnsentFault, SettleDoubt, DoubtFault, Submits, Submit, SubmitLifecycle, SubmitRestore,
          EndExclusive, ReopenResolved, ResolveComplete
    <3>2. \A r \in Agents, y \in Ops : r # p \/ y # o => task'[r][y] = task[r][y]
      BY <2>3, GotoAt
      DEF Insert, InsertFault, GiveUp, SeeIdle, TakeSlot, PromoteRefused, PromoteFault, Unsent,
          UnsentFault, SettleDoubt, DoubtFault, Submits, Submit, SubmitLifecycle, SubmitRestore,
          EndExclusive, ReopenResolved, ResolveComplete
    <3> QED BY <3>1, <3>2
  <2>4. ~(CancelRoute(p, o) \/ SettleUnacked(p, o) \/ ResolveStart(p, o) \/ ResolveDropped(p, o))
    BY DEF CancelRoute, SettleUnacked, ResolveStart, ResolveDropped
  <2> QED BY <1>3, <2>1, <2>2, <2>3, <2>4 DEF OpStep, Submits
<1> QED BY <1>1, <1>2, <1>3 DEF Next

\* What the runtime works on grows only by a delivery.
LEMMA OnlyDeliveryStarts ==
  ASSUME TypeOK, [Next]_vars, NEW x \in executing', x \notin executing
  PROVE  \E p \in Agents : x \in Ops /\ Deliver(p, x)
<1> USE DEF runtimeVars
<1>1. CASE UNCHANGED vars \/ Environment
  BY <1>1
  DEF vars, Environment, SessionLost, CloseHold, OpenHold, RuntimeRestarts, RuntimeFinishes
<1>2. ASSUME NEW p \in Agents, ProcessStep(p) PROVE FALSE
  BY <1>2
  DEF ProcessStep, Claim, OpenGate, Crash, Exit, StopAgent, WatchLost, Drain, Reopen,
      RecheckDrain, ReadHold, Freeze, Thaw, Interrupt, ReportQuiet
<1>3. ASSUME NEW p \in Agents, NEW o \in Ops, OpStep(p, o) PROVE x = o /\ Deliver(p, o)
  <2>1. ~QuietOp(p, o)
    BY DEF QuietOp, Submit, SubmitLifecycle, SubmitRestore, GiveUp, SeeIdle, TakeSlot,
           PromoteRefused, Send, RelayNotSent, RelayUncertain, BlockUncertain, EndExclusive,
           ReopenResolved, ResolveDropped
  <2>2. ~RowOp(p, o)
    BY DEF RowOp, Insert, InsertFault, Promote, PromoteFault, Unsent, UnsentFault, SettleDoubt,
           DoubtFault, CancelRoute, Settle, SettleUnacked, ResolveComplete
  <2>3. ~ResolveStart(p, o) /\ ~RelayAnswered(p, o)
    BY DEF ResolveStart, RelayAnswered
  <2>4. Deliver(p, o)
    BY <1>3, <2>1, <2>2, <2>3 DEF OpStep, QuietOp, RowOp
  <2> QED BY <2>4 DEF Deliver
<1> QED BY <1>1, <1>2, <1>3 DEF Next

\* Open rows stay with the newest generation, and what the runtime is doing for
\* a running one stays a task of the owner.
LEMMA OwnedNext ==
  ASSUME LedgerInv, OffFollowsNothing, OwnedOrOrphaned, [Next]_vars
  PROVE  OwnedOrOrphaned'
<1>0. TypeOK
  BY DEF LedgerInv
<1>1. ASSUME NEW p \in Agents, Claim(p) PROVE OwnedOrOrphaned'
  <2>1. \A x \in Ops : opState'[x] \in OpenRow => opState'[x] # "running" /\ opGen'[x] = generation'
    BY <1>1 DEF Claim, Takeover, OpenRow
  <2>2. executing' \subseteq Ops
    BY <1>0, <1>1 DEF Claim, runtimeVars, TypeOK
  <2> QED BY <2>1, <2>2 DEF OwnedOrOrphaned, OpenRow
<1>2. ASSUME \A p \in Agents : ~Claim(p) PROVE OwnedOrOrphaned'
  <2>1. UNCHANGED <<generation, owner, myGen>>
    BY <1>2, OtherRows
  <2>2. ASSUME NEW x \in Ops, opState'[x] \in OpenRow PROVE opGen'[x] = generation'
    <3>1. CASE UNCHANGED rowVars
      BY <2>1, <2>2, <3>1 DEF OwnedOrOrphaned, OpenRow, rowVars
    <3>2. ASSUME NEW p \in Agents, NEW o \in Ops, OpStep(p, o) PROVE opGen'[x] = generation'
      <4>1. CASE x # o
        BY <2>1, <2>2, <3>2, <4>1, RowOpens DEF OwnedOrOrphaned, OpenRow
      <4>2. CASE x = o
        <5>1. OpensRow(p, o)
          BY <3>2, RowOpens
        <5> QED BY <2>1, <2>2, <4>2, <5>1 DEF OpensRow, OwnedOrOrphaned, OpenRow, Owns, Mine
      <4> QED BY <4>1, <4>2
    <3> QED BY <1>2, <3>1, <3>2, OtherRows
  <2>3. ASSUME NEW q \in Agents, Owns(q)', gate'[q] # "off",
               NEW x \in executing', opState'[x] = "running"
        PROVE  task'[q][x] \in Tasks
    <3>1. Owns(q) /\ gate[q] # "off"
      BY <1>2, <2>1, <2>3, OnlyClaimStarts DEF Owns
    <3>2. CASE x \notin executing
      <4>1. PICK p \in Agents : x \in Ops /\ Deliver(p, x)
        BY <1>0, <3>2, OnlyDeliveryStarts
      <4>2. task[p][x] = "sending" /\ task'[p][x] = "sent"
        BY <1>0, <4>1, GotoAt DEF Deliver
      <4>3. Owns(p)
        BY <4>1, <4>2 DEF LedgerInv, SenderOwnsRow, Senders
      <4>4. p = q
        BY <3>1, <4>3 DEF Owns
      <4> QED BY <4>2, <4>4 DEF Tasks, Senders
    <3>3. CASE x \in executing
      <4>0. x \in Ops
        BY <1>0, <3>3 DEF TypeOK
      <4>1. opState[x] = "running"
        <5>1. opState[x] \in {"running", "outcome_unknown"}
          BY <3>3, <4>0 DEF LedgerInv, ExecutionAccounted
        <5>2. CASE UNCHANGED rowVars
          BY <2>3, <5>2 DEF rowVars
        <5>3. ASSUME NEW p \in Agents, NEW o \in Ops, OpStep(p, o) PROVE opState[x] = "running"
          <6>1. CASE x # o
            BY <2>3, <4>0, <5>3, <6>1, RowOpens
          <6>2. CASE x = o
            BY <2>3, <5>1, <5>3, <6>2, RowOpens DEF OpensRow, OpenRow, Mine
          <6> QED BY <6>1, <6>2
        <5> QED BY <1>2, <5>2, <5>3, OtherRows
      <4>2. task[q][x] \in Tasks /\ opGen[x] = generation
        BY <3>1, <3>3, <4>0, <4>1 DEF OwnedOrOrphaned
      <4>3. CASE Settle(q, x)
        <5>1. Mine(q, x, "running")
          BY <3>1, <4>1, <4>2 DEF Mine, Owns
        <5>2. CommitOutcome(q, x) /\ task[q][x] \in Committable
          BY <3>1, <4>3 DEF Settle
        <5>3. opState'[x] = OutcomeRow(task[q][x])
          BY <1>0, <4>0, <5>1, <5>2, SetRowAt DEF CommitOutcome
        <5> QED BY <2>3, <5>2, <5>3 DEF OutcomeRow, Committable
      <4> QED BY <1>0, <2>3, <4>0, <4>2, <4>3, TasksEnd
    <3> QED BY <3>2, <3>3
  <2> QED BY <2>2, <2>3 DEF OwnedOrOrphaned, OpenRow
<1> QED BY <1>1, <1>2

-----------------------------------------------------------------------------
(* The theorems.                                                           *)

\* At first every process is off and nothing is recorded.
LEMMA GateInit == Init => GateInv
<1> SUFFICES ASSUME Init PROVE GateInv
  OBVIOUS
<1>1. HoldNumbered /\ OffFollowsNothing /\ FrozenIsShut /\ QuietHold
  BY DEF Init, HoldNumbered, OffFollowsNothing, FrozenIsShut, QuietHold, NoTick
<1>2. UncommittedIsShut /\ ServingMeansKnown
  BY DEF Init, UncommittedIsShut, ServingMeansKnown
<1>3. ExclusiveHasNode
  <2>1. \A p \in Agents, x \in ExclusiveOps : task[p][x] = "none"
    BY DEF Init, ExclusiveOps
  <2>2. \A p \in Agents : exclusive[p] = NoOp
    BY DEF Init
  <2> QED BY <2>1, <2>2 DEF ExclusiveHasNode, Tasks, Senders, Settling
<1>4. OwnedOrOrphaned
  BY DEF Init, OwnedOrOrphaned
<1>5. SummarySingle
  BY DEF Init, SummarySingle
<1> QED BY <1>1, <1>2, <1>3, <1>4, <1>5 DEF GateInv

\* Every step keeps the gate's invariant.
LEMMA GateNext == LedgerInv /\ GateInv /\ [Next]_vars => GateInv'
<1> SUFFICES ASSUME LedgerInv, GateInv, [Next]_vars PROVE GateInv'
  OBVIOUS
<1>1. SoundBefore /\ OffFollowsNothing /\ OwnedOrOrphaned
      /\ ServingMeansKnown /\ SummarySingle /\ QuietHold /\ HoldNumbered
  BY DEF GateInv, SoundBefore
<1>2. HoldNumbered' /\ FrozenIsShut' /\ UncommittedIsShut' /\ ExclusiveHasNode'
  BY <1>1, HoldNext, FrozenNext, UncommittedNext, ExclusiveNext
<1>3. OffFollowsNothing'
  BY <1>1, OnlyClaimStarts DEF OffFollowsNothing
<1>4. OwnedOrOrphaned' /\ ServingMeansKnown' /\ SummarySingle' /\ QuietHold'
  BY <1>1, OwnedNext, ServingNext, SummaryNext, QuietNext
<1> QED BY <1>2, <1>3, <1>4 DEF GateInv

\* The gate's inductive invariant holds of every reachable state.
THEOREM GateInvariant == Spec => []GateInv
BY GateInit, GateNext, LedgerInvariant, PTL DEF Spec

\* An owner whose gate serves knows of no unknown outcome, committed or not:
\* whatever resumes, thaws, lifecycle ends or re-checks it went through.
THEOREM ServingKnowsAll == Spec => []ServingMeansKnown
<1>1. GateInv => ServingMeansKnown
  BY DEF GateInv
<1> QED BY <1>1, GateInvariant, PTL

\* While a lifecycle or restore operation has a task, no other operation of its
\* process has one.
THEOREM ExclusiveHasTheNode == Spec => []ExclusiveAlone
<1>1. ExclusiveHasNode => ExclusiveAlone
  BY DEF ExclusiveHasNode, ExclusiveAlone, Admitted
<1>2. GateInv => ExclusiveAlone
  BY <1>1 DEF GateInv
<1> QED BY <1>2, GateInvariant, PTL

\* One summary at most is outstanding on the node, across crashes and elections.
THEOREM OneSummary == Spec => []SummarySingle
<1>1. GateInv => SummarySingle
  BY DEF GateInv
<1> QED BY <1>1, GateInvariant, PTL

\* A node whose owner reported it quiet for the closed hold has nothing but that
\* hold's restores authorised to write until the hold lifts.
THEOREM QuietNodeStaysQuiet == Spec => []QuietHold
<1>1. GateInv => QuietHold
  BY DEF GateInv
<1> QED BY <1>1, GateInvariant, PTL

\* A row becomes running in a step that finds in the runtime only work that the
\* promoting process holds a task for.
LEMMA PromotionFindsNoOrphan ==
  ASSUME LedgerInv, GateInv, [Next]_vars, NEW o \in Ops,
         opState[o] = "accepted", opState'[o] = "running"
  PROVE  \E p \in Agents : /\ task[p][o] = "slot" /\ task'[p][o] # "slot"
                           /\ executing \subseteq Admitted(p)
<1>1. \A p \in Agents : ~Claim(p)
  BY DEF Claim, Takeover
<1>2. PICK p \in Agents, y \in Ops : OpStep(p, y)
  BY <1>1, OtherRows DEF rowVars
<1>3. y = o
  BY <1>2, RowOpens
<1>4. PromoteApplies(p, o) /\ task[p][o] = "slot" /\ task'[p][o] # "slot"
  BY <1>2, <1>3, RowOpens DEF OpensRow, OpenRow, Mine
<1>5. Owns(p) /\ gate[p] # "off" /\ ~AnyUnknown
  BY <1>2, <1>4, OpIsOn DEF PromoteApplies, RowAdmits
<1>6. ASSUME NEW x \in executing PROVE x \in Admitted(p)
  <2>1. x \in Ops
    BY DEF LedgerInv, TypeOK
  <2>2. opState[x] = "running"
    BY <1>5, <2>1 DEF LedgerInv, ExecutionAccounted, AnyUnknown
  <2> QED BY <1>5, <2>1, <2>2 DEF GateInv, OwnedOrOrphaned, Admitted
<1> QED BY <1>4, <1>6

\* Nothing is authorised to send while the runtime may be executing work of a
\* crashed, superseded or uncertain attempt.
THEOREM NothingBesideAnOrphan == Spec => NoPromotionBesideOrphan
<1> DEFINE Alone == \A o \in Ops : opState[o] = "accepted" /\ opState'[o] = "running" =>
                      \E p \in Agents : /\ task[p][o] = "slot" /\ task'[p][o] # "slot"
                                        /\ executing \subseteq Admitted(p)
<1>1. LedgerInv /\ GateInv /\ [Next]_vars => Alone
  BY PromotionFindsNoOrphan
<1> QED BY <1>1, LedgerInvariant, GateInvariant, PTL DEF Spec, NoPromotionBesideOrphan
=============================================================================
