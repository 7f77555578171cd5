------------------------- MODULE RuntimeResetProofs --------------------------
(***************************************************************************)
(* Machine-checked proofs about RuntimeReset, for any number of calls, ids *)
(* and operations, and any bounds: a request is executed at most once,     *)
(* a caller told that its request was withdrawn is told the truth, and an  *)
(* unknown outcome is cleared only once every process that may carry it is *)
(* gone.                                                                   *)
(***************************************************************************)
EXTENDS RuntimeReset, TLAPS

-----------------------------------------------------------------------------
(* Type correctness, one group of actions at a time.                       *)

LEMMA InitType == ASSUME CallAssumption, BoundAssumption, Init PROVE TypeOK
<1> USE DEF CallAssumption, BoundAssumption, Init
<1>1. NoSight \in Sights
  BY DEF Sights, NoSight
<1>2. "idle" \in Place
  BY DEF Place
<1>3. /\ baseline \in [Ids -> Sights] /\ seen \in [Calls -> Sights]
      /\ pc \in [Calls -> Place]
  BY <1>1, <1>2
<1>4. carriers \in [Ops -> SUBSET (1 .. births)] /\ procs \subseteq 1 .. births
  OBVIOUS
<1>5. births \in 1 .. MaxBirths /\ crashes \in 0 .. MaxCrashes /\ incarnation \in 0 .. crashes
  OBVIOUS
<1>6. /\ filed \in [Ids -> BOOLEAN] /\ claimed \in [Ids -> BOOLEAN]
      /\ receipt \in [Ids -> {"none", "ok", "failed", "rejected"}]
      /\ ran \in [Ids -> Nat] /\ done \in [Ids -> {"none", "resolved", "unresolved"}]
  OBVIOUS
<1>7. /\ quiet \in [Asker -> {"idle", "withdrawn", "quiet"}]
      /\ opState \in [Ops -> {"none", "sending", "settling", "unknown", "resolved"}]
      /\ cohort \in [Ids -> SUBSET Ops] /\ sure \in [Calls -> SUBSET Ops]
  OBVIOUS
<1>8. spc \in {"idle", "pick"} \cup SupervisorSteps /\ (spc \in SupervisorSteps => cur \in Ids)
  BY DEF SupervisorSteps
<1>9. /\ batch \subseteq Ids /\ cur \in Ids \cup {NoId} /\ result \in {"ok", "failed", "rejected"}
      /\ loaded \in BOOLEAN /\ before \subseteq 1 .. births /\ daemon \in procs \cup {0}
      /\ frozenAt \in Nat /\ drained \in BOOLEAN
  OBVIOUS
<1>10. epoch = 0 /\ MaxEpoch \in Nat
  OBVIOUS
<1> HIDE DEF CallAssumption, BoundAssumption
<1>11. closed \in BOOLEAN
  BY Zenon
<1> HIDE DEF Init
<1>12. epoch \in 0 .. MaxEpoch
  BY <1>10
<1> QED BY <1>3, <1>4, <1>5, <1>6, <1>7, <1>8, <1>9, <1>11, <1>12 DEF TypeOK

LEMMA HostType ==
  ASSUME CallAssumption, BoundAssumption, TypeOK, Host PROVE TypeOK'
<1>1. CASE Spawn
  BY <1>1 DEF Spawn, TypeOK, BoundAssumption, files, supVars, agentVars, holdVars, gateVars, opVars, auditVars, callVars
<1>2. CASE SpawnRunner
  BY <1>2 DEF SpawnRunner, TypeOK, BoundAssumption, files, supVars, holdVars, gateVars, auditVars, callVars
<1>3. ASSUME NEW p \in procs, Exit(p) PROVE TypeOK'
  BY <1>3 DEF Exit, TypeOK, files, supVars, agentVars, holdVars, gateVars, opVars, auditVars, callVars
<1>4. CASE WitnessRestart
  BY <1>4 DEF WitnessRestart, TypeOK, BoundAssumption, files, agentVars, holdVars, gateVars, opVars, auditVars, callVars
<1> QED BY <1>1, <1>2, <1>3, <1>4 DEF Host

LEMMA SuperviseType ==
  ASSUME CallAssumption, BoundAssumption, TypeOK, Supervise \/ SupervisorDies PROVE TypeOK'
<1> USE DEF TypeOK, SupervisorSteps, files, hostVars, agentVars, holdVars, gateVars, opVars,
            auditVars, callVars, NextPath, SupervisorStays
<1>1. CASE List BY <1>1 DEF List
<1>2. ASSUME NEW r \in Ids, Pick(r) PROVE TypeOK'
  <2>1. CASE receipt[r] # "none" \/ ~filed[r]
    BY <1>2, <2>1 DEF Pick, AnsweredAlready
  <2>2. CASE ~(receipt[r] # "none" \/ ~filed[r])
    BY <1>2, <2>2 DEF Pick, AnsweredAlready
  <2> QED BY <2>1, <2>2
<1>3. CASE Read
  <2>1. cur \in Ids /\ procs \subseteq 1 .. births
    BY <1>3 DEF Read
  <2>2. CASE ActionOf[cur] = "malformed" BY <1>3, <2>1, <2>2 DEF Read
  <2>3. CASE ActionOf[cur] # "malformed"
    <3>1. ran' \in [Ids -> Nat] /\ before' = procs /\ result' = "failed"
      BY <1>3, <2>1, <2>3 DEF Read
    <3>2. spc' \in {"start", "bootout"} /\ UNCHANGED <<files, batch, cur, crashes, hostVars, agentVars>>
      BY <1>3, <2>3 DEF Read
    <3> QED BY <2>1, <3>1, <3>2
  <2> QED BY <2>2, <2>3
<1>4. CASE Bootout BY <1>4 DEF Bootout
<1>5. CASE AwaitExit BY <1>5 DEF AwaitExit
<1>6. CASE Scan BY <1>6 DEF Scan
<1>7. CASE Start BY <1>7 DEF Start
<1>8. CASE Started BY <1>8 DEF Started
<1>9. CASE Publish BY <1>9 DEF Publish
<1>10. CASE Clear BY <1>10 DEF Clear
<1>11. CASE SupervisorDies BY <1>11 DEF SupervisorDies, BoundAssumption
<1> QED BY <1>1, <1>2, <1>3, <1>4, <1>5, <1>6, <1>7, <1>8, <1>9, <1>10, <1>11 DEF Supervise

LEMMA ServeType ==
  ASSUME CallAssumption, BoundAssumption, TypeOK, Serve \/ AgentDies PROVE TypeOK'
<1> USE DEF TypeOK, SupervisorSteps, files, supVars, hostVars, holdVars, gateVars, opVars,
            auditVars, callVars, GateStep
<1>1. CASE EnterMaintenance BY <1>1 DEF EnterMaintenance, BoundAssumption
<1>2. CASE LiftHold BY <1>2 DEF LiftHold
<1>3. CASE FollowClosed BY <1>3 DEF FollowClosed
<1>4. CASE Drain BY <1>4 DEF Drain
<1>5. ASSUME NEW w \in Asker, WithdrawOutstanding(w) \/ QuietForServing(w) \/ Reopen(w) PROVE TypeOK'
  <2>1. CASE WithdrawOutstanding(w)
    <3>1. CASE filed' = [r \in Ids |-> FALSE]
      BY <2>1, <3>1 DEF WithdrawOutstanding
    <3>2. CASE \E kept \in SUBSET {r \in Ids : filed[r]} : filed' = [r \in Ids |-> r \in kept]
      <4>1. filed' \in [Ids -> BOOLEAN]
        BY <3>2
      <4> QED BY <2>1, <4>1 DEF WithdrawOutstanding
    <3> QED BY <2>1, <3>1, <3>2 DEF WithdrawOutstanding
  <2>2. CASE QuietForServing(w) BY <2>2 DEF QuietForServing
  <2>3. CASE Reopen(w)
    <3>1. CASE w = "watchdog" BY <2>3, <3>1 DEF Reopen
    <3>2. CASE w # "watchdog" BY <2>3, <3>2 DEF Reopen
    <3> QED BY <3>1, <3>2
  <2> QED BY <1>5, <2>1, <2>2, <2>3
<1>6. ASSUME NEW o \in Ops, Send(o) PROVE TypeOK' BY <1>6 DEF Send
<1>7. ASSUME NEW o \in Ops, Reach(o) PROVE TypeOK' BY <1>7 DEF Reach
<1>8. ASSUME NEW o \in Ops, Settle(o) PROVE TypeOK' BY <1>8 DEF Settle
<1>9. CASE AgentDies
  <2>1. NoSight \in Sights
    BY DEF BoundAssumption, Sights, NoSight
  <2>2. pc' \in [Calls -> Place] /\ seen' \in [Calls -> Sights] /\ sure' \in [Calls -> SUBSET Ops]
    BY <1>9, <2>1 DEF AgentDies, Place, Answers
  <2>3. frozenAt' \in Nat /\ drained' = FALSE /\ quiet' = [w \in Asker |-> "idle"]
    BY <1>9 DEF AgentDies
  <2>4. crashes' \in 0 .. MaxCrashes /\ incarnation' \in 0 .. crashes'
    BY <1>9 DEF AgentDies, BoundAssumption
  <2>5. opState' \in [Ops -> {"none", "sending", "settling", "unknown", "resolved"}]
    BY <1>9 DEF AgentDies
  <2>6. UNCHANGED <<files, spc, batch, cur, before, result, ran, hostVars, holdVars, carriers, auditVars>>
    BY <1>9 DEF AgentDies
  <2> QED BY <2>2, <2>3, <2>4, <2>5, <2>6
<1> QED BY <1>1, <1>2, <1>3, <1>4, <1>5, <1>6, <1>7, <1>8, <1>9 DEF Serve

\* What every step of a call leaves alone, and the place it goes to.
LEMMA GotoPlace ==
  ASSUME TypeOK, NEW c \in Calls, NEW s \in Place, Goto(c, s)
  PROVE  /\ pc' \in [Calls -> Place] /\ pc'[c] = s
         /\ \A d \in Calls \ {c} : pc'[d] = pc[d]
BY DEF TypeOK, Goto

LEMMA CallType ==
  ASSUME CallAssumption, BoundAssumption, TypeOK, NEW c \in Calls, Call(c) PROVE TypeOK'
<1>1. /\ UNCHANGED <<supVars, hostVars, holdVars>>
      /\ \E s \in Place : Goto(c, s)
  <2>1. CASE AskAgain(c) BY <2>1 DEF AskAgain, CallStep, Place
  <2>2. CASE MaintenanceReset(c) BY <2>2 DEF MaintenanceReset, CallStep, Place, Answers
  <2>3. CASE FreezeForReset(c) BY <2>3 DEF FreezeForReset, CallStep, Place, Answers
  <2>4. CASE Recorded(c) BY <2>4 DEF Recorded, CallStep, Place, Answers
  <2>5. CASE Attest(c) BY <2>5 DEF Attest, CallStep, Place
  <2>6. CASE OperationReset(c) BY <2>6 DEF OperationReset, CallStep, Place
  <2>7. CASE OperationBaseline(c) BY <2>7 DEF OperationBaseline, CallStep, Place, Running, Answers
  <2>8. CASE RuntimeControl(c) BY <2>8 DEF RuntimeControl, CallStep, Place, Answers
  <2>9. CASE Check(c) BY <2>9 DEF Check, CallStep, Place, Running, Answers
  <2>10. CASE Run(c)
    BY <2>10 DEF Run, Look, LookClaim, File, Poll, PollClaim, PollAgain, Deadline, Checked,
       CallStep, Place, Running, Answers
  <2>11. CASE Answered(c) BY <2>11 DEF Answered, CallStep, Place, Answers
  <2>12. CASE After(c) BY <2>12 DEF After, CallStep, Place, Answers
  <2>13. CASE Recheck(c) BY <2>13 DEF Recheck, CallStep, Place
  <2>14. ASSUME NEW o \in Ops, Resolve(c, o)
         PROVE  UNCHANGED <<supVars, hostVars, holdVars>> /\ \E s \in Place : Goto(c, s)
    <3>1. Goto(c, "resolve")
      BY <2>14 DEF Resolve, Goto, TypeOK
    <3> QED BY <2>14, <3>1 DEF Resolve, CallStep, Place
  <2>15. CASE Report(c) BY <2>15 DEF Report, CallStep, Place, Answers
  <2> QED BY <2>1, <2>2, <2>3, <2>4, <2>5, <2>6, <2>7, <2>8, <2>9, <2>10, <2>11, <2>12, <2>13,
             <2>14, <2>15 DEF Call
<1>2. pc' \in [Calls -> Place]
  BY <1>1, GotoPlace
<1>3. /\ filed' \in [Ids -> BOOLEAN] /\ UNCHANGED <<claimed, receipt>>
      /\ frozenAt' \in Nat /\ drained' \in BOOLEAN /\ UNCHANGED <<quiet, carriers>>
  <2> USE DEF TypeOK, AgentOnly, gateVars, opVars, auditVars, files
  <2>1. CASE AskAgain(c) BY <2>1 DEF AskAgain
  <2>2. CASE MaintenanceReset(c) BY <2>2 DEF MaintenanceReset
  <2>3. CASE FreezeForReset(c) BY <2>3 DEF FreezeForReset, CallAssumption
  <2>4. CASE Recorded(c) BY <2>4 DEF Recorded
  <2>5. CASE Attest(c) BY <2>5 DEF Attest
  <2>6. CASE OperationReset(c) BY <2>6 DEF OperationReset
  <2>7. CASE OperationBaseline(c) BY <2>7 DEF OperationBaseline
  <2>8. CASE RuntimeControl(c) BY <2>8 DEF RuntimeControl
  <2>9. CASE Check(c) BY <2>9 DEF Check
  <2>10. CASE Run(c)
    BY <2>10 DEF Run, Look, LookClaim, File, Poll, PollClaim, PollAgain, Deadline
  <2>11. CASE Answered(c) BY <2>11 DEF Answered
  <2>12. CASE After(c) BY <2>12 DEF After
  <2>13. CASE Recheck(c) BY <2>13 DEF Recheck
  <2>14. ASSUME NEW o \in Ops, Resolve(c, o)
         PROVE  /\ filed' \in [Ids -> BOOLEAN] /\ UNCHANGED <<claimed, receipt>>
                /\ frozenAt' \in Nat /\ drained' \in BOOLEAN /\ UNCHANGED <<quiet, carriers>>
    BY <2>14 DEF Resolve
  <2>15. CASE Report(c) BY <2>15 DEF Report
  <2> QED BY <2>1, <2>2, <2>3, <2>4, <2>5, <2>6, <2>7, <2>8, <2>9, <2>10, <2>11, <2>12, <2>13,
             <2>14, <2>15 DEF Call
<1>4. /\ seen' \in [Calls -> Sights] /\ sure' \in [Calls -> SUBSET Ops]
      /\ baseline' \in [Ids -> Sights] /\ cohort' \in [Ids -> SUBSET Ops]
      /\ done' \in [Ids -> {"none", "resolved", "unresolved"}]
      /\ opState' \in [Ops -> {"none", "sending", "settling", "unknown", "resolved"}]
  <2>0. IdOf[c] \in Ids /\ NoSight \in Sights /\ Sight \in Sights
    <3>1. incarnation \in 0 .. MaxCrashes /\ daemon \in 0 .. MaxBirths
      BY DEF TypeOK, BoundAssumption
    <3>2. 0 \in 0 .. MaxCrashes /\ 0 \in 0 .. MaxBirths
      BY DEF BoundAssumption
    <3> QED BY <3>1, <3>2 DEF CallAssumption, NoSight, Sight, Sights
  <2> USE <2>0 DEF TypeOK, AgentOnly, gateVars, opVars, auditVars, InState
  <2>1. CASE AskAgain(c) BY <2>1 DEF AskAgain
  <2>2. CASE MaintenanceReset(c) BY <2>2 DEF MaintenanceReset
  <2>3. CASE FreezeForReset(c) BY <2>3 DEF FreezeForReset
  <2>4. CASE Recorded(c) BY <2>4 DEF Recorded
  <2>5. CASE Attest(c) BY <2>5 DEF Attest
  <2>6. CASE OperationReset(c) BY <2>6 DEF OperationReset
  <2>7. CASE OperationBaseline(c)
    <3>1. TargetOf[c] \in Ops
      BY <2>7 DEF OperationBaseline, CallAssumption
    <3> QED BY <2>7, <3>1 DEF OperationBaseline
  <2>8. CASE RuntimeControl(c) BY <2>8 DEF RuntimeControl
  <2>9. CASE Check(c) BY <2>9 DEF Check
  <2>10. CASE Run(c)
    BY <2>10 DEF Run, Look, LookClaim, File, Poll, PollClaim, PollAgain, Deadline
  <2>11. CASE Answered(c) BY <2>11 DEF Answered
  <2>12. CASE After(c) BY <2>12 DEF After
  <2>13. CASE Recheck(c) BY <2>13 DEF Recheck
  <2>14. ASSUME NEW o \in Ops, Resolve(c, o)
         PROVE  /\ seen' \in [Calls -> Sights] /\ sure' \in [Calls -> SUBSET Ops]
                /\ baseline' \in [Ids -> Sights] /\ cohort' \in [Ids -> SUBSET Ops]
                /\ done' \in [Ids -> {"none", "resolved", "unresolved"}]
                /\ opState' \in [Ops -> {"none", "sending", "settling", "unknown", "resolved"}]
    BY <2>14 DEF Resolve
  <2>15. CASE Report(c) BY <2>15 DEF Report
  <2> QED BY <2>1, <2>2, <2>3, <2>4, <2>5, <2>6, <2>7, <2>8, <2>9, <2>10, <2>11, <2>12, <2>13,
             <2>14, <2>15 DEF Call
<1> QED BY <1>1, <1>2, <1>3, <1>4 DEF TypeOK, supVars, hostVars, holdVars

LEMMA TypeStep ==
  ASSUME CallAssumption, BoundAssumption, TypeOK, Next PROVE TypeOK'
BY HostType, SuperviseType, ServeType, CallType DEF Next

LEMMA TypeStutter == ASSUME TypeOK, UNCHANGED vars PROVE TypeOK'
BY DEF TypeOK, vars, files, supVars, hostVars, agentVars, holdVars, gateVars, opVars, auditVars,
       callVars

\* The values every variable keeps, for any calls, ids, operations and bounds.
THEOREM ResetTypes ==
  ASSUME CallAssumption, BoundAssumption PROVE Spec => []TypeOK
<1>1. TypeOK /\ [Next]_vars => TypeOK'
  BY TypeStep, TypeStutter
<1> QED BY InitType, <1>1, PTL DEF Spec

-----------------------------------------------------------------------------
(* A request is executed once (OnceInv).                                   *)

\* Nothing of a request moves.
LEMMA OnceKept ==
  ASSUME OnePlace, InHand, ResetRunsOnce, UNCHANGED <<files, spc, cur, ran>>
  PROVE  OnePlace' /\ InHand' /\ ResetRunsOnce'
BY DEF OnePlace, InHand, ResetRunsOnce, files

\* The looks of the calls stay true when no call moves, files only disappear
\* and a claim comes from a filed request.
LEMMA LooksKept ==
  ASSUME CallAssumption, OneLooks, UNCHANGED pc,
         \A r \in Ids : filed'[r] => filed[r],
         \A r \in Ids : claimed'[r] => claimed[r] \/ filed[r]
  PROVE  OneLooks'
BY DEF OneLooks, CallAssumption

LEMMA OnceSupervise ==
  ASSUME CallAssumption, TypeOK, OnceInv, Supervise \/ SupervisorDies PROVE OnceInv'
<1>1. UNCHANGED pc
  BY DEF Supervise, SupervisorDies, SupervisorStays, List, Pick, Read, Bootout, AwaitExit, Scan, Start, Started,
         Publish, Clear, agentVars, callVars
<1>2. OnePlace' /\ InHand' /\ ResetRunsOnce'
  <2> USE DEF OnceInv, OnePlace, InHand, ResetRunsOnce, TypeOK, SupervisorSteps, files, SupervisorStays
  <2>1. CASE List BY <2>1 DEF List
  <2>2. ASSUME NEW r \in Ids, Pick(r) PROVE OnePlace' /\ InHand' /\ ResetRunsOnce'
    <3>1. CASE receipt[r] # "none" \/ ~filed[r]
      BY <2>2, <3>1 DEF Pick, AnsweredAlready, NextPath
    <3>2. CASE ~(receipt[r] # "none" \/ ~filed[r])
      BY <2>2, <3>2 DEF Pick, AnsweredAlready
    <3> QED BY <3>1, <3>2
  <2>3. CASE Read
    <3>1. CASE ActionOf[cur] = "malformed" BY <2>3, <3>1 DEF Read
    <3>2. CASE ActionOf[cur] # "malformed" BY <2>3, <3>2 DEF Read
    <3> QED BY <3>1, <3>2
  <2>4. CASE Bootout BY <2>4 DEF Bootout
  <2>5. CASE AwaitExit BY <2>5 DEF AwaitExit
  <2>6. CASE Scan BY <2>6 DEF Scan
  <2>7. CASE Start BY <2>7 DEF Start
  <2>8. CASE Started BY <2>8 DEF Started
  <2>9. CASE Publish BY <2>9 DEF Publish
  <2>10. CASE Clear BY <2>10 DEF Clear, NextPath
  <2>11. CASE SupervisorDies BY <2>11 DEF SupervisorDies
  <2> QED BY <2>1, <2>2, <2>3, <2>4, <2>5, <2>6, <2>7, <2>8, <2>9, <2>10, <2>11 DEF Supervise
<1>3. /\ \A r \in Ids : filed'[r] => filed[r]
      /\ \A r \in Ids : claimed'[r] => claimed[r] \/ filed[r]
  <2> USE DEF TypeOK, SupervisorSteps, files, SupervisorStays
  <2>1. ASSUME NEW r \in Ids, Pick(r)
        PROVE  \A s \in Ids : (filed'[s] => filed[s]) /\ (claimed'[s] => claimed[s] \/ filed[s])
    BY <2>1 DEF Pick
  <2>2. CASE Publish \/ Clear BY <2>2 DEF Publish, Clear
  <2>3. CASE List \/ Read \/ Bootout \/ AwaitExit \/ Scan \/ Start \/ Started \/ SupervisorDies
    BY <2>3 DEF List, Read, Bootout, AwaitExit, Scan, Start, Started, SupervisorDies
  <2> QED BY <2>1, <2>2, <2>3 DEF Supervise
<1> QED BY <1>1, <1>2, <1>3, LooksKept DEF OnceInv

LEMMA OnceHost ==
  ASSUME CallAssumption, OnceInv, Host PROVE OnceInv'
<1>1. UNCHANGED <<files, spc, cur, ran, pc>>
  BY DEF Host, Spawn, SpawnRunner, Exit, WitnessRestart, supVars, agentVars, callVars
<1> QED BY <1>1, OnceKept, LooksKept DEF OnceInv, files

LEMMA OnceServe ==
  ASSUME CallAssumption, TypeOK, OnceInv, Serve \/ AgentDies PROVE OnceInv'
<1>1. ASSUME UNCHANGED <<files, spc, cur, ran, pc>> PROVE OnceInv'
  BY <1>1, OnceKept, LooksKept DEF OnceInv, files
<1>2. CASE EnterMaintenance \/ LiftHold \/ FollowClosed \/ Drain
  BY <1>1, <1>2 DEF EnterMaintenance, LiftHold, FollowClosed, Drain, GateStep, supVars, callVars
<1>3. ASSUME NEW w \in Asker, WithdrawOutstanding(w) PROVE OnceInv'
  BY <1>3 DEF WithdrawOutstanding, GateStep, supVars, callVars, OnceInv, OnePlace, InHand,
     ResetRunsOnce, OneLooks, CallAssumption
<1>4. ASSUME NEW w \in Asker, QuietForServing(w) \/ Reopen(w) PROVE OnceInv'
  BY <1>1, <1>4 DEF QuietForServing, Reopen, GateStep, supVars, callVars
<1>5. ASSUME NEW o \in Ops, Send(o) \/ Reach(o) \/ Settle(o) PROVE OnceInv'
  BY <1>1, <1>5 DEF Send, Reach, Settle, GateStep, supVars, callVars
<1>6. CASE AgentDies
  <2>1. OnePlace' /\ InHand' /\ ResetRunsOnce'
    BY <1>6, OnceKept DEF AgentDies, OnceInv
  <2>2. \A c \in Calls : pc'[c] \notin Running
    BY <1>6 DEF AgentDies, Running, Answers
  <2> QED BY <2>1, <2>2 DEF OnceInv, OneLooks, Running
<1> QED BY <1>2, <1>3, <1>4, <1>5, <1>6 DEF Serve

\* A call that moves: outside Running, or to a look that is true.
LEMMA LooksMove ==
  ASSUME CallAssumption, TypeOK, OneLooks, NEW c \in Calls, NEW s \in Place, Free(c), Goto(c, s),
         UNCHANGED claimed, filed' \in [Ids -> BOOLEAN],
         \A r \in Ids : filed'[r] => filed[r] \/ (r = IdOf[c] /\ s = "poll"),
         s \in {"unfiled", "pollclaim", "unclaimed", "pollagain"} => ~filed[IdOf[c]],
         s \in {"unclaimed", "pollagain"} => ~claimed[IdOf[c]]
  PROVE  OneLooks'
<1>1. pc'[c] = s /\ \A d \in Calls \ {c} : pc'[d] = pc[d] /\ pc[d] \notin Running
  BY GotoPlace DEF Free
<1> QED BY <1>1 DEF OneLooks, Running, CallAssumption

LEMMA OnceRun ==
  ASSUME CallAssumption, TypeOK, OnceInv, NEW c \in Calls, Run(c) PROVE OnceInv'
<1>0. IdOf[c] \in Ids /\ Free(c) /\ UNCHANGED <<claimed, receipt, spc, cur, ran>>
  BY DEF CallAssumption, Run, Look, LookClaim, File, Poll, PollClaim, PollAgain, Deadline, CallStep,
     supVars, files
<1> USE DEF OnceInv, TypeOK
<1>1. CASE Look(c)
  <2>1. UNCHANGED files /\ \E s \in {"mismatch", "answered", "poll", "unfiled"} :
          Goto(c, s) /\ (s = "unfiled" => ~filed[IdOf[c]])
    BY <1>1 DEF Look, Checked
  <2> QED BY <1>0, <2>1, OnceKept, LooksMove DEF files, Place, Running, Answers
<1>2. CASE LookClaim(c)
  <2>1. UNCHANGED files /\ ~filed[IdOf[c]]
    BY <1>2 DEF LookClaim, OneLooks
  <2>2. \E s \in {"poll", "unclaimed"} : Goto(c, s) /\ (s = "unclaimed" => ~claimed[IdOf[c]])
    BY <1>2 DEF LookClaim
  <2> QED BY <1>0, <2>1, <2>2, OnceKept, LooksMove DEF files, Place, Running
<1>3. CASE File(c)
  <2>1. ~filed[IdOf[c]] /\ ~claimed[IdOf[c]]
    BY <1>3 DEF File, OneLooks
  <2>2. CASE filed' = [filed EXCEPT ![IdOf[c]] = TRUE] /\ Goto(c, "poll")
    <3>1. OneLooks'
      BY <1>0, <2>2, LooksMove DEF Place, Running
    <3>2. OnePlace' /\ InHand' /\ ResetRunsOnce'
      BY <1>0, <1>3, <2>1, <2>2 DEF File, OnePlace, InHand, ResetRunsOnce
    <3> QED BY <3>1, <3>2
  <2>3. CASE UNCHANGED files /\ Goto(c, "refused")
    BY <1>0, <2>3, OnceKept, LooksMove DEF files, Place, Answers
  <2> QED BY <1>3, <2>2, <2>3 DEF File, files
<1>4. CASE Poll(c)
  <2>1. UNCHANGED files /\ \E s \in {"mismatch", "answered", "wait", "pollclaim"} :
          Goto(c, s) /\ (s = "pollclaim" => ~filed[IdOf[c]])
    BY <1>4 DEF Poll, Checked
  <2> QED BY <1>0, <2>1, OnceKept, LooksMove DEF files, Place, Running, Answers
<1>5. CASE PollClaim(c)
  <2>1. UNCHANGED files /\ ~filed[IdOf[c]]
    BY <1>5 DEF PollClaim, OneLooks
  <2>2. \E s \in {"wait", "pollagain"} : Goto(c, s) /\ (s = "pollagain" => ~claimed[IdOf[c]])
    BY <1>5 DEF PollClaim
  <2> QED BY <1>0, <2>1, <2>2, OnceKept, LooksMove DEF files, Place, Running
<1>6. CASE PollAgain(c)
  <2>1. UNCHANGED files /\ \E s \in {"mismatch", "answered", "withdrawn"} : Goto(c, s)
    BY <1>6 DEF PollAgain, Checked
  <2> QED BY <1>0, <2>1, OnceKept, LooksMove DEF files, Place, Answers
<1>7. CASE Deadline(c)
  <2>1. /\ filed' \in {filed, [filed EXCEPT ![IdOf[c]] = FALSE]}
        /\ \E s \in {"withdrawn", "leftover", "taken"} : Goto(c, s)
    BY <1>7 DEF Deadline
  <2>2. OneLooks'
    BY <1>0, <2>1, LooksMove DEF Place, Answers
  <2>3. OnePlace' /\ InHand' /\ ResetRunsOnce'
    BY <1>0, <2>1 DEF OnePlace, InHand, ResetRunsOnce
  <2> QED BY <2>2, <2>3
<1> QED BY <1>1, <1>2, <1>3, <1>4, <1>5, <1>6, <1>7 DEF Run

\* The routes around Supervisor.run touch no file of their own.
Around(c) ==
  \/ AskAgain(c) \/ MaintenanceReset(c) \/ FreezeForReset(c) \/ Recorded(c) \/ Attest(c)
  \/ OperationReset(c) \/ OperationBaseline(c) \/ RuntimeControl(c)
  \/ Check(c) \/ Answered(c) \/ After(c) \/ Recheck(c)
  \/ (\E o \in Ops : Resolve(c, o)) \/ Report(c)

LEMMA AroundFiles ==
  ASSUME NEW c \in Calls, Around(c)
  PROVE  Free(c) /\ UNCHANGED <<files, supVars, hostVars, holdVars>>
BY DEF Around, AskAgain, MaintenanceReset, FreezeForReset, Recorded, Attest, OperationReset,
   OperationBaseline, RuntimeControl, Check, Answered, After, Recheck, Resolve, Report, CallStep

\* Where a route sends its call: never to a look of Supervisor.run after the
\* first, never to a withdrawal.
LEMMA AroundPlace ==
  ASSUME TypeOK, NEW c \in Calls, Around(c)
  PROVE  \E s \in Place \ {"unfiled", "pollclaim", "unclaimed", "pollagain", "withdrawn"} : Goto(c, s)
<1> USE DEF Place, Running, Answers
<1>1. CASE AskAgain(c) BY <1>1 DEF AskAgain
<1>2. CASE MaintenanceReset(c) BY <1>2 DEF MaintenanceReset
<1>3. CASE FreezeForReset(c) BY <1>3 DEF FreezeForReset
<1>4. CASE Recorded(c) BY <1>4 DEF Recorded
<1>5. CASE Attest(c) BY <1>5 DEF Attest
<1>6. CASE OperationReset(c) BY <1>6 DEF OperationReset
<1>7. CASE OperationBaseline(c) BY <1>7 DEF OperationBaseline
<1>8. CASE RuntimeControl(c) BY <1>8 DEF RuntimeControl
<1>9. CASE Check(c) BY <1>9 DEF Check
<1>10. CASE Answered(c) BY <1>10 DEF Answered
<1>11. CASE After(c) BY <1>11 DEF After
<1>12. CASE Recheck(c) BY <1>12 DEF Recheck
<1>13. ASSUME NEW o \in Ops, Resolve(c, o)
       PROVE  \E s \in Place \ {"unfiled", "pollclaim", "unclaimed", "pollagain", "withdrawn"} : Goto(c, s)
  <2>1. Goto(c, "resolve")
    BY <1>13 DEF Resolve, Goto, TypeOK
  <2> QED BY <2>1
<1>14. CASE Report(c) BY <1>14 DEF Report
<1> QED BY <1>1, <1>2, <1>3, <1>4, <1>5, <1>6, <1>7, <1>8, <1>9, <1>10, <1>11, <1>12, <1>13,
           <1>14 DEF Around

LEMMA OnceAround ==
  ASSUME CallAssumption, TypeOK, OnceInv, NEW c \in Calls, Around(c) PROVE OnceInv'
<1>1. \E s \in Place \ {"unfiled", "pollclaim", "unclaimed", "pollagain"} : Goto(c, s)
  BY AroundPlace
<1>2. Free(c) /\ UNCHANGED <<files, supVars>>
  BY AroundFiles
<1> QED BY <1>1, <1>2, OnceKept, LooksMove DEF OnceInv, TypeOK, files, supVars

LEMMA CallParts == ASSUME NEW c \in Calls, Call(c) PROVE Around(c) \/ Run(c)
BY DEF Call, Around

LEMMA RunPlace ==
  ASSUME NEW c \in Calls, Run(c)
  PROVE  \E s \in Place : Goto(c, s)
BY DEF Run, Look, LookClaim, File, Poll, PollClaim, PollAgain, Deadline, Checked, Place, Running, Answers

\* A step of one call moves no other call.
LEMMA CallMoves ==
  ASSUME TypeOK, NEW c \in Calls, Call(c), NEW d \in Calls \ {c}
  PROVE  pc'[d] = pc[d]
BY AroundPlace, RunPlace, CallParts, GotoPlace

LEMMA OnceInit == ASSUME CallAssumption, Init PROVE OnceInv
BY DEF CallAssumption, Init, OnceInv, OnePlace, InHand, OneLooks, ResetRunsOnce, Running, SupervisorSteps

LEMMA OnceStep ==
  ASSUME CallAssumption, TypeOK, OnceInv, [Next]_vars PROVE OnceInv'
<1>1. CASE UNCHANGED vars
  BY <1>1, OnceKept, LooksKept DEF OnceInv, vars, files, supVars, agentVars, callVars
<1>2. CASE Next
  BY <1>2, OnceHost, OnceSupervise, OnceServe, OnceAround, OnceRun, CallParts DEF Next
<1> QED BY <1>1, <1>2

\* The inductive invariant of a request's life, with the types.
THEOREM OnceInvariant ==
  ASSUME CallAssumption, BoundAssumption PROVE Spec => []OnceInv
<1>1. TypeOK /\ OnceInv /\ [Next]_vars => OnceInv'
  BY OnceStep
<1> QED BY OnceInit, <1>1, ResetTypes, PTL DEF Spec

\* A request is executed at most once (cycle(): claimed by renaming, discarded
\* once it has a receipt), for any calls that repeat it, and whatever dies.
THEOREM RequestRunsOnce ==
  ASSUME CallAssumption, BoundAssumption PROVE Spec => []ResetRunsOnce
<1>1. OnceInv => ResetRunsOnce
  BY DEF OnceInv
<1> QED BY <1>1, OnceInvariant, PTL

\* A caller of Supervisor.run told "withdrawn" is told the truth, whatever dies and
\* whoever repeats the call; one whose request could not be removed is a "leftover"
\* here, though run() tells it the same.
THEOREM WithdrawalIsTrue ==
  ASSUME CallAssumption, BoundAssumption PROVE Spec => WithdrawnNeverRuns
<1>1. ASSUME TypeOK, OnceInv, Next PROVE ToldTruly
  <2> SUFFICES ASSUME NEW c \in Calls, pc[c] # "withdrawn", pc'[c] = "withdrawn"
               PROVE  /\ ~filed'[IdOf[c]]
                      /\ ran[IdOf[c]] = 0 \/ (receipt[IdOf[c]] # "none" /\ pc[c] = "wait")
    BY DEF ToldTruly
  <2>1. IdOf[c] \in Ids
    BY DEF CallAssumption
  <2>2. Deadline(c) \/ PollAgain(c)
    <3>1. ~(Host \/ Supervise \/ SupervisorDies \/ Serve)
      BY DEF Host, Spawn, SpawnRunner, Exit, WitnessRestart, Supervise, SupervisorStays, List, Pick,
         Read, Bootout, AwaitExit, Scan, Start, Started, Publish, Clear, SupervisorDies, Serve,
         EnterMaintenance, LiftHold, FollowClosed, Drain, WithdrawOutstanding, QuietForServing,
         Reopen, Send, Reach, Settle, GateStep, agentVars, callVars
    <3>2. ~AgentDies
      BY <1>1 DEF AgentDies, Answers, TypeOK
    <3>3. ASSUME NEW d \in Calls, Call(d) PROVE Deadline(c) \/ PollAgain(c)
      <4>1. d = c
        BY <1>1, <3>3, CallMoves
      <4>2. ~Around(c)
        BY <1>1, AroundPlace, GotoPlace
      <4> QED BY <1>1, <3>3, <4>1, <4>2, CallParts DEF Run, Look, LookClaim, File, Poll, PollClaim, Goto, Checked, TypeOK
    <3> QED BY <1>1, <3>1, <3>2, <3>3 DEF Next
  <2>3. CASE Deadline(c)
    BY <1>1, <2>1, <2>3 DEF Deadline, OnceInv, OnePlace, ResetRunsOnce, TypeOK, Goto
  <2>4. CASE PollAgain(c)
    BY <1>1, <2>1, <2>4 DEF PollAgain, OnceInv, OnePlace, OneLooks, TypeOK, Goto, Checked, files
  <2> QED BY <2>2, <2>3, <2>4
<1> QED BY <1>1, OnceInvariant, ResetTypes, PTL DEF Spec, WithdrawnNeverRuns

-----------------------------------------------------------------------------
(* What every step keeps of the operations and the hold.                   *)

Settled(o) == opState[o] \in {"settling", "unknown", "resolved"}

\* An operation whose sender ended stays so, and gone once gone; one newly ended
\* was being sent; and nothing is newly sent under a hold.
OpsSteady ==
  \A o \in Ops :
    /\ Settled(o) => Settled(o)'
    /\ Settled(o) /\ Gone(o) => Gone(o)'
    /\ Settled(o)' => Settled(o) \/ opState[o] = "sending"
    /\ opState'[o] = "sending" => opState[o] = "sending" \/ ~closed'
\* The hold is lifted or entered anew, and an epoch never returns.
HoldSteady ==
  /\ epoch' \in Nat /\ epoch' >= epoch
  /\ closed' /\ epoch' = epoch => closed

LEMMA EndedAt == \A o \in Ops : o \in Ended <=> Settled(o)
BY DEF Ended, Settled

LEMMA OpsHost ==
  ASSUME TypeOK, Host PROVE OpsSteady /\ HoldSteady
<1>1. HoldSteady
  BY DEF Host, Spawn, SpawnRunner, Exit, WitnessRestart, HoldSteady, agentVars, holdVars, TypeOK
<1>2. UNCHANGED opState
  BY DEF Host, Spawn, SpawnRunner, Exit, WitnessRestart, agentVars, opVars
<1>3. ASSUME NEW o \in Ops, Gone(o) PROVE Gone(o)'
  <2>1. carriers[o] \subseteq 1 .. births /\ births + 1 \notin 1 .. births /\ procs \subseteq 1 .. births
    BY DEF TypeOK
  <2>2. CASE Spawn
    BY <1>3, <2>1, <2>2 DEF Spawn, Gone, agentVars, opVars
  <2>3. CASE SpawnRunner
    <3>1. daemon \in procs /\ daemon \notin carriers[o]
      BY <1>3, <2>3 DEF SpawnRunner, TypeOK, Gone
    <3>2. carriers'[o] = carriers[o] /\ procs' = procs \cup {births + 1}
      BY <2>3, <3>1 DEF SpawnRunner
    <3> QED BY <1>3, <2>1, <3>2 DEF Gone
  <2>4. ASSUME NEW p \in procs, Exit(p) PROVE Gone(o)'
    BY <1>3, <2>4 DEF Exit, Gone, agentVars, opVars
  <2>5. CASE WitnessRestart
    BY <1>3, <2>5 DEF WitnessRestart, Gone, agentVars, opVars
  <2> QED BY <2>2, <2>3, <2>4, <2>5 DEF Host
<1> QED BY <1>1, <1>2, <1>3 DEF OpsSteady, Settled

\* No operation and no process moves.
LEMMA OpsUnmoved ==
  ASSUME TypeOK, UNCHANGED <<opVars, procs, holdVars>> PROVE OpsSteady /\ HoldSteady
BY DEF OpsSteady, HoldSteady, Settled, Gone, opVars, holdVars, TypeOK

LEMMA OpsSupervise ==
  ASSUME TypeOK, Supervise \/ SupervisorDies PROVE OpsSteady /\ HoldSteady
<1>1. UNCHANGED <<opVars, procs, holdVars>>
  BY DEF Supervise, SupervisorDies, SupervisorStays, List, Pick, Read, Bootout, AwaitExit, Scan, Start, Started,
         Publish, Clear, agentVars, hostVars
<1> QED BY <1>1, OpsUnmoved

LEMMA OpsServe ==
  ASSUME TypeOK, Serve \/ AgentDies PROVE OpsSteady /\ HoldSteady
<1>1. CASE EnterMaintenance \/ LiftHold
  BY <1>1 DEF EnterMaintenance, LiftHold, OpsSteady, HoldSteady, Settled, Gone, TypeOK, opVars, hostVars
<1>2. CASE FollowClosed \/ Drain
  BY <1>2, OpsUnmoved DEF FollowClosed, Drain, GateStep, hostVars
<1>3. ASSUME NEW w \in Asker, WithdrawOutstanding(w) \/ QuietForServing(w) \/ Reopen(w)
      PROVE  OpsSteady /\ HoldSteady
  BY <1>3, OpsUnmoved DEF WithdrawOutstanding, QuietForServing, Reopen, GateStep, hostVars
<1>4. ASSUME NEW x \in Ops, Send(x) PROVE OpsSteady /\ HoldSteady
  BY <1>4 DEF Send, GateStep, OpsSteady, HoldSteady, Settled, Gone, TypeOK, hostVars, holdVars
<1>5. ASSUME NEW x \in Ops, Reach(x) PROVE OpsSteady /\ HoldSteady
  BY <1>5 DEF Reach, GateStep, OpsSteady, HoldSteady, Settled, Gone, TypeOK, hostVars, holdVars
<1>6. ASSUME NEW x \in Ops, Settle(x) PROVE OpsSteady /\ HoldSteady
  BY <1>6 DEF Settle, GateStep, OpsSteady, HoldSteady, Settled, Gone, TypeOK, hostVars, holdVars
<1>7. CASE AgentDies
  BY <1>7 DEF AgentDies, OpsSteady, HoldSteady, Settled, Gone, TypeOK, hostVars, holdVars
<1> QED BY <1>1, <1>2, <1>3, <1>4, <1>5, <1>6, <1>7 DEF Serve

LEMMA OpsCall ==
  ASSUME TypeOK, NEW c \in Calls, Call(c) PROVE OpsSteady /\ HoldSteady
<1>1. ASSUME NEW x \in Ops, Resolve(c, x) PROVE OpsSteady /\ HoldSteady
  BY <1>1 DEF Resolve, CallStep, OpsSteady, HoldSteady, Settled, Gone, TypeOK, hostVars, holdVars
<1>2. CASE Run(c)
  BY <1>2, OpsUnmoved DEF Run, Look, LookClaim, File, Poll, PollClaim, PollAgain, Deadline, CallStep,
     hostVars, AgentOnly
<1>3. CASE Around(c) /\ ~\E x \in Ops : Resolve(c, x)
  <2>1. UNCHANGED opVars
    BY <1>3 DEF Around, AskAgain, MaintenanceReset, FreezeForReset, Recorded, Attest, OperationReset,
       OperationBaseline, RuntimeControl, Check, Answered, After, Recheck, Report, AgentOnly
  <2> QED BY <1>3, <2>1, AroundFiles, OpsUnmoved DEF hostVars
<1> QED BY <1>1, <1>2, <1>3, CallParts

LEMMA OpsStep == ASSUME TypeOK, [Next]_vars PROVE OpsSteady /\ HoldSteady
<1>1. CASE UNCHANGED vars
  BY <1>1, OpsUnmoved DEF vars, agentVars, hostVars
<1> QED BY <1>1, OpsHost, OpsSupervise, OpsServe, OpsCall DEF Next

-----------------------------------------------------------------------------
(* What every step keeps of a restart's request.                           *)

\* A request appears only where a call files it, its receipt stays, and it
\* counts as scanned only from a moment at which no process was left.
RequestSteady(r) ==
  /\ Touched(r)' => Touched(r) \/ \E d \in Calls : IdOf[d] = r /\ File(d)
  /\ receipt[r] = "ok" => receipt'[r] = "ok"
  /\ Scanned(r)' => Scanned(r) \/ (Touched(r) /\ \A o \in Ops : Gone(o)')

LEMMA ScannedTouched == ASSUME OnceInv, NEW r \in Ids, Scanned(r) PROVE Touched(r)
BY DEF OnceInv, InHand, Scanned, Touched, SupervisorSteps

\* The files, the claim in hand and the result stay, or a file disappears.
LEMMA RequestKept ==
  ASSUME NEW r \in Ids, UNCHANGED <<claimed, receipt, spc, cur, result>>, filed'[r] => filed[r]
  PROVE  RequestSteady(r)
BY DEF RequestSteady, Touched, Scanned

LEMMA RequestSupervise ==
  ASSUME TypeOK, OnceInv, FailedUntilDone, Supervise \/ SupervisorDies,
         NEW r \in Ids, ActionOf[r] = "restart"
  PROVE  RequestSteady(r) /\ FailedUntilDone'
<1> USE DEF RequestSteady, Touched, Scanned, SupervisorSteps, FailedUntilDone, TypeOK, files, SupervisorStays
<1>1. CASE List BY <1>1 DEF List
<1>2. ASSUME NEW s \in Ids, Pick(s) PROVE RequestSteady(r) /\ FailedUntilDone'
  <2>1. CASE receipt[s] # "none" \/ ~filed[s]
    BY <1>2, <2>1 DEF Pick, AnsweredAlready, NextPath
  <2>2. CASE ~(receipt[s] # "none" \/ ~filed[s])
    BY <1>2, <2>2 DEF Pick, AnsweredAlready
  <2> QED BY <2>1, <2>2
<1>3. CASE Read
  <2>1. CASE ActionOf[cur] = "malformed" BY <1>3, <2>1 DEF Read
  <2>2. CASE ActionOf[cur] # "malformed" BY <1>3, <2>2 DEF Read
  <2> QED BY <2>1, <2>2
<1>4. CASE Bootout BY <1>4 DEF Bootout
<1>5. CASE AwaitExit BY <1>5 DEF AwaitExit
<1>6. CASE Scan
  <2>1. CASE procs = {}
    <3>1. \A o \in Ops : Gone(o)'
      BY <1>6, <2>1 DEF Scan, Gone, hostVars
    <3>2. Scanned(r)' => Touched(r)
      BY <1>6 DEF Scan, OnceInv, InHand
    <3> QED BY <1>6, <3>1, <3>2 DEF Scan
  <2>2. CASE procs # {} BY <1>6, <2>2 DEF Scan, Survivors
  <2> QED BY <2>1, <2>2
<1>7. CASE Start BY <1>7 DEF Start
<1>8. CASE Started BY <1>8 DEF Started
<1>9. CASE Publish BY <1>9 DEF Publish, OnceInv, InHand
<1>10. CASE Clear BY <1>10 DEF Clear, NextPath
<1>11. CASE SupervisorDies BY <1>11 DEF SupervisorDies
<1> QED BY <1>1, <1>2, <1>3, <1>4, <1>5, <1>6, <1>7, <1>8, <1>9, <1>10, <1>11 DEF Supervise

LEMMA FailedSupervise ==
  ASSUME TypeOK, FailedUntilDone, Supervise \/ SupervisorDies PROVE FailedUntilDone'
<1> USE DEF SupervisorSteps, FailedUntilDone, TypeOK, SupervisorStays
<1>1. CASE Read
  BY <1>1 DEF Read
<1>2. CASE List \/ (\E r \in Ids : Pick(r)) \/ Bootout \/ AwaitExit \/ Scan \/ Start
  BY <1>2 DEF List, Pick, NextPath, Bootout, AwaitExit, Scan, Start
<1>3. CASE Started \/ Publish \/ Clear \/ SupervisorDies
  BY <1>3 DEF Started, Publish, Clear, NextPath, SupervisorDies
<1> QED BY <1>1, <1>2, <1>3 DEF Supervise

LEMMA RequestStep ==
  ASSUME CallAssumption, TypeOK, OnceInv, FailedUntilDone, [Next]_vars,
         NEW r \in Ids, ActionOf[r] = "restart"
  PROVE  RequestSteady(r) /\ FailedUntilDone'
<1>1. CASE UNCHANGED vars \/ Host
  BY <1>1, RequestKept DEF vars, files, supVars, Host, Spawn, SpawnRunner, Exit, WitnessRestart, FailedUntilDone
<1>2. CASE Supervise \/ SupervisorDies
  BY <1>2, RequestSupervise
<1>3. CASE Serve \/ AgentDies
  <2>1. UNCHANGED <<claimed, receipt, spc, cur, result>> /\ (filed'[r] => filed[r])
    BY <1>3 DEF Serve, AgentDies, EnterMaintenance, LiftHold, FollowClosed, Drain, WithdrawOutstanding, QuietForServing,
       Reopen, Send, Reach, Settle, GateStep, files, supVars
  <2> QED BY <2>1, RequestKept DEF FailedUntilDone
<1>4. ASSUME NEW c \in Calls, Around(c) PROVE RequestSteady(r) /\ FailedUntilDone'
  BY <1>4, AroundFiles, RequestKept DEF files, supVars, FailedUntilDone
<1>5. ASSUME NEW c \in Calls, Run(c) PROVE RequestSteady(r) /\ FailedUntilDone'
  <2>1. UNCHANGED <<claimed, receipt, spc, cur, result>>
    BY <1>5 DEF Run, Look, LookClaim, File, Poll, PollClaim, PollAgain, Deadline, CallStep, supVars, files
  <2>2. CASE File(c)
    BY <2>1, <2>2 DEF File, RequestSteady, Touched, Scanned, FailedUntilDone, TypeOK
  <2>3. CASE ~File(c)
    <3>1. filed'[r] => filed[r]
      BY <1>5, <2>3 DEF Run, Look, LookClaim, Poll, PollClaim, PollAgain, Deadline, files, TypeOK
    <3> QED BY <2>1, <3>1, RequestKept DEF FailedUntilDone
  <2> QED BY <2>2, <2>3
<1> QED BY <1>1, <1>2, <1>3, <1>4, <1>5, CallParts DEF Next

-----------------------------------------------------------------------------
(* What every step keeps of a call.                                        *)

OnOk == {"after", "recheck", "resolve"}

\* A call enters the hold's part of its life while the hold is its own, passes
\* the freeze with no sender left, and goes on from a receipt that says "ok".
CallSteady(c) ==
  /\ KindOf[c] = "maintenance" =>
       /\ pc'[c] \in Entered => pc[c] \in Entered \/ Held(c)
       /\ pc'[c] \in Frozen => pc[c] \in Frozen \/ InState("sending") = {}
  /\ KindOf[c] = "operation" =>
       /\ pc'[c] \in {"idle", "drain"} => pc[c] \in {"idle", "drain"}
       /\ pc'[c] # "idle" => pc[c] # "idle" \/ opState[TargetOf[c]] = "unknown"
  /\ pc'[c] \in OnOk => pc[c] \in OnOk \/ receipt[IdOf[c]] = "ok"

\* What a call may resolve shrinks, but for where it is read; it is acted on
\* from the recheck of the hold or after the attested restart of one operation.
SureSteady(c) ==
  /\ \A o \in sure'[c] :
       \/ o \in sure[c]
       \/ KindOf[c] = "operation" /\ o = TargetOf[c] /\ pc[c] = "drain"
       \/ /\ KindOf[c] = "maintenance"
          /\ o \in cohort[IdOf[c]] \/ (o \in Ops /\ opState[o] \in {"unknown", "settling"})
  /\ pc'[c] = "resolve" =>
       \/ sure'[c] = {}
       \/ /\ sure'[c] \subseteq sure[c]
          /\ \/ pc[c] = "resolve"
             \/ pc[c] = "recheck" /\ KindOf[c] = "maintenance" /\ Held(c)
             \/ pc[c] = "after" /\ KindOf[c] = "operation"

LEMMA CallUnmoved ==
  ASSUME NEW c \in Calls, pc'[c] = pc[c], sure'[c] = sure[c] PROVE CallSteady(c) /\ SureSteady(c)
BY DEF CallSteady, SureSteady

LEMMA AroundSteady ==
  ASSUME CallAssumption, TypeOK, NEW c \in Calls, Around(c) PROVE CallSteady(c) /\ SureSteady(c)
<1> USE DEF CallSteady, SureSteady, Goto, Entered, Frozen, Running, OnOk, TypeOK
<1>1. CASE AskAgain(c) BY <1>1 DEF AskAgain
<1>2. CASE MaintenanceReset(c) BY <1>2 DEF MaintenanceReset, AgentOnly
<1>3. CASE FreezeForReset(c) BY <1>3 DEF FreezeForReset
<1>4. CASE Recorded(c)
  <2>1. \A o \in sure'[c] : o \in cohort[IdOf[c]] \/ (o \in Ops /\ opState[o] \in {"unknown", "settling"})
    BY <1>4 DEF Recorded, InState
  <2>2. pc'[c] \in {"reported", "attest", "check"} /\ pc[c] = "recorded" /\ KindOf[c] = "maintenance"
    BY <1>4 DEF Recorded
  <2> QED BY <2>1, <2>2
<1>5. CASE Attest(c) BY <1>5 DEF Attest
<1>6. CASE OperationReset(c) BY <1>6 DEF OperationReset
<1>7. CASE OperationBaseline(c) BY <1>7 DEF OperationBaseline
<1>8. CASE RuntimeControl(c) BY <1>8 DEF RuntimeControl, AgentOnly
<1>9. CASE Check(c) BY <1>9 DEF Check, AgentOnly
<1>10. CASE Answered(c)
  <2>1. pc'[c] \in {"failed", "ok", "after"} /\ (pc'[c] = "after" => receipt[IdOf[c]] = "ok")
    <3>1. CASE receipt[IdOf[c]] # "ok" BY <1>10, <3>1, Zenon DEF Answered
    <3> QED BY <1>10, <3>1 DEF Answered
  <2> QED BY <1>10, <2>1 DEF Answered, AgentOnly
<1>11. CASE After(c) BY <1>11 DEF After, CallAssumption
<1>12. CASE Recheck(c) BY <1>12 DEF Recheck, StillHeld
<1>13. ASSUME NEW o \in Ops, Resolve(c, o) PROVE CallSteady(c) /\ SureSteady(c)
  BY <1>13 DEF Resolve
<1>14. CASE Report(c) BY <1>14 DEF Report
<1> QED BY <1>1, <1>2, <1>3, <1>4, <1>5, <1>6, <1>7, <1>8, <1>9, <1>10, <1>11, <1>12, <1>13,
           <1>14 DEF Around

LEMMA RunSteady ==
  ASSUME TypeOK, NEW c \in Calls, Run(c) PROVE CallSteady(c) /\ SureSteady(c)
<1>1. /\ pc[c] \in Running \cup {"wait"} /\ UNCHANGED sure
      /\ pc'[c] \in Running \cup {"wait", "answered", "mismatch", "withdrawn", "leftover", "taken",
                                     "refused"}
  BY DEF Run, Look, LookClaim, File, Poll, PollClaim, PollAgain, Deadline, Checked, AgentOnly, Goto,
     Running, TypeOK
<1> QED BY <1>1 DEF CallSteady, SureSteady, Entered, Frozen, Running, OnOk

\* A step of one call leaves what another may resolve.
LEMMA CallSure ==
  ASSUME TypeOK, NEW c \in Calls, Call(c), NEW d \in Calls \ {c} PROVE sure'[d] = sure[d]
BY DEF Call, AskAgain, MaintenanceReset, FreezeForReset, Recorded, Attest, OperationReset,
   OperationBaseline, RuntimeControl, Check, Answered, After, Recheck, Resolve, Report, AgentOnly,
   Run, Look, LookClaim, File, Poll, PollClaim, PollAgain, Deadline, TypeOK

LEMMA CallStepSteady ==
  ASSUME CallAssumption, TypeOK, [Next]_vars, NEW c \in Calls PROVE CallSteady(c) /\ SureSteady(c)
<1>1. CASE UNCHANGED vars \/ Host \/ Supervise \/ SupervisorDies \/ Serve
  <2>1. UNCHANGED callVars
    BY <1>1 DEF vars, Host, Spawn, SpawnRunner, Exit, WitnessRestart, Supervise, SupervisorStays, List, Pick,
       Read, Bootout, AwaitExit, Scan, Start, Started, Publish, Clear, SupervisorDies, Serve,
       EnterMaintenance, LiftHold, FollowClosed, Drain, WithdrawOutstanding, QuietForServing,
       Reopen, Send, Reach, Settle, GateStep, agentVars
  <2> QED BY <2>1, CallUnmoved DEF callVars
<1>2. CASE AgentDies
  <2>1. sure'[c] = {} /\ (pc'[c] = pc[c] \/ pc'[c] = "refused") /\ pc'[c] \in Answers \cup {"idle"}
        /\ (pc[c] = "idle" => pc'[c] = "idle") /\ (pc'[c] = "idle" => pc[c] = "idle")
    BY <1>2 DEF AgentDies, Answers, TypeOK
  <2> QED BY <2>1 DEF CallSteady, SureSteady, Answers, Entered, Frozen, Running, OnOk
<1>3. ASSUME NEW d \in Calls, Call(d) PROVE CallSteady(c) /\ SureSteady(c)
  <2>1. CASE d = c
    BY <1>3, <2>1, CallParts, AroundSteady, RunSteady
  <2>2. CASE d # c
    BY <1>3, <2>2, CallMoves, CallSure, CallUnmoved
  <2> QED BY <2>1, <2>2
<1> QED BY <1>1, <1>2, <1>3 DEF Next

\* A cohort is audited from what its call may resolve.
LEMMA CohortStep ==
  ASSUME CallAssumption, TypeOK, [Next]_vars, NEW r \in Ids
  PROVE  \A o \in cohort'[r] : o \in cohort[r] \/ \E c \in Calls : o \in sure[c]
<1>1. CASE UNCHANGED auditVars
  BY <1>1 DEF auditVars
<1>2. ASSUME NEW c \in Calls, Attest(c)
      PROVE  \A o \in cohort'[r] : o \in cohort[r] \/ \E d \in Calls : o \in sure[d]
  BY <1>2 DEF Attest, TypeOK, CallAssumption
<1>3. ASSUME NEW c \in Calls, Report(c) PROVE UNCHANGED cohort
  BY <1>3 DEF Report
<1>4. ASSUME NEW c \in Calls, Call(c), ~Attest(c), ~Report(c) PROVE UNCHANGED auditVars
  BY <1>4 DEF Call, AskAgain, MaintenanceReset, FreezeForReset, Recorded, OperationReset,
     OperationBaseline, RuntimeControl, Check, Answered, After, Recheck, Resolve, AgentOnly,
     Run, Look, LookClaim, File, Poll, PollClaim, PollAgain, Deadline
<1>5. ASSUME UNCHANGED vars \/ Host \/ Supervise \/ SupervisorDies \/ Serve \/ AgentDies PROVE UNCHANGED auditVars
  BY <1>5 DEF vars, Host, Spawn, SpawnRunner, Exit, WitnessRestart, Supervise, SupervisorStays, List, Pick,
     Read, Bootout, AwaitExit, Scan, Start, Started, Publish, Clear, SupervisorDies, Serve,
     EnterMaintenance, LiftHold, FollowClosed, Drain, WithdrawOutstanding, QuietForServing,
     Reopen, Send, Reach, Settle, GateStep, agentVars, AgentDies
<1> QED BY <1>1, <1>2, <1>3, <1>4, <1>5 DEF Next

-----------------------------------------------------------------------------
(* An unknown outcome is cleared only once its processes are gone (GoneInv). *)

LEMMA GoneInit == ASSUME CallAssumption, Init PROVE GoneInv
BY DEF CallAssumption, Init, GoneInv, EntryScanned, TargetScanned, CohortEnded, FailedUntilDone, OnReceipt,
   ResolvedMeansGone, Touched, Scanned, Entered, Frozen, Running, Held, Ended, SupervisorSteps, InState

\* A receipt that says "ok" is not replaced, whatever its request asked.
LEMMA ReceiptStays ==
  ASSUME TypeOK, OnceInv, [Next]_vars, NEW r \in Ids, receipt[r] = "ok"
  PROVE  receipt'[r] = "ok"
<1>1. CASE Publish
  BY <1>1 DEF Publish, OnceInv, InHand, SupervisorSteps, TypeOK
<1>2. CASE ~Publish
  <2>1. UNCHANGED receipt
    <3>1. ASSUME NEW c \in Calls, Call(c) PROVE UNCHANGED receipt
      BY <3>1, CallParts, AroundFiles DEF Run, Look, LookClaim, File, Poll, PollClaim, PollAgain, Deadline, files
    <3> QED BY <1>2, <3>1 DEF Next, vars, files, Host, Spawn, SpawnRunner, Exit, WitnessRestart, Supervise, SupervisorStays,
       List, Pick, Read, Bootout, AwaitExit, Scan, Start, Started, Clear, SupervisorDies, Serve,
       EnterMaintenance, LiftHold, FollowClosed, Drain, WithdrawOutstanding, QuietForServing,
       Reopen, Send, Reach, Settle, GateStep, AgentDies
  <2> QED BY <2>1
<1> QED BY <1>1, <1>2

\* Only a call that may resolve an operation clears it.
LEMMA ResolvedBy ==
  ASSUME TypeOK, [Next]_vars, NEW o \in Ops, opState'[o] = "resolved"
  PROVE  opState[o] = "resolved" \/ \E c \in Calls : Resolve(c, o)
<1>1. ASSUME NEW c \in Calls, Call(c) PROVE opState[o] = "resolved" \/ Resolve(c, o)
  BY <1>1 DEF Call, AskAgain, MaintenanceReset, FreezeForReset, Recorded, Attest, OperationReset,
     OperationBaseline, RuntimeControl, Check, Answered, After, Recheck, Resolve, Report, AgentOnly,
     Run, Look, LookClaim, File, Poll, PollClaim, PollAgain, Deadline, opVars, TypeOK
<1>2. ASSUME NEW x \in Ops, Send(x) \/ Reach(x) \/ Settle(x) PROVE opState[o] = "resolved"
  BY <1>2 DEF Send, Reach, Settle, TypeOK
<1>3. CASE AgentDies
  BY <1>3 DEF AgentDies, TypeOK
<1>4. CASE UNCHANGED opState
  BY <1>4
<1> QED BY <1>1, <1>2, <1>3, <1>4 DEF Next, vars, Host, Spawn, SpawnRunner, Exit, WitnessRestart, Supervise,
     SupervisorStays, List, Pick, Read, Bootout, AwaitExit, Scan, Start, Started, Publish, Clear,
     SupervisorDies, Serve, EnterMaintenance, LiftHold, FollowClosed, Drain, WithdrawOutstanding,
     QuietForServing, Reopen, GateStep, agentVars, opVars

LEMMA EntryStep ==
  ASSUME CallAssumption, IdAssumption, TypeOK, OnceInv, GoneInv, [Next]_vars PROVE EntryScanned'
<1> SUFFICES ASSUME NEW c \in Calls, KindOf[c] = "maintenance"
             PROVE  /\ pc'[c] \in Entered \/ Touched(IdOf[c])' => epoch' >= EpochOf[c]
                    /\ (pc'[c] \in Frozen \/ Touched(IdOf[c])') /\ Held(c)' => InState("sending")' = {}
                    /\ Scanned(IdOf[c])' /\ Held(c)' => \A o \in Ended' : Gone(o)'
  BY DEF EntryScanned
<1> DEFINE r == IdOf[c]
<1>1. r \in Ids /\ ActionOf[r] = "restart" /\ EpochOf[c] \in Nat
  BY DEF CallAssumption, IdAssumption
<1>2. OpsSteady /\ HoldSteady /\ RequestSteady(r) /\ CallSteady(c)
  BY <1>1, OpsStep, RequestStep, CallStepSteady DEF GoneInv
<1>3. /\ pc[c] \in Entered \/ Touched(r) => epoch >= EpochOf[c]
      /\ (pc[c] \in Frozen \/ Touched(r)) /\ Held(c) => InState("sending") = {}
      /\ Scanned(r) /\ Held(c) => \A o \in Ended : Gone(o)
  BY DEF GoneInv, EntryScanned
<1>4. ASSUME NEW d \in Calls, IdOf[d] = r, File(d)
      PROVE  epoch >= EpochOf[c] /\ (Held(c) => InState("sending") = {})
  <2>1. KindOf[d] = "maintenance" /\ EpochOf[d] = EpochOf[c]
    BY <1>4 DEF IdAssumption
  <2>2. pc[d] \in Entered /\ pc[d] \in Frozen
    BY <1>4 DEF File, Entered, Frozen, Running
  <2> QED BY <2>1, <2>2 DEF GoneInv, EntryScanned, Held
<1>5. pc'[c] \in Entered \/ Touched(r)' => epoch >= EpochOf[c]
  BY <1>2, <1>3, <1>4 DEF RequestSteady, CallSteady, Held, TypeOK
<1>6. pc'[c] \in Entered \/ Touched(r)' => epoch' >= EpochOf[c]
  BY <1>1, <1>2, <1>5 DEF HoldSteady, TypeOK
<1>7. Frozen \subseteq Entered
  BY DEF Frozen
<1>8. ASSUME pc'[c] \in Frozen \/ Touched(r)', Held(c)' PROVE Held(c)
  BY <1>1, <1>2, <1>5, <1>7, <1>8 DEF HoldSteady, Held, TypeOK
<1>9. ASSUME pc'[c] \in Frozen \/ Touched(r)', Held(c)'
      PROVE  InState("sending") = {} /\ InState("sending")' = {}
  <2>1. InState("sending") = {}
    BY <1>2, <1>3, <1>4, <1>8, <1>9 DEF RequestSteady, CallSteady
  <2>2. \A o \in Ops : opState'[o] # "sending"
    BY <1>2, <1>9, <2>1 DEF OpsSteady, InState, Held
  <2> QED BY <2>1, <2>2 DEF InState
<1>10. ASSUME Scanned(r)', Held(c)', NEW o \in Ended' PROVE Gone(o)'
  <2>1. CASE \A x \in Ops : Gone(x)'
    BY <2>1 DEF Ended
  <2>2. CASE Scanned(r)
    <3>1. Touched(r)
      BY <1>1, <2>2, ScannedTouched
    <3>2. Held(c)
      BY <1>1, <1>2, <1>3, <1>10, <3>1 DEF HoldSteady, Held, TypeOK
    <3>3. InState("sending") = {} /\ \A x \in Ended : Gone(x)
      BY <1>3, <2>2, <3>1, <3>2
    <3>4. o \in Ops /\ Settled(o)'
      BY DEF Ended, Settled
    <3>5. Settled(o) /\ Gone(o)
      BY <1>2, <3>3, <3>4, EndedAt DEF OpsSteady, InState
    <3> QED BY <1>2, <3>4, <3>5 DEF OpsSteady
  <2> QED BY <1>2, <1>10, <2>1, <2>2 DEF RequestSteady
<1> QED BY <1>6, <1>9, <1>10

LEMMA TargetStep ==
  ASSUME CallAssumption, IdAssumption, TypeOK, OnceInv, GoneInv, [Next]_vars PROVE TargetScanned'
<1> SUFFICES ASSUME NEW c \in Calls, KindOf[c] = "operation"
             PROVE  /\ pc'[c] \in {"idle", "drain"} => ~Touched(IdOf[c])'
                    /\ pc'[c] # "idle" => TargetOf[c] \in Ended'
                    /\ sure'[c] \subseteq {TargetOf[c]}
                    /\ Scanned(IdOf[c])' => Gone(TargetOf[c])'
  BY DEF TargetScanned
<1> DEFINE r == IdOf[c]
           t == TargetOf[c]
<1>1. r \in Ids /\ ActionOf[r] = "restart" /\ t \in Ops
  BY DEF CallAssumption, IdAssumption
<1>2. OpsSteady /\ RequestSteady(r) /\ CallSteady(c) /\ SureSteady(c)
  BY <1>1, OpsStep, RequestStep, CallStepSteady DEF GoneInv
<1>3. /\ pc[c] \in {"idle", "drain"} => ~Touched(r)
      /\ pc[c] # "idle" => Settled(t)
      /\ sure[c] \subseteq {t}
      /\ Scanned(r) => Gone(t)
  BY <1>1, EndedAt DEF GoneInv, TargetScanned
<1>4. ASSUME NEW d \in Calls, IdOf[d] = r, File(d) PROVE pc[c] \notin {"idle", "drain"}
  BY <1>4 DEF IdAssumption, File
<1>5. pc'[c] \in {"idle", "drain"} => ~Touched(r)'
  BY <1>2, <1>3, <1>4 DEF CallSteady, RequestSteady
<1>6. pc'[c] # "idle" => Settled(t)'
  BY <1>1, <1>2, <1>3 DEF CallSteady, OpsSteady, Settled
<1>7. sure'[c] \subseteq {t}
  BY <1>2, <1>3 DEF SureSteady
<1>8. Scanned(r)' => Gone(t)'
  <2>1. CASE Scanned(r)
    <3>1. Settled(t)
      BY <1>1, <1>3, <2>1, ScannedTouched
    <3> QED BY <1>1, <1>2, <1>3, <2>1, <3>1 DEF OpsSteady
  <2> QED BY <1>1, <1>2, <2>1 DEF RequestSteady
<1> QED BY <1>1, <1>5, <1>6, <1>7, <1>8 DEF Ended, Settled

LEMMA ReceiptStep ==
  ASSUME CallAssumption, IdAssumption, TypeOK, OnceInv, GoneInv, [Next]_vars
  PROVE  CohortEnded' /\ OnReceipt'
<1> USE DEF GoneInv
<1>1. OpsSteady
  BY OpsStep
<1>2. ASSUME NEW o \in Ended PROVE o \in Ended'
  BY <1>1, <1>2 DEF OpsSteady, Ended, Settled
<1>3. ASSUME NEW r \in Ids, NEW o \in cohort'[r] PROVE o \in Ended'
  BY <1>2, <1>3, CohortStep DEF CohortEnded
<1>4. ASSUME NEW c \in Calls, NEW o \in sure'[c] PROVE o \in Ended'
  <2>1. IdOf[c] \in Ids
    BY DEF CallAssumption
  <2>2. SureSteady(c)
    BY CallStepSteady
  <2>3. o \in Ended
    BY <1>4, <2>1, <2>2 DEF SureSteady, CohortEnded, TargetScanned, Ended
  <2> QED BY <1>2, <2>3
<1>5. ASSUME NEW c \in Calls, pc'[c] \in OnOk PROVE receipt'[IdOf[c]] = "ok"
  <2>1. IdOf[c] \in Ids /\ CallSteady(c)
    BY CallStepSteady DEF CallAssumption
  <2>2. receipt[IdOf[c]] = "ok"
    BY <1>5, <2>1 DEF CallSteady, OnReceipt, OnOk
  <2> QED BY <2>1, <2>2, ReceiptStays
<1>6. ASSUME NEW c \in Calls, pc'[c] = "resolve", NEW o \in sure'[c] PROVE Gone(o)'
  <2>1. SureSteady(c) /\ sure'[c] # {} /\ IdOf[c] \in Ids
    BY <1>6, CallStepSteady DEF CallAssumption
  <2>2. /\ o \in sure[c] /\ pc[c] \in OnOk
        /\ \/ pc[c] = "resolve"
           \/ pc[c] = "recheck" /\ KindOf[c] = "maintenance" /\ Held(c)
           \/ pc[c] = "after" /\ KindOf[c] = "operation"
    BY <1>6, <2>1 DEF SureSteady, OnOk
  <2>3. Scanned(IdOf[c]) /\ o \in Ended
    BY <2>2 DEF OnReceipt, OnOk, Scanned, CohortEnded
  <2>4. Gone(o)
    BY <2>2, <2>3 DEF OnReceipt, EntryScanned, TargetScanned
  <2> QED BY <1>1, <2>3, <2>4, EndedAt DEF OpsSteady, Ended
<1> QED BY <1>3, <1>4, <1>5, <1>6 DEF CohortEnded, OnReceipt, OnOk

LEMMA ResolvedStep ==
  ASSUME CallAssumption, TypeOK, GoneInv, [Next]_vars PROVE ResolvedMeansGone'
<1> SUFFICES ASSUME NEW o \in Ops, opState'[o] = "resolved" PROVE Gone(o)'
  BY DEF ResolvedMeansGone, Gone
<1>1. OpsSteady
  BY OpsStep
<1>2. Settled(o) /\ Gone(o)
  <2>1. CASE opState[o] = "resolved"
    BY <2>1 DEF GoneInv, ResolvedMeansGone, Settled, Gone
  <2>2. ASSUME NEW c \in Calls, Resolve(c, o) PROVE Settled(o) /\ Gone(o)
    BY <2>2 DEF Resolve, GoneInv, OnReceipt, CohortEnded, Ended, Settled
  <2>3. opState[o] = "resolved" \/ \E c \in Calls : Resolve(c, o)
    BY ResolvedBy
  <2> QED BY <2>1, <2>2, <2>3
<1> QED BY <1>1, <1>2 DEF OpsSteady

LEMMA GoneStep ==
  ASSUME CallAssumption, IdAssumption, TypeOK, OnceInv, GoneInv, [Next]_vars PROVE GoneInv'
<1>1. FailedUntilDone'
  <2>1. CASE Supervise \/ SupervisorDies
    BY <2>1, FailedSupervise DEF GoneInv
  <2>2. CASE ~(Supervise \/ SupervisorDies)
    <3>1. UNCHANGED <<spc, result>>
      <4>1. ASSUME NEW c \in Calls, Call(c) PROVE UNCHANGED <<spc, result>>
        BY <4>1, CallParts, AroundFiles DEF Run, Look, LookClaim, File, Poll, PollClaim, PollAgain, Deadline,
           CallStep, supVars
      <4> QED BY <2>2, <4>1 DEF Next, vars, supVars, Host, Spawn, SpawnRunner, Exit, WitnessRestart, Serve,
         EnterMaintenance, LiftHold, FollowClosed, Drain, WithdrawOutstanding, QuietForServing,
         Reopen, Send, Reach, Settle, GateStep, AgentDies
    <3> QED BY <3>1 DEF GoneInv, FailedUntilDone
  <2> QED BY <2>1, <2>2
<1> QED BY <1>1, EntryStep, TargetStep, ReceiptStep, ResolvedStep DEF GoneInv

\* The inductive invariant of a resolution: what a restart's receipt says of
\* every operation, and for how long.
THEOREM GoneInvariant ==
  ASSUME CallAssumption, BoundAssumption, IdAssumption PROVE Spec => []GoneInv
<1>1. TypeOK /\ OnceInv /\ GoneInv /\ [Next]_vars => GoneInv'
  BY GoneStep
<1> QED BY GoneInit, <1>1, ResetTypes, OnceInvariant, PTL DEF Spec

\* An unknown outcome is cleared only once every process that may carry it is
\* gone (maintenance_reset, reset), for any resets that overlap, repeat or die.
THEOREM ResolvedIsGone ==
  ASSUME CallAssumption, BoundAssumption, IdAssumption PROVE Spec => []ResolvedMeansGone
<1>1. GoneInv => ResolvedMeansGone
  BY DEF GoneInv
<1> QED BY <1>1, GoneInvariant, PTL

=============================================================================
