--------------------------- MODULE OperationLedger ---------------------------
(***************************************************************************)
(* What a node promises about its operations, whoever runs it: the         *)
(* contract of node_operations that a gateway relies on when it bills,     *)
(* retries elsewhere or reports an attempt.  No processes, gates, locks or *)
(* generations: NodeAgent implements it.                                   *)
(***************************************************************************)
EXTENDS Naturals

CONSTANT Ops

VARIABLES
  state,    \* the recorded state of each operation
  sends,    \* how often its request reached the runtime
  working   \* the operations the runtime may be working on

vars == <<state, sends, working>>

Open == {"accepted", "running"}

Init == state = [o \in Ops |-> "absent"] /\ sends = [o \in Ops |-> 0] /\ working = {}

Record(o, s) == state' = [state EXCEPT ![o] = s] /\ UNCHANGED <<sends, working>>

Accept(o) == state[o] = "absent" /\ Record(o, "accepted")

\* Authorised to be sent: only while nothing on the node is unknown.
Start(o) ==
  /\ state[o] = "accepted"
  /\ \A x \in Ops : state[x] # "outcome_unknown"
  /\ Record(o, "running")

Reach(o) ==
  /\ state[o] = "running" /\ sends[o] = 0
  /\ sends' = [sends EXCEPT ![o] = 1]
  /\ working' = working \cup {o}
  /\ UNCHANGED state

\* Never sent, so safe to run elsewhere.
Cancel(o) ==
  /\ state[o] \in Open \cup {"absent"} /\ sends[o] = 0
  /\ Record(o, "cancelled_unsent")

Complete(o) == state[o] = "running" /\ sends[o] = 1 /\ o \notin working /\ Record(o, "completed")

\* A refusal, a request that never left, or an unknown cleared by a reset.
Fail(o) ==
  /\ state[o] \in {"running", "outcome_unknown"} /\ o \notin working
  /\ Record(o, "failed")

LoseTrack(o) == state[o] = "running" /\ Record(o, "outcome_unknown")

\* The node changed hands: what was queued was not sent, the rest is unknown.
ChangeHands ==
  /\ state' = [o \in Ops |-> IF state[o] = "accepted" THEN "cancelled_unsent"
                             ELSE IF state[o] = "running" THEN "outcome_unknown" ELSE state[o]]
  /\ UNCHANGED <<sends, working>>

StopWork(S) == S # {} /\ working' = working \ S /\ UNCHANGED <<state, sends>>

Next ==
  \/ \E o \in Ops : \/ Accept(o) \/ Start(o) \/ Reach(o) \/ Cancel(o)
                    \/ Complete(o) \/ Fail(o) \/ LoseTrack(o)
  \/ ChangeHands
  \/ \E S \in SUBSET Ops : StopWork(S)

Spec == Init /\ [][Next]_vars
=============================================================================
