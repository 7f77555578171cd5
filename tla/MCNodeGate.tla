----------------------------- MODULE MCNodeGate -----------------------------
(***************************************************************************)
(* NodeAgent for model checking its gate.  One set of agents and operations *)
(* serves several scenarios: a lifecycle operation beside an ordinary one,  *)
(* two operations that may both end unknown, the maintenance hold with a    *)
(* restore operation (one hold across a restarted agent, two in a row), a   *)
(* hold beside a superseded agent, and summaries on two processes.  A       *)
(* behaviour is explored as long as it is one of a scenario: agents outside *)
(* it are not started and operations outside it not submitted.              *)
(***************************************************************************)
EXTENDS NodeAgent, TLC

CONSTANTS a1, a2, o1, l1, r1, s1, s2

\* a2 runs on a clone of a1's volume under another kernel.
Clone == [p \in Agents |-> IF p = a1 THEN "k1" ELSE "k2"]
OneDomain == [p \in Agents |-> "d1"]

Scenario(agents, ops, generations, epochs, instances) ==
    [agents |-> agents, ops |-> ops, generations |-> generations, epochs |-> epochs,
     instances |-> instances]

Scenarios ==
    {Scenario({a1}, {o1, l1}, 2, 0, 2),       \* a lifecycle operation
     Scenario({a1}, {o1, s1}, 2, 0, 2),       \* two that may end unknown
     Scenario({a1}, {o1, r1}, 2, 1, 1),       \* one hold, the agent restarted
     Scenario({a1}, {o1}, 1, 2, 1),           \* two holds
     Scenario({a1, a2}, {o1}, 2, 1, 1),       \* a hold beside a superseded agent
     Scenario({a1, a2}, {s1, s2}, 2, 0, 1)}   \* summaries on two processes

\* The last elected process of a scenario neither stops nor dies nor loses its
\* session.
Fits(s) ==
    /\ generation <= s.generations /\ epoch <= s.epochs /\ instance <= s.instances
    /\ \A p \in Agents \ s.agents : gate[p] = "off"
    /\ \A o \in Ops \ s.ops :
         opState[o] = "absent" /\ \A p \in s.agents : task[p][o] = "none"
    /\ s.generations < MaxGeneration /\ generation = s.generations =>
         session # NoAgent /\ gate[session] \notin {"off", "lost"} /\ stopping = {}

\* The behaviours explored are those of the scenarios in which a1 is elected
\* first: agents play the same part.
Explored == (generation = 1 => owner = a1) /\ \E s \in Scenarios : Fits(s)
==============================================================================
