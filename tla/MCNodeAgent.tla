----------------------------- MODULE MCNodeAgent -----------------------------
(***************************************************************************)
(* NodeAgent for model checking: agents that take the node over from each   *)
(* other.  Its gate has instances of its own in MCNodeGate.                 *)
(***************************************************************************)
EXTENDS NodeAgent, TLC

CONSTANTS a1, a2, o1, o2

\* Every process on one kernel and one volume: one flock.
OneKernel == [p \in Agents |-> "k1"]
OneDomain == [p \in Agents |-> "d1"]
\* a2 runs on a clone of a1's volume under another kernel.
Clone == [p \in Agents |-> IF p = a1 THEN "k1" ELSE "k2"]

\* Operations play the same part.
Symmetry == Permutations({o1, o2})
=============================================================================
