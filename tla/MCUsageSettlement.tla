------------------------- MODULE MCUsageSettlement -------------------------
(***************************************************************************)
(* Two instances of UsageSettlement: the module's own constants ("faulty":  *)
(* any settlement may raise) and one whose first attempt raises every time  *)
(* while nothing else fails ("poisoned"), under the sweeper's fairness.     *)
(***************************************************************************)
EXTENDS UsageSettlement

VARIABLE part

Poison == INSTANCE UsageSettlement WITH Poisoned <- {1}, Faults <- FALSE

PartInit == Init /\ part \in {"faulty", "poisoned"}

PartNext ==
    \/ part = "faulty" /\ Next /\ UNCHANGED part
    \/ part = "poisoned" /\ Poison!Next /\ UNCHANGED part

PartSpec ==
    /\ PartInit /\ [][PartNext]_<<part, vars>>
    /\ WF_<<part, vars>>(part = "poisoned" /\ Poison!Sweeps /\ UNCHANGED part)

\* The sweep reaches every row: a billable attempt is billed while the sweep
\* still sees it although the one before it raises every time, and a row written
\* before its delivery was committed comes to say completed unless retention
\* removed it first (EverySettled and DeliveryReconciled).
SweepReachesAll == part = "poisoned" => Poison!EverySettled /\ Poison!DeliveryReconciled
=============================================================================
