------------------------ MODULE UsageSettlementProofs ------------------------
(***************************************************************************)
(* Machine-checked proofs about UsageSettlement, for any number of         *)
(* attempts, any batch size and any restarts: the inductive invariant of   *)
(* an attempt's usage, that it is billed at most once, and that a delivery *)
(* once billed as complete stays so.                                       *)
(***************************************************************************)
EXTENDS UsageSettlement, TLAPS

USE SettlementAssumption

-----------------------------------------------------------------------------
(* The two ways a row changes.                                             *)

\* A settlement that holds true facts of an attempt that is not past the floor
\* writes a true bill, and inserts only where none was before.
LEMMA WriteBills ==
  ASSUME SettlementInv, NEW a \in Attempts, NEW completed \in {"false", "true"},
         state[a] \in BILLABLE_STATES, age[a] # "expired",
         completed = "true" => delivery[a] = "yes", Write(a, completed)
  PROVE  /\ usage' \in [Attempts -> {"none", "false", "true"}]
         /\ inserts' \in [Attempts -> Nat]
         /\ UNCHANGED <<state, delivery, age>>
         /\ \A b \in Attempts \ {a} : usage'[b] = usage[b] /\ inserts'[b] = inserts[b]
         /\ usage'[a] # "none" /\ inserts'[a] = 1
         /\ usage'[a] = "true" => delivery[a] = "yes"
         /\ usage[a] = "true" => usage'[a] = "true"
BY DEF SettlementInv, TypeOK, PurgedIsExpired, BillIsTrue, Write, Reconciled

\* A settlement keeps the invariant once its process has moved on from it.
LEMMA SettleKeepsInv ==
  ASSUME SettlementInv, NEW a \in Attempts, NEW completed \in {"false", "true"},
         state[a] \in BILLABLE_STATES, age[a] # "expired",
         completed = "true" => delivery[a] = "yes", Write(a, completed),
         read' = read, restarts' \in Nat, sweepRead' = sweepRead, late' = late,
         handler' \in [Attempts -> {"streaming", "marked", "settling", "over"}],
         \A b \in Attempts : handler'[b] \in {handler[b], "over"},
         batch' \subseteq batch, failing' \subseteq failing,
         settling' = None \/ (settling' = settling /\ batch' = batch)
  PROVE  SettlementInv'
<1>1. /\ usage' \in [Attempts -> {"none", "false", "true"}]
      /\ inserts' \in [Attempts -> Nat]
      /\ UNCHANGED <<state, delivery, age>>
      /\ \A b \in Attempts \ {a} : usage'[b] = usage[b] /\ inserts'[b] = inserts[b]
      /\ usage'[a] # "none" /\ inserts'[a] = 1
      /\ usage'[a] = "true" => delivery[a] = "yes"
  BY WriteBills
<1>2. TypeOK'
  BY <1>1 DEF SettlementInv, TypeOK
<1>3. PurgedIsExpired'
  <2> SUFFICES ASSUME NEW b \in Attempts
               PROVE  /\ usage'[b] # "none" => inserts'[b] = 1
                      /\ usage'[b] = "none" /\ age'[b] # "expired" => inserts'[b] = 0
                      /\ age'[b] = "expired" => inserts'[b] <= 1 /\ handler'[b] = "over" /\ b \notin batch'
    BY DEF PurgedIsExpired
  <2>1. CASE b = a
    BY <1>1, <2>1
  <2>2. CASE b # a
    BY <1>1, <2>2 DEF SettlementInv, PurgedIsExpired
  <2> QED BY <2>1, <2>2
<1>4. SettlesFacts'
  BY <1>1 DEF SettlementInv, TypeOK, SettlesFacts
<1>5. BillIsTrue'
  <2> SUFFICES ASSUME NEW b \in Attempts
               PROVE  /\ usage'[b] # "none" => state'[b] \in BILLABLE_STATES
                      /\ usage'[b] = "true" => state'[b] = "completed" /\ delivery'[b] = "yes"
    BY DEF BillIsTrue
  <2>1. CASE b = a
    BY <1>1, <2>1 DEF SettlementInv, SettlesFacts
  <2>2. CASE b # a
    BY <1>1, <2>2 DEF SettlementInv, BillIsTrue
  <2> QED BY <2>1, <2>2
<1> QED BY <1>2, <1>3, <1>4, <1>5 DEF SettlementInv

-----------------------------------------------------------------------------
(* The invariant is inductive: one step per action.                        *)

\* Nothing is billed at first.
LEMMA InitSettlement == Init => SettlementInv
BY DEF Init, SettlementInv, TypeOK, PurgedIsExpired, SettlesFacts, BillIsTrue, None, BILLABLE_STATES

\* The node's outcome, the passing of time and retention.
LEMMA WorldKeepsInv ==
  ASSUME SettlementInv, NEW a \in Attempts,
         \/ \E s \in {"completed", "failed", "cancelled_unsent"} : Finish(a, s)
         \/ Age(a) \/ Purge(a)
  PROVE  SettlementInv'
<1> USE DEF SettlementInv, gatewayVars, sweepVars
<1>1. ASSUME NEW s \in {"completed", "failed", "cancelled_unsent"}, Finish(a, s) PROVE SettlementInv'
  <2>1. TypeOK' /\ PurgedIsExpired'
    BY <1>1 DEF Finish, TypeOK, PurgedIsExpired
  <2>2. SettlesFacts'
    BY <1>1 DEF Finish, TypeOK, SettlesFacts, BILLABLE_STATES
  <2>3. BillIsTrue'
    BY <1>1 DEF Finish, TypeOK, BillIsTrue, BILLABLE_STATES
  <2> QED BY <2>1, <2>2, <2>3
<1>2. CASE Age(a)
  <2>1. TypeOK'
    BY <1>2 DEF Age, TypeOK
  <2>2. PurgedIsExpired'
    BY <1>2 DEF Age, TypeOK, PurgedIsExpired
  <2>3. SettlesFacts' /\ BillIsTrue'
    BY <1>2 DEF Age, SettlesFacts, BillIsTrue
  <2> QED BY <2>1, <2>2, <2>3
<1>3. CASE Purge(a)
  BY <1>3 DEF Purge, TypeOK, PurgedIsExpired, SettlesFacts, BillIsTrue
<1> QED BY <1>1, <1>2, <1>3

\* The gateway's finalizer.
LEMMA GatewayKeepsInv ==
  ASSUME SettlementInv, NEW a \in Attempts,
         MarkDelivery(a) \/ GatewayReads(a) \/ GatewayWrites(a) \/ GatewayDies(a)
  PROVE  SettlementInv'
<1> USE DEF dbVars, sweepVars
<1>1. CASE MarkDelivery(a)
  <2>1. TypeOK' /\ PurgedIsExpired'
    BY <1>1 DEF MarkDelivery, SettlementInv, TypeOK, PurgedIsExpired
  <2>2. PICK s \in {"yes", "no"} :
          /\ s = "yes" => state[a] = "completed"
          /\ delivery' = [delivery EXCEPT ![a] = IF @ = "null" THEN s ELSE @]
    BY <1>1 DEF MarkDelivery
  <2>3. /\ \A b \in Attempts : delivery[b] = "yes" => delivery'[b] = "yes"
        /\ \A b \in Attempts : delivery'[b] = "yes" => state[b] = "completed"
    BY <2>2 DEF SettlementInv, TypeOK, SettlesFacts
  <2>4. SettlesFacts'
    BY <1>1, <2>3 DEF MarkDelivery, SettlementInv, TypeOK, SettlesFacts
  <2>5. BillIsTrue'
    BY <1>1, <2>3 DEF MarkDelivery, SettlementInv, BillIsTrue
  <2> QED BY <2>1, <2>4, <2>5 DEF SettlementInv
<1>2. CASE GatewayReads(a)
  <2>1. TypeOK'
    BY <1>2 DEF GatewayReads, SettlementInv, TypeOK, Computed
  <2>2. PurgedIsExpired'
    BY <1>2 DEF GatewayReads, SettlementInv, TypeOK, PurgedIsExpired
  <2>3. SettlesFacts'
    BY <1>2 DEF GatewayReads, SettlementInv, TypeOK, SettlesFacts, Computed
  <2>4. BillIsTrue'
    BY <1>2 DEF GatewayReads, SettlementInv, BillIsTrue
  <2> QED BY <2>1, <2>2, <2>3, <2>4 DEF SettlementInv
<1>3. CASE GatewayWrites(a)
  <2>1. /\ state[a] \in BILLABLE_STATES /\ age[a] # "expired" /\ read[a] \in {"false", "true"}
        /\ read[a] = "true" => delivery[a] = "yes"
    BY <1>3 DEF GatewayWrites, SettlementInv, TypeOK, SettlesFacts, PurgedIsExpired
  <2> QED BY <1>3, <2>1, SettleKeepsInv DEF GatewayWrites, SettlementInv, TypeOK
<1>4. CASE GatewayDies(a)
  <2>1. TypeOK' /\ PurgedIsExpired'
    BY <1>4 DEF GatewayDies, SettlementInv, TypeOK, PurgedIsExpired
  <2>2. SettlesFacts' /\ BillIsTrue'
    BY <1>4 DEF GatewayDies, SettlementInv, TypeOK, SettlesFacts, BillIsTrue
  <2> QED BY <2>1, <2>2 DEF SettlementInv
<1> QED BY <1>1, <1>2, <1>3, <1>4

\* What a sweep picks is billable and inside the horizon.
LEMMA StartKeepsInv ==
  ASSUME SettlementInv, SweepStart
  PROVE  SettlementInv'
<1> USE DEF dbVars, gatewayVars
<1>1. batch' \subseteq Pending /\ late' \subseteq Late /\ batch = {}
  BY DEF SweepStart
<1>2. UNCHANGED <<dbVars, gatewayVars, settling, sweepRead, failing, restarts>>
  BY DEF SweepStart
<1>3. settling = None
  BY <1>1 DEF SettlementInv, SettlesFacts
<1>4. TypeOK'
  BY <1>1, <1>2 DEF SettlementInv, TypeOK, Pending, Late
<1>5. PurgedIsExpired'
  BY <1>1, <1>2 DEF SettlementInv, PurgedIsExpired, Pending
<1>6. SettlesFacts' /\ BillIsTrue'
  BY <1>1, <1>2, <1>3 DEF SettlementInv, SettlesFacts, BillIsTrue, Pending
<1> QED BY <1>4, <1>5, <1>6 DEF SettlementInv

\* The rest of a sweep.
LEMMA SweepKeepsInv ==
  ASSUME SettlementInv, NEW a \in Attempts,
         SweepReads(a) \/ SweepWrites \/ SweepRaises(a) \/ SweepReconciles(a) \/ SweeperRestarts
  PROVE  SettlementInv'
<1> USE DEF dbVars, gatewayVars, None
<1>1. CASE SweepReads(a)
  <2>1. TypeOK' /\ PurgedIsExpired' /\ BillIsTrue'
    BY <1>1 DEF SweepReads, SettlementInv, TypeOK, PurgedIsExpired, BillIsTrue, Computed
  <2>2. SettlesFacts'
    BY <1>1 DEF SweepReads, SettlementInv, SettlesFacts, Computed
  <2> QED BY <2>1, <2>2 DEF SettlementInv
<1>2. CASE SweepWrites
  <2>1. /\ settling \in Attempts /\ settling \in batch /\ sweepRead \in {"false", "true"}
        /\ sweepRead = "true" => delivery[settling] = "yes"
        /\ state[settling] \in BILLABLE_STATES /\ age[settling] # "expired"
    BY <1>2 DEF SweepWrites, SettlementInv, TypeOK, SettlesFacts, PurgedIsExpired
  <2> QED BY <1>2, <2>1, SettleKeepsInv DEF SweepWrites, SettlementInv, TypeOK
<1>3. CASE SweepRaises(a)
  <2>1. TypeOK' /\ PurgedIsExpired' /\ BillIsTrue'
    BY <1>3 DEF SweepRaises, SettlementInv, TypeOK, PurgedIsExpired, BillIsTrue
  <2>2. SettlesFacts'
    BY <1>3 DEF SweepRaises, SettlementInv, SettlesFacts
  <2> QED BY <2>1, <2>2 DEF SettlementInv
<1>4. CASE SweepReconciles(a)
  <2>1. /\ \A b \in Attempts : usage'[b] = "none" <=> usage[b] = "none"
        /\ \A b \in Attempts : usage'[b] = "true" => usage[b] = "true" \/ delivery[b] = "yes"
        /\ usage' \in [Attempts -> {"none", "false", "true"}]
    BY <1>4 DEF SweepReconciles, SettlementInv, TypeOK, Reconciled
  <2>2. TypeOK' /\ PurgedIsExpired'
    BY <1>4, <2>1 DEF SweepReconciles, SettlementInv, TypeOK, PurgedIsExpired
  <2>3. SettlesFacts' /\ BillIsTrue'
    BY <1>4, <2>1 DEF SweepReconciles, SettlementInv, SettlesFacts, BillIsTrue
  <2> QED BY <2>2, <2>3 DEF SettlementInv
<1>5. CASE SweeperRestarts
  BY <1>5 DEF SweeperRestarts, SettlementInv, TypeOK, PurgedIsExpired, SettlesFacts, BillIsTrue
<1> QED BY <1>1, <1>2, <1>3, <1>4, <1>5

\* Every step keeps the invariant.
LEMMA NextSettlement == SettlementInv /\ [Next]_vars => SettlementInv'
<1> SUFFICES ASSUME SettlementInv, [Next]_vars PROVE SettlementInv'
  OBVIOUS
<1>1. CASE UNCHANGED vars
  BY <1>1 DEF vars, dbVars, gatewayVars, sweepVars, SettlementInv, TypeOK, PurgedIsExpired,
              SettlesFacts, BillIsTrue
<1>2. CASE SweepWrites \/ SweeperRestarts
  <2>1. CASE Attempts = {}
    BY <1>2, <2>1 DEF SweepWrites, SweeperRestarts, SettlementInv, TypeOK, PurgedIsExpired,
                      SettlesFacts, BillIsTrue, dbVars, gatewayVars
  <2>2. CASE Attempts # {}
    BY <1>2, <2>2, SweepKeepsInv
  <2> QED BY <2>1, <2>2
<1> QED BY <1>1, <1>2, WorldKeepsInv, GatewayKeepsInv, StartKeepsInv, SweepKeepsInv DEF Next

-----------------------------------------------------------------------------
(* The theorems.                                                           *)

\* The invariant of an attempt's usage: a bill is true, settlements under way
\* hold facts that are still true, and a row is only missing again where no
\* writer looks any more.
THEOREM SettlementInvariant == Spec => []SettlementInv
BY InitSettlement, NextSettlement, PTL DEF Spec

\* The gateway, the sweeper and retention together bill an attempt at most
\* once, for any number of attempts, restarts and failing calls.
THEOREM AttemptBilledOnce == Spec => []BilledOnce
<1>1. SettlementInv => BilledOnce
  BY DEF SettlementInv, TypeOK, PurgedIsExpired, BilledOnce
<1> QED BY <1>1, SettlementInvariant, PTL

\* A usage row that says the client received everything is never turned back
\* by a settlement that read its facts earlier.
THEOREM BilledCompletionStays == Spec => CompletedStays
<1> DEFINE A == \A a \in Attempts : usage[a] = "true" => usage'[a] = "true" \/ age[a] = "expired"
<1>1. SettlementInv /\ [Next]_vars => [A]_vars
  <2> SUFFICES ASSUME SettlementInv, Next, NEW b \in Attempts, usage[b] = "true", age[b] # "expired"
               PROVE  usage'[b] = "true"
    OBVIOUS
  <2>1. ASSUME NEW a \in Attempts, NEW completed, Write(a, completed) PROVE usage'[b] = "true"
    BY <2>1 DEF Write, Reconciled, SettlementInv, TypeOK
  <2>2. ASSUME NEW a \in Attempts, Purge(a) \/ SweepReconciles(a) PROVE usage'[b] = "true"
    BY <2>2 DEF Purge, SweepReconciles, Reconciled, SettlementInv, TypeOK
  <2>3. CASE SweepWrites
    BY <2>1, <2>3 DEF SweepWrites, SettlementInv, TypeOK
  <2>4. ASSUME NEW a \in Attempts,
               \/ \E s \in {"completed", "failed", "cancelled_unsent"} : Finish(a, s)
               \/ Age(a) \/ MarkDelivery(a) \/ GatewayReads(a) \/ GatewayDies(a)
               \/ SweepReads(a) \/ SweepRaises(a)
        PROVE  usage'[b] = "true"
    BY <2>4 DEF Finish, Age, MarkDelivery, GatewayReads, GatewayDies, SweepReads, SweepRaises, dbVars
  <2>5. CASE SweepStart \/ SweeperRestarts
    BY <2>5 DEF SweepStart, SweeperRestarts, dbVars
  <2> QED BY <2>1, <2>2, <2>3, <2>4, <2>5 DEF Next, GatewayWrites
<1> QED BY <1>1, SettlementInvariant, PTL DEF Spec, CompletedStays
=============================================================================
