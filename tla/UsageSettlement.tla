--------------------------- MODULE UsageSettlement ---------------------------
(***************************************************************************)
(* The one usage row of an attempt and everything that writes it           *)
(* (repositories/usage_settlement.py): the gateway's finalizer, the admin  *)
(* sweeper for what nobody settled, the reconciliation of the delivery     *)
(* flag, and the retention purge that removes old rows but never the       *)
(* attempts.                                                               *)
(*                                                                         *)
(* The age of an attempt is what the horizon of the sweep and the floor of *)
(* retention tell apart.  A settlement reads the attempt's facts in one    *)
(* statement and inserts and reconciles in later ones, so other writers    *)
(* may come between.                                                       *)
(***************************************************************************)
EXTENDS Naturals, FiniteSets

CONSTANTS
  Attempts,      \* numbered in the order of created_at
  Poisoned,      \* attempts whose facts make settlement raise every time
  Limit,         \* attempts per batch of a sweep
  MaxRestarts,   \* restarts of the admin process
  Faults         \* whether a settlement may also raise on a database error

ASSUME SettlementAssumption ==
  /\ Attempts \subseteq Nat \ {0} /\ IsFiniteSet(Attempts) /\ Poisoned \subseteq Attempts
  /\ Limit \in Nat \ {0} /\ MaxRestarts \in Nat /\ Faults \in BOOLEAN

VARIABLES
  \* PostgreSQL
  state,      \* the operation's recorded state
  delivery,   \* request_attempts.client_delivery_complete
  usage,      \* the usage row's `completed`, or none
  inserts,    \* how often a usage row was inserted for the attempt
  age,        \* fresh, past the sweep horizon, or past the retention floor
  \* the gateway
  handler,    \* where the handler of each attempt stands
  read,       \* the row's `completed` as its settlement computed it
  \* the sweeper
  batch,      \* attempts of this sweep still to settle
  late,       \* attempts of this sweep still to reconcile
  settling,   \* the attempt being settled, or None
  sweepRead,  \* the row's `completed` as that settlement computed it
  failing,    \* attempts whose settlement raised (in memory)
  restarts

dbVars == <<state, delivery, usage, inserts, age>>
gatewayVars == <<handler, read>>
sweepVars == <<batch, late, settling, sweepRead, failing, restarts>>
vars == <<dbVars, gatewayVars, sweepVars>>

BILLABLE_STATES == {"completed", "failed"}
None == 0

Init ==
  /\ state = [a \in Attempts |-> "open"]
  /\ delivery = [a \in Attempts |-> "null"]
  /\ usage = [a \in Attempts |-> "none"]
  /\ inserts = [a \in Attempts |-> 0]
  /\ age = [a \in Attempts |-> "fresh"]
  /\ handler = [a \in Attempts |-> "streaming"]
  /\ read = [a \in Attempts |-> "false"]
  /\ batch = {} /\ late = {} /\ settling = None /\ sweepRead = "false" /\ failing = {} /\ restarts = 0

-----------------------------------------------------------------------------
(* One settlement, whoever runs it.                                        *)

\* settle_usage: `completed` as the facts read now say it.
Computed(a) == IF delivery[a] = "yes" THEN "true" ELSE "false"

\* Mutant: NULL counts as received.
ReconciledUnlessLost(a, row) == IF row = "false" /\ delivery[a] # "no" THEN "true" ELSE row

\* _RECONCILE: false to true, on the attempt's own delivery evidence.
Reconciled(a, row) == IF row = "false" /\ delivery[a] = "yes" THEN "true" ELSE row

\* _INSERT ... ON CONFLICT DO NOTHING, then _RECONCILE, in one transaction.
Write(a, completed) ==
  /\ usage' = [usage EXCEPT ![a] = Reconciled(a, IF @ = "none" THEN completed ELSE @)]
  /\ inserts' = [inserts EXCEPT ![a] = IF usage[a] = "none" THEN @ + 1 ELSE @]
  /\ UNCHANGED <<state, delivery, age>>

-----------------------------------------------------------------------------
(* The node and the clock.                                                 *)

\* The agent commits what became of the operation.
Finish(a, s) ==
  /\ state[a] = "open"
  /\ state' = [state EXCEPT ![a] = s]
  /\ UNCHANGED <<delivery, usage, inserts, age, gatewayVars, sweepVars>>

\* Days pass.  No stream and no settlement of a batch outlasts the day between
\* the horizon and the floor.
Age(a) ==
  /\ \/ age[a] = "fresh" /\ age' = [age EXCEPT ![a] = "aged"]
     \/ /\ age[a] = "aged" /\ handler[a] = "over" /\ a \notin batch
        /\ age' = [age EXCEPT ![a] = "expired"]
  /\ UNCHANGED <<state, delivery, usage, inserts, gatewayVars, sweepVars>>

\* Retention, scheduled or by hand: never inside the floor.
Purge(a) ==
  /\ age[a] = "expired" /\ usage[a] # "none"
  /\ usage' = [usage EXCEPT ![a] = "none"]
  /\ UNCHANGED <<state, delivery, inserts, age, gatewayVars, sweepVars>>

-----------------------------------------------------------------------------
(* The gateway's finalizer, _settle_attempt.                               *)

\* The stream ends and mark_delivery commits: complete only after the terminal
\* event of a completed attempt was passed on, otherwise at any time.  Only a
\* first observation is kept.
MarkDelivery(a) ==
  /\ handler[a] = "streaming"
  /\ \E seen \in {"yes", "no"} :
       /\ seen = "yes" => state[a] = "completed"
       /\ delivery' = [delivery EXCEPT ![a] = IF @ = "null" THEN seen ELSE @]
  /\ handler' = [handler EXCEPT ![a] = "marked"]
  /\ UNCHANGED <<state, usage, inserts, age, read, sweepVars>>

\* settle's facts: an attempt that is not terminal is left to the sweeper.
GatewayReads(a) ==
  /\ handler[a] = "marked"
  /\ IF state[a] \in BILLABLE_STATES /\ a \notin Poisoned
     THEN /\ handler' = [handler EXCEPT ![a] = "settling"]
          /\ read' = [read EXCEPT ![a] = Computed(a)]
     ELSE handler' = [handler EXCEPT ![a] = "over"] /\ UNCHANGED read
  /\ UNCHANGED <<dbVars, sweepVars>>

GatewayWrites(a) ==
  /\ handler[a] = "settling"
  /\ Write(a, read[a])
  /\ handler' = [handler EXCEPT ![a] = "over"]
  /\ UNCHANGED <<read, sweepVars>>

\* The gateway dies, or a database call of its finalizer fails.
GatewayDies(a) ==
  /\ handler[a] # "over"
  /\ handler' = [handler EXCEPT ![a] = "over"]
  /\ UNCHANGED <<dbVars, read, sweepVars>>

-----------------------------------------------------------------------------
(* The sweeper.                                                            *)

\* Mutant: attempts past the horizon are candidates too.
PendingAnyAge == {a \in Attempts : state[a] \in BILLABLE_STATES /\ usage[a] = "none"}

Pending ==
  {a \in Attempts : state[a] \in BILLABLE_STATES /\ age[a] = "fresh" /\ usage[a] = "none"}

\* Mutant: by created_at alone.
PrecedesByAge(a, b) == a < b

\* ORDER BY op_id = ANY(:failing), created_at.
Precedes(a, b) == IF a \in failing <=> b \in failing THEN a < b ELSE b \in failing

\* Settled before its delivery was committed.
Late == {a \in Attempts : usage[a] = "false" /\ delivery[a] = "yes"}

\* _candidates: the first pending ones, and late ones in no order.
SweepStart ==
  /\ batch = {} /\ late = {}
  /\ batch' = {a \in Pending : Cardinality({b \in Pending : Precedes(b, a)}) < Limit}
  /\ \E L \in SUBSET Late :
       /\ Cardinality(L) <= Limit /\ (Cardinality(L) < Limit => L = Late)
       /\ late' = L
  /\ batch' \cup late' # {}
  /\ UNCHANGED <<dbVars, gatewayVars, settling, sweepRead, failing, restarts>>

\* The next of the batch: its facts are read.
SweepReads(a) ==
  /\ settling = None /\ a \in batch /\ \A b \in batch \ {a} : Precedes(a, b)
  /\ a \notin Poisoned
  /\ settling' = a /\ sweepRead' = Computed(a)
  /\ UNCHANGED <<dbVars, gatewayVars, batch, late, failing, restarts>>

SweepWrites ==
  /\ settling # None
  /\ Write(settling, sweepRead)
  /\ batch' = batch \ {settling} /\ failing' = failing \ {settling} /\ settling' = None
  /\ UNCHANGED <<gatewayVars, late, sweepRead, restarts>>

\* It raises: passed over, and ordered last by the next sweep.
SweepRaises(a) ==
  /\ a \in batch
  /\ \/ settling = None /\ a \in Poisoned /\ \A b \in batch \ {a} : Precedes(a, b)
     \/ Faults /\ settling = a
  /\ batch' = batch \ {a} /\ failing' = failing \cup {a} /\ settling' = None
  /\ UNCHANGED <<dbVars, gatewayVars, late, sweepRead, restarts>>

\* Late rows, after the batch; a failure passes one over.
SweepReconciles(a) ==
  /\ batch = {} /\ a \in late
  /\ late' = late \ {a}
  /\ \/ usage' = [usage EXCEPT ![a] = Reconciled(a, @)]
     \/ Faults /\ UNCHANGED usage
  /\ UNCHANGED <<state, delivery, inserts, age, gatewayVars, batch, settling, sweepRead, failing, restarts>>

\* The admin process is replaced; what raised before is forgotten.
SweeperRestarts ==
  /\ restarts < MaxRestarts
  /\ restarts' = restarts + 1
  /\ batch' = {} /\ late' = {} /\ settling' = None /\ failing' = {}
  /\ UNCHANGED <<dbVars, gatewayVars, sweepRead>>

-----------------------------------------------------------------------------

Next ==
  \/ \E a \in Attempts :
       \/ \E s \in {"completed", "failed", "cancelled_unsent"} : Finish(a, s)
       \/ Age(a) \/ Purge(a)
       \/ MarkDelivery(a) \/ GatewayReads(a) \/ GatewayWrites(a) \/ GatewayDies(a)
       \/ SweepReads(a) \/ SweepRaises(a) \/ SweepReconciles(a)
  \/ SweepStart \/ SweepWrites \/ SweeperRestarts

Spec == Init /\ [][Next]_vars

\* The sweeper's loop never ends; nothing is assumed of gateways, nodes or time.
Sweeps ==
  \/ SweepStart \/ SweepWrites
  \/ \E a \in Attempts : SweepReads(a) \/ SweepRaises(a) \/ SweepReconciles(a)

-----------------------------------------------------------------------------
(* Correctness.                                                            *)

TypeOK ==
  /\ state \in [Attempts -> {"open", "completed", "failed", "cancelled_unsent"}]
  /\ delivery \in [Attempts -> {"null", "yes", "no"}]
  /\ usage \in [Attempts -> {"none", "false", "true"}]
  /\ inserts \in [Attempts -> Nat]
  /\ age \in [Attempts -> {"fresh", "aged", "expired"}]
  /\ handler \in [Attempts -> {"streaming", "marked", "settling", "over"}]
  /\ read \in [Attempts -> {"false", "true"}]
  /\ batch \subseteq Attempts /\ late \subseteq Attempts /\ failing \subseteq Attempts
  /\ settling \in Attempts \cup {None} /\ sweepRead \in {"false", "true"}
  /\ restarts \in Nat

\* "Exactly once": gateway, sweeper and reconciliation together bill an attempt
\* at most once, and a row that retention removed is never billed again.
BilledOnce == \A a \in Attempts : inserts[a] <= 1

\* A row is a bill for an attempt that ran or may have run, and says completed
\* only of one the runtime completed and the client wholly received.
BillIsTrue ==
  \A a \in Attempts :
    /\ usage[a] # "none" => state[a] \in BILLABLE_STATES
    /\ usage[a] = "true" => state[a] = "completed" /\ delivery[a] = "yes"

\* A billable attempt whose facts can be settled is billed while the sweep still
\* sees it, whatever the gateway did and however many others raise each time.
EverySettled ==
  \A a \in Attempts \ Poisoned :
    (state[a] \in BILLABLE_STATES /\ age[a] = "fresh") ~> (inserts[a] > 0 \/ age[a] # "fresh")

\* A row written before its delivery was committed comes to say completed,
\* unless retention removed it first.
DeliveryReconciled ==
  \A a \in Attempts : (usage[a] = "false" /\ delivery[a] = "yes") ~> (usage[a] # "false")

\* What is once recorded as received stays recorded, until retention.
CompletedStays ==
  [][\A a \in Attempts : usage[a] = "true" => usage'[a] = "true" \/ age[a] = "expired"]_vars

-----------------------------------------------------------------------------
(* What makes them inductive.                                              *)

\* An attempt without a row that had one is past the floor, where nobody
\* settles it any more.
PurgedIsExpired ==
  \A a \in Attempts :
    /\ usage[a] # "none" => inserts[a] = 1
    /\ usage[a] = "none" /\ age[a] # "expired" => inserts[a] = 0
    /\ age[a] = "expired" => inserts[a] <= 1 /\ handler[a] = "over" /\ a \notin batch

\* Settlements under way hold billable facts that are still true.
SettlesFacts ==
  /\ \A a \in Attempts :
       /\ handler[a] = "settling" \/ a \in batch => state[a] \in BILLABLE_STATES
       /\ handler[a] = "settling" /\ read[a] = "true" => delivery[a] = "yes"
       /\ delivery[a] = "yes" => state[a] = "completed"
  /\ settling # None => settling \in batch /\ (sweepRead = "true" => delivery[settling] = "yes")

\* The inductive invariant of an attempt's usage.
SettlementInv == TypeOK /\ PurgedIsExpired /\ SettlesFacts /\ BillIsTrue
=============================================================================
