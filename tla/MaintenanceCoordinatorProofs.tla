--------------------- MODULE MaintenanceCoordinatorProofs ---------------------
(***************************************************************************)
(* Proofs about MaintenanceCoordinator, for every number of coordinators,   *)
(* nodes, models, entries and faults: its type invariant, EntryReleased,    *)
(* SnapshotIsOriginal, RestartedOnce and RestoreWhole.                      *)
(*                                                                         *)
(* The argument: a coordinator that still owns a running operation works on *)
(* the rows as they are (OwnCopy) under the hold they belong to             *)
(* (UnderHold), because whoever takes the operation over, retries it or     *)
(* lifts the hold takes its ownership away first.  One that lost it only    *)
(* holds an older copy (Copies), and what an older copy can still make it   *)
(* call is harmless: a reset under an id whose answer is already on file,   *)
(* a load of a model the snapshot has anyway (Receipts).                    *)
(***************************************************************************)
EXTENDS MaintenanceCoordinator, FiniteSetTheorems, TLAPS

EntryOp(e) == <<"enter", e>>
RestoreOp(e) == <<"restore", e>>

LoadCap == NumModels * (1 + RepairRounds)
Statuses == {"none", "running", "failed", "succeeded", "abandoned"}
EntryPhases == {"pending", "interrupted", "snapshotted", "reset", "verified"}
Places == {"idle", "claimed", "start", "call", "send", "said", "answered", "ended", "closing",
           "checked"}
Row == [phase : Phases, status : {"running", "failed", "done"}, attempts : 0 .. MaxAttempts,
        snapshot : (SUBSET Models) \cup {NoSnapshot, Unobserved}, resetId : Nat,
        accounting : {"none", "resolved", "unresolved"}, loads : 0 .. LoadCap,
        open : 0 .. NumModels, probed : SUBSET Models]
Words == {"error", "quiescent", "saw", "resolved", "unresolved", "not_quiescent",
          "restart_failed", "completed", "failed"}
Call == [kind : {"reset", "load"}, epoch : Epochs, id : Nat, model : 0 .. NumModels]

-----------------------------------------------------------------------------
(* The inductive invariant.                                                *)

TypesDb ==
  /\ closed \in BOOLEAN /\ epoch \in 0 .. MaxEpoch /\ (closed => epoch # 0)
  /\ asked \in Operations \cup {NoOp}
  /\ status \in [Operations -> Statuses]
  /\ owner \in [Operations -> Coordinators \cup {NoOne}] /\ leased \in [Operations -> BOOLEAN]
  /\ step \in [Operations -> [Nodes -> Row]]
  /\ \A o \in Operations, n \in Nodes :
       /\ step[o][n].resetId <= nextId
       /\ step[o][n].status = "running" => step[o][n].attempts < MaxAttempts

TypesNodes ==
  /\ resident \in [Nodes -> SUBSET Models] /\ quiet \in [Nodes -> 0 .. MaxEpoch]
  /\ applied \in [Nodes -> SUBSET Call] /\ refused \in [Nodes -> SUBSET Call]
  /\ late \in [Nodes -> SUBSET Call]
  /\ nextId \in Nat /\ faults \in 0 .. MaxFaults
  /\ held \in [Epochs -> [Nodes -> (SUBSET Models) \cup {NoSnapshot}]] /\ lapsed \subseteq Nodes

TypesCoord ==
  /\ pass \in [Coordinators -> Operations \cup {NoOp, Dead}]
  /\ mem \in [Coordinators -> [Nodes -> Row]]
  /\ at \in [Coordinators -> [Nodes -> Places]]
  /\ got \in [Coordinators -> [Nodes -> [says : Words, seen : SUBSET Models]]]
  /\ unchecked \in [Coordinators -> SUBSET Nodes]

Types == TypesDb /\ TypesNodes /\ TypesCoord

\* An operation that is not recorded has no owner and no rows of its own.
Unrecorded ==
  /\ \A o \in Operations : status[o] = "none" => owner[o] = NoOne
  /\ \A o \in Operations : o[2] > epoch => status[o] = "none"
  /\ \A e \in Epochs : status[EntryOp(e)] = "none"
       => /\ step[EntryOp(e)] = [n \in Nodes |-> NewStep(NoSnapshot)]
          /\ \A n \in Nodes : held[e][n] = NoSnapshot
  /\ \A c \in Coordinators : pass[c] \in Operations => status[pass[c]] # "none"

\* A restore follows an entry that succeeded, whose snapshots it took over.
Restorable(e) ==
  /\ status[EntryOp(e)] = "succeeded"
  /\ \A n \in Nodes : step[EntryOp(e)][n].snapshot \subseteq Models

RestoreFollows ==
  \A e \in Epochs :
    /\ status[EntryOp(e)] = "succeeded" => \A n \in Nodes : step[EntryOp(e)][n].status = "done"
    /\ asked = RestoreOp(e) => Restorable(e) /\ e <= epoch
    /\ status[RestoreOp(e)] # "none" =>
         /\ Restorable(e)
         /\ \A n \in Nodes :
              /\ step[RestoreOp(e)][n].snapshot = step[EntryOp(e)][n].snapshot
              /\ step[RestoreOp(e)][n].probed \subseteq step[RestoreOp(e)][n].snapshot

Owns(c) == pass[c] \in Operations /\ Fenced(c, pass[c])

OwnCopy == \A c \in Coordinators : Owns(c) => mem[c] = step[pass[c]]

UnderHold ==
  \A c \in Coordinators, n \in Nodes :
    Owns(c) /\ (at[c][n] # "claimed" \/ unchecked[c] # {}) => Held(pass[c][2])

\* What a row of an entry says of the node.
EntryRow(e, n, r) ==
  /\ r.phase \in EntryPhases
  /\ r.status = "done" <=> r.phase = "verified"
  /\ r.phase # "pending" => held[e][n] # NoSnapshot
  /\ r.phase \in {"snapshotted", "reset", "verified"} => r.snapshot # NoSnapshot
  /\ r.snapshot \subseteq Models => r.snapshot = held[e][n]
  /\ Held(e) /\ r.phase \in {"reset", "verified"} => WasReset(n, e) /\ quiet[n] = e
  /\ Held(e) /\ r.phase = "verified" /\ status[RestoreOp(e)] = "none" => resident[n] = {}
  /\ Held(e) /\ r.snapshot = NoSnapshot /\ held[e][n] # NoSnapshot
       => quiet[n] = e /\ resident[n] = held[e][n]

EntryRows == \A e \in Epochs, n \in Nodes : EntryRow(e, n, step[EntryOp(e)][n])

\* The resets of a node and an epoch that may still empty its runtime have one
\* id, its row's.
KnownReset(n, e, id) ==
  ResetCall(e, id) \in refused[n] \/ id = step[EntryOp(e)][n].resetId

Expected(n, call) ==
  /\ call.kind = "reset" =>
       /\ call = ResetCall(call.epoch, call.id) /\ call.id # 0
       /\ step[EntryOp(call.epoch)][n].snapshot # NoSnapshot
       /\ KnownReset(n, call.epoch, call.id)
  /\ call.kind = "load" =>
       /\ status[RestoreOp(call.epoch)] # "none"
       /\ call.model \in step[RestoreOp(call.epoch)][n].snapshot

Receipts ==
  \A n \in Nodes :
    /\ applied[n] \cap refused[n] = {}
    /\ \A call \in applied[n] \cup late[n] : Expected(n, call)

\* What a copy still has in common with its row.
CopyOfEntry(e, n, s) ==
  /\ s.phase \in EntryPhases
  /\ s.snapshot # NoSnapshot => step[EntryOp(e)][n].snapshot = s.snapshot
  /\ s.phase \in {"snapshotted", "reset", "verified"} => s.snapshot # NoSnapshot
  /\ s.resetId # 0 => KnownReset(n, e, s.resetId)

CopyOfRestore(e, n, s, where) ==
  /\ s.snapshot = step[RestoreOp(e)][n].snapshot /\ s.probed \subseteq s.snapshot
  /\ where = "send" => s.phase = "pending" /\ s.open \in s.snapshot
  /\ where = "said" /\ s.phase = "loaded" => s.probed # s.snapshot
  /\ where = "answered" => s.phase \in {"pending", "loaded", "probed"}

Copies ==
  \A c \in Coordinators, n \in Nodes, e \in Epochs :
    /\ pass[c] = EntryOp(e) => CopyOfEntry(e, n, mem[c][n])
    /\ pass[c] = RestoreOp(e) => CopyOfRestore(e, n, mem[c][n], at[c][n])

\* What an answer not yet written down says of the node.
Told(c, n, e) ==
  LET s == mem[c][n]  a == got[c][n].says  seen == got[c][n].seen IN
  /\ s.phase # "verified"
  /\ a = "quiescent" => held[e][n] # NoSnapshot
  /\ a \in {"resolved", "unresolved"} /\ Held(e) => WasReset(n, e) /\ quiet[n] = e
  /\ a = "restart_failed" => ResetCall(e, s.resetId) \in refused[n]
  /\ a = "saw" /\ s.phase = "interrupted" /\ Owns(c) => seen = held[e][n]
  /\ a = "saw" /\ s.phase = "reset" /\ seen = {} /\ Owns(c) => resident[n] = {}

Answers ==
  \A c \in Coordinators, n \in Nodes, e \in Epochs :
    pass[c] = EntryOp(e) /\ at[c][n] = "answered" => Told(c, n, e)

\* The closing look at a node that a restore reopens on.
Looks ==
  \A c \in Coordinators :
    /\ unchecked[c] # {} => pass[c] \in Operations /\ pass[c][1] = "restore"
    /\ \A n \in Nodes : at[c][n] \in {"closing", "checked"} =>
         pass[c] \in Operations /\ pass[c][1] = "restore"
    /\ \A n \in Nodes : at[c][n] = "checked" /\ Held(pass[c][2]) =>
         n \in lapsed \/ resident[n] = mem[c][n].snapshot

Inv ==
  /\ Types /\ Unrecorded /\ RestoreFollows /\ OwnCopy /\ UnderHold /\ EntryRows /\ Receipts
  /\ Copies /\ Answers /\ Looks

-----------------------------------------------------------------------------
(* Facts about the definitions.                                            *)

\* The next model to load or to probe is one of those left.
LEMMA MaxOfModels ==
  ASSUME BoundAssumption, NEW S \in SUBSET Models, S # {}
  PROVE  Max(S) \in S
<1> DEFINE Above(x) == {y \in S : y > x}
           T == {Above(x) : x \in S}
           R == StrictSubsetOrdering(Models)
           F == FiniteSubsetsOf(Models)
<1>1. S \subseteq Models /\ Models \subseteq Int /\ IsFiniteSet(Models)
  BY FS_Interval DEF Models, BoundAssumption
<1>2. IsWellFoundedOn(R, F)  BY FS_StrictSubsetOrderingWellFounded
<1>3. F = SUBSET Models  BY <1>1, FS_FiniteSubsetsOfFinite
<1>4. T \subseteq F /\ T # {}
  <2>1. \A x \in S : Above(x) \in SUBSET Models  BY <1>1
  <2> HIDE DEF Above, F
  <2> QED  BY <2>1, <1>3
<1>5. PICK t \in T : \A u \in T : ~(<<u, t>> \in R)
  <2> HIDE DEF T, R, F
  <2> QED  BY <1>2, <1>4, WFMin, ZenonT(60)
<1>6. PICK x \in S : t = Above(x)  BY <1>5
<1>7. \A y \in S : x >= y
  <2> SUFFICES ASSUME NEW y \in S, ~(x >= y)  PROVE FALSE
    OBVIOUS
  <2>1. x \in Int /\ y \in Int /\ y > x  BY <1>1
  <2>2. \A z \in S : z \in Int  BY <1>1
  <2>3. Above(y) \subseteq Above(x)
    <3> SUFFICES ASSUME NEW z \in S, z > y  PROVE z > x
      OBVIOUS
    <3> QED  BY <2>1, <2>2
  <2>4. y \in Above(x) /\ y \notin Above(y)  BY <2>1
  <2>5. Above(y) \in F /\ Above(x) \in F  BY <1>1, <1>3
  <2>6. <<Above(y), Above(x)>> \in R
    <3>1. Above(y) \in SUBSET Models /\ Above(x) \in SUBSET Models  BY <2>5, <1>3
    <3> HIDE DEF Above
    <3> QED  BY <2>3, <2>4, <3>1 DEF StrictSubsetOrdering
  <2>7. Above(y) \in T  OBVIOUS
  <2> HIDE DEF Above, T, R
  <2> QED  BY <1>5, <1>6, <2>6, <2>7
<1> QED  BY <1>6, <1>7 DEF Max

\* The kinds and epochs an operation is made of.
LEMMA OperationForm ==
  ASSUME NEW o \in Operations
  PROVE  /\ o = EntryOp(o[2]) \/ o = RestoreOp(o[2])
         /\ o[2] \in Epochs /\ o[1] \in Kinds /\ o # NoOp /\ o # Dead
BY DEF Operations, Kinds, EntryOp, RestoreOp, NoOp, Dead

LEMMA OperationsOf ==
  ASSUME NEW e \in Epochs
  PROVE  /\ EntryOp(e) \in Operations /\ RestoreOp(e) \in Operations
         /\ EntryOp(e)[1] = "enter" /\ RestoreOp(e)[1] = "restore"
         /\ EntryOp(e)[2] = e /\ RestoreOp(e)[2] = e /\ EntryOp(e) # RestoreOp(e)
         /\ \A f \in Epochs : EntryOp(f) # RestoreOp(e)
         /\ \A f \in Epochs : EntryOp(f) = EntryOp(e) => f = e
         /\ \A f \in Epochs : RestoreOp(f) = RestoreOp(e) => f = e
BY DEF Operations, Kinds, EntryOp, RestoreOp

\* An entry's first row.
LEMMA NewStepIsRow ==
  ASSUME BoundAssumption, NEW snapshot \in (SUBSET Models) \cup {NoSnapshot, Unobserved}
  PROVE  /\ NewStep(snapshot) \in Row
         /\ NewStep(snapshot).phase = "pending" /\ NewStep(snapshot).status = "running"
         /\ NewStep(snapshot).attempts = 0 /\ NewStep(snapshot).resetId = 0
         /\ NewStep(snapshot).snapshot = snapshot /\ NewStep(snapshot).probed = {}
<1>1. NumModels \in Nat /\ RepairRounds \in Nat /\ MaxAttempts \in Nat \ {0}
      /\ LoadCap \in Nat
  BY DEF BoundAssumption, LoadCap
<1> QED  BY <1>1 DEF NewStep, Row, Phases

LEMMA Distinct ==
  ASSUME BoundAssumption
  PROVE  /\ ~(NoSnapshot \subseteq Models) /\ ~(Unobserved \subseteq Models)
         /\ NoSnapshot # Unobserved /\ NoSnapshot \notin SUBSET Models
<1>1. 0 \notin Models /\ -1 \notin Models  BY DEF Models, BoundAssumption
<1>2. 0 \in NoSnapshot /\ -1 \in Unobserved /\ 0 \notin Unobserved  BY DEF NoSnapshot, Unobserved
<1> QED  BY <1>1, <1>2

-----------------------------------------------------------------------------
(* The initial states.                                                     *)

LEMMA InitInv ==
  ASSUME BoundAssumption, Init
  PROVE  Inv
<1>0. /\ NumModels \in Nat /\ MaxEpoch \in Nat /\ MaxFaults \in Nat /\ MaxAttempts \in Nat \ {0}
      /\ NoOne \notin Coordinators
  BY DEF BoundAssumption
<1>1. \A snapshot \in {NoSnapshot} : NewStep(snapshot) \in Row
  BY NewStepIsRow
<1>2. /\ NewStep(NoSnapshot) \in Row /\ NewStep(NoSnapshot).phase = "pending"
      /\ NewStep(NoSnapshot).status = "running" /\ NewStep(NoSnapshot).attempts = 0
      /\ NewStep(NoSnapshot).resetId = 0 /\ NewStep(NoSnapshot).snapshot = NoSnapshot
  BY NewStepIsRow
<1>3. \A o \in Operations, n \in Nodes : step[o][n] = NewStep(NoSnapshot)
  BY DEF Init
<1>4. \A c \in Coordinators : pass[c] = NoOp /\ NoOp \notin Operations
  BY DEF NoOp, Operations, Kinds, Init
<1>5. TypesDb
  <2>1. closed \in BOOLEAN /\ epoch \in 0 .. MaxEpoch /\ (closed => epoch # 0)
        /\ asked \in Operations \cup {NoOp}
    <3>1. closed = FALSE /\ epoch = 0 /\ asked = NoOp  BY DEF Init
    <3>2. epoch \in 0 .. MaxEpoch  BY <3>1, <1>0
    <3>3. closed \in BOOLEAN /\ (closed => epoch # 0)  BY <3>1
    <3>4. asked \in Operations \cup {NoOp}  BY <3>1
    <3> QED  BY <3>2, <3>3, <3>4
  <2>2. status \in [Operations -> Statuses] /\ leased \in [Operations -> BOOLEAN]
        /\ owner \in [Operations -> Coordinators \cup {NoOne}]
    <3>1. "none" \in Statuses  BY DEF Statuses
    <3>2. status \in [Operations -> Statuses]  BY <3>1 DEF Init
    <3>3. leased \in [Operations -> BOOLEAN]  BY DEF Init
    <3>4. owner \in [Operations -> Coordinators \cup {NoOne}]  BY DEF Init
    <3> QED  BY <3>2, <3>3, <3>4
  <2>3. step \in [Operations -> [Nodes -> Row]]  BY <1>2 DEF Init
  <2>4. \A o \in Operations, n \in Nodes :
          /\ step[o][n].resetId <= nextId
          /\ step[o][n].status = "running" => step[o][n].attempts < MaxAttempts
    <3> SUFFICES ASSUME NEW o \in Operations, NEW n \in Nodes
                 PROVE  step[o][n].resetId <= nextId /\ step[o][n].attempts < MaxAttempts
      OBVIOUS
    <3>1. nextId = 0  BY DEF Init
    <3> QED  BY <1>0, <1>2, <1>3, <3>1
  <2> QED  BY <2>1, <2>2, <2>3, <2>4 DEF TypesDb
<1>6. TypesNodes
  BY <1>0 DEF TypesNodes, Init
<1>7. TypesCoord
  <2>1. NoAnswer \in [says : Words, seen : SUBSET Models]
    BY DEF NoAnswer, Says, Words
  <2>2. pass \in [Coordinators -> Operations \cup {NoOp, Dead}] /\ unchecked \in [Coordinators -> SUBSET Nodes]
    BY DEF Init
  <2>3. mem \in [Coordinators -> [Nodes -> Row]]  BY <1>2 DEF Init
  <2>4. at \in [Coordinators -> [Nodes -> Places]]  BY DEF Init, Places
  <2>5. got \in [Coordinators -> [Nodes -> [says : Words, seen : SUBSET Models]]]
    <3> HIDE DEF NoAnswer
    <3> QED  BY <2>1 DEF Init
  <2> QED  BY <2>2, <2>3, <2>4, <2>5 DEF TypesCoord
<1>8. Unrecorded
  <2>1. \A o \in Operations : status[o] = "none" /\ owner[o] = NoOne  BY DEF Init
  <2>2. \A e \in Epochs : step[EntryOp(e)] = [n \in Nodes |-> NewStep(NoSnapshot)]
    BY OperationsOf DEF Init
  <2>3. \A e \in Epochs, n \in Nodes : held[e][n] = NoSnapshot  BY DEF Init
  <2> QED  BY <1>4, <2>1, <2>2, <2>3 DEF Unrecorded
<1>9. RestoreFollows
  <2> SUFFICES ASSUME NEW e \in Epochs
               PROVE  /\ status[EntryOp(e)] # "succeeded" /\ status[RestoreOp(e)] = "none"
                      /\ asked # RestoreOp(e)
    BY DEF RestoreFollows
  <2>1. asked = NoOp /\ NoOp # RestoreOp(e)  BY DEF Init, NoOp, RestoreOp
  <2> QED  BY <2>1, OperationsOf DEF Init
<1>10. OwnCopy /\ UnderHold
  BY <1>4 DEF OwnCopy, UnderHold, Owns, Init
<1>11. EntryRows
  <2> SUFFICES ASSUME NEW e \in Epochs, NEW n \in Nodes
               PROVE  EntryRow(e, n, step[EntryOp(e)][n])
    BY DEF EntryRows
  <2>1. step[EntryOp(e)][n] = NewStep(NoSnapshot) /\ held[e][n] = NoSnapshot
    BY <1>3, OperationsOf DEF Init
  <2>2. ~(NoSnapshot \subseteq Models)  BY Distinct
  <2> QED  BY <1>2, <2>1, <2>2 DEF EntryRow, EntryPhases, Held, Init
<1>12. Receipts
  BY DEF Receipts, Init
<1>13. Copies /\ Answers
  <2>1. \A c \in Coordinators, e \in Epochs : pass[c] # EntryOp(e) /\ pass[c] # RestoreOp(e)
    BY <1>4, OperationsOf
  <2> QED  BY <2>1 DEF Copies, Answers, Init
<1>14. Looks
  BY DEF Looks, Init
<1> QED  BY <1>5, <1>6, <1>7, <1>8, <1>9, <1>10, <1>11, <1>12, <1>13, <1>14 DEF Inv, Types

-----------------------------------------------------------------------------
(* What the invariant gives a coordinator at work.                         *)

\* One that still owns its operation holds the row as it is, under its hold.
LEMMA OwnsMeans ==
  ASSUME BoundAssumption, Inv, NEW c \in Coordinators, NEW n \in Nodes, Owns(c),
         at[c][n] # "claimed"
  PROVE  /\ mem[c][n] = step[pass[c]][n] /\ mem[c][n] \in Row
         /\ Held(pass[c][2]) /\ status[pass[c]] = "running"
<1>1. mem[c] = step[pass[c]]  BY DEF Inv, OwnCopy
<1>2. mem[c][n] \in Row  BY DEF Inv, Types, TypesCoord
<1>3. Held(pass[c][2])  BY DEF Inv, UnderHold
<1> QED  BY <1>1, <1>2, <1>3 DEF Owns, Fenced

\* Nobody else writes its rows.
LEMMA OneOwner ==
  ASSUME NEW c \in Coordinators, NEW d \in Coordinators, Owns(c), Owns(d), pass[c] = pass[d]
  PROVE  c = d
BY DEF Owns, Fenced

\* While an entry runs there is no restore of it.
LEMMA NoRestoreYet ==
  ASSUME Inv, NEW e \in Epochs, status[EntryOp(e)] # "succeeded"
  PROVE  status[RestoreOp(e)] = "none"
BY DEF Inv, RestoreFollows, Restorable

\* The hold is closed for one epoch.
LEMMA HeldEpoch ==
  ASSUME Inv, NEW e, Held(e)
  PROVE  closed /\ e = epoch /\ e \in Epochs
BY DEF Inv, Types, TypesDb, Held, Epochs

-----------------------------------------------------------------------------
(* What the nodes do.                                                      *)

\* Whatever a node goes through while its hold is closed, it stays quiet once
\* its reset was carried out or its snapshot is still to be taken, keeps what it
\* holds until that snapshot, stays empty between the reset and the restore, and
\* stays whole once the restore has it whole, but for a loss that is counted.
NodeMove(n) ==
  LET row == step[EntryOp(epoch)][n]  frozen == closed /\ quiet[n] = epoch IN
  /\ \A m \in Nodes :
       /\ applied[m] \subseteq applied'[m] /\ refused[m] \subseteq refused'[m]
       /\ m # n => resident'[m] = resident[m] /\ quiet'[m] = quiet[m]
  /\ lapsed \subseteq lapsed'
  /\ \A e \in Epochs, m \in Nodes :
       \/ held'[e][m] = held[e][m]
       \/ /\ m = n /\ Held(e) /\ held[e][m] = NoSnapshot /\ status[EntryOp(e)] # "none"
          /\ held'[e][m] = resident'[m] /\ quiet'[m] = e
  /\ frozen /\ (row.snapshot = NoSnapshot \/ WasReset(n, epoch)) => quiet'[n] = epoch
  /\ frozen /\ row.snapshot = NoSnapshot => resident'[n] = resident[n]
  /\ frozen /\ WasReset(n, epoch) /\ status[RestoreOp(epoch)] = "none" /\ resident[n] = {}
       => resident'[n] = {}
  /\ frozen /\ status[RestoreOp(epoch)] # "none" /\ resident[n] = row.snapshot
       => \/ resident'[n] = resident[n]
          \/ \A c \in Coordinators : at[c][n] = "checked" => n \in lapsed'

\* A reset, once made, stays on file.
LEMMA WasResetStays ==
  ASSUME NEW n \in Nodes, NEW e, applied[n] \subseteq applied'[n], WasReset(n, e)
  PROVE  WasReset(n, e)'
BY DEF WasReset

\* The rows still say what they said of the nodes.
LEMMA NodeMoveRows ==
  ASSUME BoundAssumption, Inv, Types', NEW n \in Nodes, NodeMove(n), UNCHANGED db
  PROVE  EntryRows'
<1> SUFFICES ASSUME NEW e \in Epochs, NEW m \in Nodes
             PROVE  EntryRow(e, m, step[EntryOp(e)][m])'
  BY DEF EntryRows
<1> DEFINE r == step[EntryOp(e)][m]
<1>1. UNCHANGED <<closed, epoch, status, step>>  BY DEF db
<1>2. EntryRow(e, m, r)  BY DEF Inv, EntryRows
<1>3. r' = r /\ (Held(e)' <=> Held(e)) /\ status'[RestoreOp(e)] = status[RestoreOp(e)]
  BY <1>1 DEF Held
<1>4. ~(NoSnapshot \subseteq Models) /\ NoSnapshot \notin SUBSET Models  BY Distinct
<1>5. resident'[m] \in SUBSET Models /\ resident[m] \in SUBSET Models
  BY DEF Types, TypesNodes, Inv
<1>6. held[e][m] # NoSnapshot => held'[e][m] = held[e][m]
  BY DEF NodeMove
<1>7. Held(e) => e = epoch /\ closed  BY HeldEpoch
<1>8. WasReset(m, e) => WasReset(m, e)'
  BY WasResetStays DEF NodeMove
<1>9. r.snapshot \subseteq Models => r.snapshot = held'[e][m]
  BY <1>2, <1>4, <1>6 DEF EntryRow
<1>10. ASSUME Held(e), r.phase \in {"reset", "verified"}
       PROVE  WasReset(m, e)' /\ quiet'[m] = e
  <2>1. WasReset(m, e) /\ quiet[m] = e  BY <1>2, <1>10 DEF EntryRow
  <2>2. CASE m = n
    BY <2>1, <2>2, <1>7, <1>8, <1>10 DEF NodeMove
  <2>3. CASE m # n
    BY <2>1, <2>3, <1>8 DEF NodeMove
  <2> QED  BY <2>2, <2>3
<1>11. ASSUME Held(e), r.phase = "verified", status[RestoreOp(e)] = "none"
       PROVE  resident'[m] = {}
  <2>1. WasReset(m, e) /\ quiet[m] = e /\ resident[m] = {}  BY <1>2, <1>11 DEF EntryRow
  <2>2. CASE m = n
    BY <2>1, <2>2, <1>7, <1>11 DEF NodeMove
  <2>3. CASE m # n
    BY <2>1, <2>3 DEF NodeMove
  <2> QED  BY <2>2, <2>3
<1>12. ASSUME Held(e), r.snapshot = NoSnapshot, held'[e][m] # NoSnapshot
       PROVE  quiet'[m] = e /\ resident'[m] = held'[e][m]
  <2>1. CASE held[e][m] = NoSnapshot
    BY <2>1, <1>12 DEF NodeMove
  <2>2. CASE held[e][m] # NoSnapshot /\ m = n
    <3>1. quiet[m] = e /\ resident[m] = held[e][m]  BY <1>2, <1>12, <2>2 DEF EntryRow
    <3> QED  BY <3>1, <2>2, <1>6, <1>7, <1>12 DEF NodeMove
  <2>3. CASE held[e][m] # NoSnapshot /\ m # n
    <3>1. quiet[m] = e /\ resident[m] = held[e][m]  BY <1>2, <1>12, <2>3 DEF EntryRow
    <3> QED  BY <3>1, <2>3, <1>6 DEF NodeMove
  <2> QED  BY <2>1, <2>2, <2>3
<1> HIDE DEF r
<1> QED
  <2>1. r.phase # "pending" => held'[e][m] # NoSnapshot  BY <1>2, <1>6 DEF EntryRow
  <2> QED  BY <1>2, <1>3, <1>9, <1>10, <1>11, <1>12, <2>1 DEF EntryRow, r

\* A node that the restore reopens on is whole or counted as lapsed.
LEMMA NodeMoveLooks ==
  ASSUME BoundAssumption, Inv, Types', NEW n \in Nodes, NodeMove(n),
         UNCHANGED <<db, pass, mem, unchecked>>,
         \A c \in Coordinators, m \in Nodes :
           at'[c][m] \in {"closing", "checked"} => at[c][m] = at'[c][m]
  PROVE  Looks'
<1>1. UNCHANGED <<closed, epoch, status, step>>  BY DEF db
<1> SUFFICES ASSUME NEW c \in Coordinators, NEW m \in Nodes, at'[c][m] = "checked",
                    Held(pass[c][2])
             PROVE  m \in lapsed' \/ resident'[m] = mem[c][m].snapshot
  BY <1>1 DEF Inv, Looks, Held
<1>2. at[c][m] = "checked"  OBVIOUS
<1>3. m \in lapsed \/ resident[m] = mem[c][m].snapshot  BY <1>2 DEF Inv, Looks
<1>4. CASE m \in lapsed  BY <1>4 DEF NodeMove
<1>5. CASE m # n  BY <1>3, <1>4, <1>5 DEF NodeMove
<1>6. CASE m = n /\ m \notin lapsed
  <2>1. pass[c] \in Operations /\ pass[c][1] = "restore"  BY <1>2 DEF Inv, Looks
  <2>2. PICK e \in Epochs : pass[c] = RestoreOp(e) /\ pass[c][2] = e
    BY <2>1, OperationForm, OperationsOf
  <2>3. e = epoch /\ closed  BY <2>2, HeldEpoch
  <2>4. status[RestoreOp(e)] # "none"  BY <2>1, <2>2 DEF Inv, Unrecorded
  <2>5. Restorable(e) /\ step[RestoreOp(e)][n].snapshot = step[EntryOp(e)][n].snapshot
    BY <2>4 DEF Inv, RestoreFollows
  <2>6. mem[c][n].snapshot = step[EntryOp(e)][n].snapshot
    BY <2>2, <2>5 DEF Inv, Copies, CopyOfRestore
  <2>7. step[EntryOp(e)][n].status = "done"
    BY <2>5 DEF Inv, RestoreFollows, Restorable
  <2>8. quiet[n] = e
    <3>1. EntryRow(e, n, step[EntryOp(e)][n])  BY DEF Inv, EntryRows
    <3> QED  BY <2>2, <2>7, <3>1 DEF EntryRow
  <2> QED  BY <1>2, <1>3, <1>6, <2>3, <2>4, <2>6, <2>8 DEF NodeMove
<1> QED  BY <1>4, <1>5, <1>6

\* An answer not yet written down is still true.
LEMMA NodeMoveTold ==
  ASSUME BoundAssumption, Inv, Types', NEW n \in Nodes, NodeMove(n),
         UNCHANGED <<db, pass, mem>>,
         NEW c \in Coordinators, NEW m \in Nodes, NEW e \in Epochs,
         pass[c] = EntryOp(e), at[c][m] = "answered", Told(c, m, e), got'[c][m] = got[c][m]
  PROVE  Told(c, m, e)'
<1> DEFINE s == mem[c][m]  a == got[c][m].says  seen == got[c][m].seen
           row == step[EntryOp(e)][m]
<1>1. UNCHANGED <<closed, epoch, status, step, owner>>  BY DEF db
<1>2. (Held(e)' <=> Held(e)) /\ (Owns(c)' <=> Owns(c)) /\ mem'[c][m] = s
  BY <1>1 DEF Held, Owns, Fenced
<1>3. ~(NoSnapshot \subseteq Models) /\ NoSnapshot \notin SUBSET Models  BY Distinct
<1>4. held[e][m] # NoSnapshot => held'[e][m] = held[e][m]
  BY DEF NodeMove
<1>5. a = "quiescent" => held'[e][m] # NoSnapshot
  BY <1>4 DEF Told
<1>6. ASSUME a \in {"resolved", "unresolved"}, Held(e)
      PROVE  WasReset(m, e)' /\ quiet'[m] = e
  <2>1. WasReset(m, e) /\ quiet[m] = e  BY <1>6 DEF Told
  <2>2. e = epoch /\ closed  BY <1>6, HeldEpoch
  <2>3. WasReset(m, e)'  BY <2>1, WasResetStays DEF NodeMove
  <2>4. CASE m = n  BY <2>1, <2>2, <2>3, <2>4 DEF NodeMove
  <2>5. CASE m # n  BY <2>1, <2>3, <2>5 DEF NodeMove
  <2> QED  BY <2>4, <2>5
<1>7. a = "restart_failed" => ResetCall(e, s.resetId) \in refused'[m]
  BY DEF Told, NodeMove
<1>8. a = "saw" /\ s.phase = "interrupted" /\ Owns(c) => seen = held'[e][m]
  <2>1. seen \in SUBSET Models  BY DEF Inv, Types, TypesCoord
  <2> QED  BY <2>1, <1>3, <1>4 DEF Told
<1>9. ASSUME a = "saw", s.phase = "reset", seen = {}, Owns(c)
      PROVE  resident'[m] = {}
  <2>1. resident[m] = {}  BY <1>9 DEF Told
  <2>2. mem[c][m] = row /\ Held(e) /\ status[EntryOp(e)] = "running"
    BY <1>9, OwnsMeans, OperationsOf
  <2>3. WasReset(m, e) /\ quiet[m] = e
    <3>1. EntryRow(e, m, row)  BY DEF Inv, EntryRows
    <3> QED  BY <3>1, <2>2, <1>9 DEF EntryRow
  <2>4. status[RestoreOp(e)] = "none"  BY <2>2, NoRestoreYet
  <2>5. e = epoch /\ closed  BY <2>2, HeldEpoch
  <2>6. CASE m = n  BY <2>1, <2>3, <2>4, <2>5, <2>6 DEF NodeMove
  <2>7. CASE m # n  BY <2>1, <2>7 DEF NodeMove
  <2> QED  BY <2>6, <2>7
<1> QED  BY <1>2, <1>5, <1>6, <1>7, <1>8, <1>9 DEF Told

\* A receipt that was expected still is.
LEMMA ExpectedStays ==
  ASSUME NEW n \in Nodes, NEW call, Expected(n, call), refused[n] \subseteq refused'[n],
         UNCHANGED <<status, step>>
  PROVE  Expected(n, call)'
BY DEF Expected, KnownReset

\* What a coordinator may learn from a node, beside what the node goes through.
CallStep(c, n) ==
  /\ UNCHANGED <<db, nextId, pass, mem, unchecked>>
  /\ at[c][n] \in {"start", "call", "send"}
  /\ at' \in {[at EXCEPT ![c][n] = "said"], [at EXCEPT ![c][n] = "answered"]}
  /\ \E a \in [says : Words, seen : SUBSET Models] : got' = [got EXCEPT ![c][n] = a]

\* A step of a node, alone or answering a call, keeps the invariant when the
\* answer is true and the receipts are the expected ones.
LEMMA NodeMoveKeeps ==
  ASSUME BoundAssumption, Inv, Types', NEW n \in Nodes, NodeMove(n), Receipts',
         \/ UNCHANGED <<db, coordVars>>
         \/ \E c \in Coordinators :
              /\ CallStep(c, n)
              /\ \A e \in Epochs :
                   /\ pass[c] = EntryOp(e) /\ at'[c][n] = "answered" => Told(c, n, e)'
                   /\ pass[c] = RestoreOp(e) /\ at'[c][n] = "said" /\ mem[c][n].phase = "loaded"
                        => mem[c][n].probed # mem[c][n].snapshot
                   /\ pass[c] = RestoreOp(e) /\ at'[c][n] = "answered"
                        => mem[c][n].phase \in {"pending", "loaded", "probed"}
  PROVE  Inv'
<1>1. UNCHANGED <<db, pass, mem, unchecked>>  BY DEF CallStep, coordVars
<1>2. UNCHANGED <<closed, epoch, status, step, owner, leased, asked>>  BY <1>1 DEF db
<1>3. \A d \in Coordinators, m \in Nodes :
        \/ at'[d][m] = at[d][m] /\ got'[d][m] = got[d][m]
        \/ /\ at[d][m] \in {"start", "call", "send"} /\ at'[d][m] \in {"said", "answered"}
           /\ \A e \in Epochs :
                /\ pass[d] = EntryOp(e) /\ at'[d][m] = "answered" => Told(d, m, e)'
                /\ pass[d] = RestoreOp(e) /\ at'[d][m] = "said" /\ mem[d][m].phase = "loaded"
                     => mem[d][m].probed # mem[d][m].snapshot
                /\ pass[d] = RestoreOp(e) /\ at'[d][m] = "answered"
                     => mem[d][m].phase \in {"pending", "loaded", "probed"}
  <2>1. CASE UNCHANGED <<db, coordVars>>
    BY <2>1 DEF coordVars
  <2>2. ASSUME NEW c \in Coordinators, CallStep(c, n),
               \A e \in Epochs :
                 /\ pass[c] = EntryOp(e) /\ at'[c][n] = "answered" => Told(c, n, e)'
                 /\ pass[c] = RestoreOp(e) /\ at'[c][n] = "said" /\ mem[c][n].phase = "loaded"
                      => mem[c][n].probed # mem[c][n].snapshot
                 /\ pass[c] = RestoreOp(e) /\ at'[c][n] = "answered"
                      => mem[c][n].phase \in {"pending", "loaded", "probed"},
               NEW d \in Coordinators, NEW m \in Nodes
        PROVE  \/ at'[d][m] = at[d][m] /\ got'[d][m] = got[d][m]
               \/ /\ at[d][m] \in {"start", "call", "send"} /\ at'[d][m] \in {"said", "answered"}
                  /\ d = c /\ m = n
    <3>1. at \in [Coordinators -> [Nodes -> Places]]
          /\ got \in [Coordinators -> [Nodes -> [says : Words, seen : SUBSET Models]]]
      BY DEF Inv, Types, TypesCoord
    <3>2. CASE d = c /\ m = n
      BY <3>1, <3>2, <2>2 DEF CallStep
    <3>3. CASE ~(d = c /\ m = n)
      BY <3>1, <3>3, <2>2 DEF CallStep
    <3> QED  BY <3>2, <3>3
  <2> QED  BY <2>1, <2>2
<1>4. \A c \in Coordinators : Owns(c)' <=> Owns(c)
  BY <1>1, <1>2 DEF Owns, Fenced
<1>5. \A m \in Nodes : refused[m] \subseteq refused'[m]  BY DEF NodeMove
<1>6. Unrecorded'
  <2>1. \A e \in Epochs, m \in Nodes : status[EntryOp(e)] = "none" => held'[e][m] = held[e][m]
    BY DEF NodeMove
  <2> QED  BY <1>1, <1>2, <2>1 DEF Inv, Unrecorded
<1>7. RestoreFollows'
  BY <1>2 DEF Inv, RestoreFollows, Restorable
<1>8. OwnCopy'
  BY <1>1, <1>2, <1>4 DEF Inv, OwnCopy
<1>9. UnderHold'
  <2> SUFFICES ASSUME NEW c \in Coordinators, NEW m \in Nodes, Owns(c)',
                      at'[c][m] # "claimed" \/ unchecked'[c] # {}
               PROVE  Held(pass[c][2])'
    BY <1>1 DEF UnderHold
  <2>1. at[c][m] # "claimed" \/ unchecked[c] # {}  BY <1>1, <1>3
  <2>2. Held(pass[c][2])  BY <2>1, <1>4 DEF Inv, UnderHold
  <2> QED  BY <2>2, <1>1, <1>2 DEF Held
<1>10. EntryRows'  BY <1>1, NodeMoveRows
<1>11. Copies'
  <2> SUFFICES ASSUME NEW c \in Coordinators, NEW m \in Nodes, NEW e \in Epochs
               PROVE  /\ pass[c] = EntryOp(e) => CopyOfEntry(e, m, mem[c][m])'
                      /\ pass[c] = RestoreOp(e) => CopyOfRestore(e, m, mem[c][m], at[c][m])'
    BY <1>1 DEF Copies
  <2>1. ASSUME pass[c] = EntryOp(e)  PROVE CopyOfEntry(e, m, mem[c][m])'
    <3>1. CopyOfEntry(e, m, mem[c][m])  BY <2>1 DEF Inv, Copies
    <3> QED  BY <3>1, <1>1, <1>2, <1>5 DEF CopyOfEntry, KnownReset
  <2>2. ASSUME pass[c] = RestoreOp(e)  PROVE CopyOfRestore(e, m, mem[c][m], at[c][m])'
    <3>1. CopyOfRestore(e, m, mem[c][m], at[c][m])  BY <2>2 DEF Inv, Copies
    <3>2. CASE at'[c][m] = at[c][m]
      BY <3>1, <3>2, <1>1, <1>2 DEF CopyOfRestore
    <3>3. CASE at'[c][m] # at[c][m]
      BY <3>1, <3>3, <2>2, <1>1, <1>2, <1>3 DEF CopyOfRestore
    <3> QED  BY <3>2, <3>3
  <2> QED  BY <2>1, <2>2
<1>12. Answers'
  <2> SUFFICES ASSUME NEW c \in Coordinators, NEW m \in Nodes, NEW e \in Epochs,
                      pass[c] = EntryOp(e), at'[c][m] = "answered"
               PROVE  Told(c, m, e)'
    BY <1>1 DEF Answers
  <2>1. CASE at'[c][m] = at[c][m] /\ got'[c][m] = got[c][m]
    <3>1. Told(c, m, e)  BY <2>1 DEF Inv, Answers
    <3> QED  BY <3>1, <2>1, <1>1, NodeMoveTold
  <2>2. CASE ~(at'[c][m] = at[c][m] /\ got'[c][m] = got[c][m])
    BY <2>2, <1>3
  <2> QED  BY <2>1, <2>2
<1>13. Looks'
  BY <1>1, <1>3, NodeMoveLooks
<1> QED  BY <1>6, <1>7, <1>8, <1>9, <1>10, <1>11, <1>12, <1>13 DEF Inv

\* The reset of an entry that is over and done with was made already.
LEMMA ResetMade ==
  ASSUME BoundAssumption, Inv, NEW n \in Nodes, NEW e \in Epochs, NEW id, Held(e),
         status[RestoreOp(e)] # "none", id # 0, KnownReset(n, e, id)
  PROVE  ResetCall(e, id) \in applied[n] \cup refused[n]
<1>1. Restorable(e)  BY DEF Inv, RestoreFollows
<1>2. step[EntryOp(e)][n].status = "done"  BY <1>1 DEF Inv, RestoreFollows, Restorable
<1>3. WasReset(n, e)
  <2>1. EntryRow(e, n, step[EntryOp(e)][n])  BY DEF Inv, EntryRows
  <2> QED  BY <1>2, <2>1 DEF EntryRow
<1>4. PICK call \in applied[n] : call.kind = "reset" /\ call.epoch = e
  BY <1>3 DEF WasReset
<1>5. Expected(n, call) /\ call \notin refused[n]
  BY DEF Inv, Receipts
<1>6. call = ResetCall(e, call.id) /\ call.id = step[EntryOp(e)][n].resetId
  BY <1>4, <1>5 DEF Expected, KnownReset
<1>7. CASE ResetCall(e, id) \in refused[n]  BY <1>7
<1>8. CASE id = step[EntryOp(e)][n].resetId  BY <1>4, <1>6, <1>8
<1> QED  BY <1>7, <1>8 DEF KnownReset

\* An expected call, carried out, is a move a node may go through.
LEMMA PerformMoves ==
  ASSUME BoundAssumption, Inv, NEW n \in Nodes, NEW call \in Call, Held(call.epoch),
         Expected(n, call), Perform(n, call), UNCHANGED <<quiet, refused, held, lapsed>>
  PROVE  /\ NodeMove(n)
         /\ resident' \in [Nodes -> SUBSET Models]
         /\ applied' \in [Nodes -> SUBSET Call]
         /\ \A m \in Nodes : applied'[m] \subseteq
              applied[m] \cup (IF m = n /\ call \notin refused[n] THEN {call} ELSE {})
         /\ call \in applied'[n] \cup refused[n]
<1>1. /\ resident \in [Nodes -> SUBSET Models] /\ applied \in [Nodes -> SUBSET Call]
      /\ call.model \in 0 .. NumModels /\ call.epoch \in Epochs /\ call.kind \in {"reset", "load"}
  BY DEF Inv, Types, TypesNodes, Call
<1>2. call.epoch = epoch /\ closed  BY HeldEpoch
<1>3. CASE call \in applied[n] \cup refused[n]
  <2>1. UNCHANGED <<resident, applied>>  BY <1>3 DEF Perform
  <2> QED  BY <2>1, <1>1, <1>3 DEF NodeMove
<1>4. CASE call \notin applied[n] \cup refused[n]
  <2>1. applied' = [applied EXCEPT ![n] = @ \cup {call}]  BY <1>4 DEF Perform
  <2>2. /\ applied' \in [Nodes -> SUBSET Call]
        /\ \A m \in Nodes : applied[m] \subseteq applied'[m]
        /\ \A m \in Nodes : applied'[m] \subseteq applied[m] \cup (IF m = n THEN {call} ELSE {})
        /\ call \in applied'[n]
    BY <2>1, <1>1
  <2>3. CASE call.kind = "reset"
    <3>1. resident' = [resident EXCEPT ![n] = {}]  BY <1>4, <2>3 DEF Perform
    <3>2. resident' \in [Nodes -> SUBSET Models] /\ resident'[n] = {}
          /\ \A m \in Nodes : m # n => resident'[m] = resident[m]
      BY <3>1, <1>1
    <3>3. /\ call = ResetCall(epoch, call.id) /\ call.id # 0
          /\ step[EntryOp(epoch)][n].snapshot # NoSnapshot /\ KnownReset(n, epoch, call.id)
      BY <2>3, <1>2 DEF Expected
    <3>4. status[RestoreOp(epoch)] = "none"
      BY <3>3, <1>1, <1>2, <1>4, ResetMade
    <3> QED  BY <2>2, <3>2, <3>3, <3>4, <1>4 DEF NodeMove
  <2>4. CASE call.kind = "load"
    <3>1. status[RestoreOp(epoch)] # "none" /\ call.model \in step[RestoreOp(epoch)][n].snapshot
      BY <2>4, <1>2 DEF Expected
    <3>2. /\ step[RestoreOp(epoch)][n].snapshot = step[EntryOp(epoch)][n].snapshot
          /\ step[EntryOp(epoch)][n].snapshot \subseteq Models
      BY <3>1, <1>1, <1>2 DEF Inv, RestoreFollows, Restorable
    <3>3. step[EntryOp(epoch)][n].snapshot # NoSnapshot  BY <3>2, Distinct
    <3>4. CASE call.model \in resident[n]
      <4>1. UNCHANGED resident  BY <1>4, <2>4, <3>4 DEF Perform
      <4> QED  BY <2>2, <3>1, <3>3, <4>1, <1>1, <1>4 DEF NodeMove
    <3>5. CASE call.model \notin resident[n]
      <4>1. PICK out : resident' = [resident EXCEPT ![n] = (@ \cup {call.model}) \ out]
        BY <1>4, <2>4, <3>5 DEF Perform
      <4>2. call.model \in Models  BY <3>1, <3>2
      <4>3. resident' \in [Nodes -> SUBSET Models]
            /\ \A m \in Nodes : m # n => resident'[m] = resident[m]
        BY <4>1, <4>2, <1>1
      <4>4. resident[n] # step[EntryOp(epoch)][n].snapshot  BY <3>1, <3>2, <3>5
      <4> QED  BY <2>2, <3>1, <3>3, <4>3, <4>4, <1>4 DEF NodeMove
    <3> QED  BY <3>4, <3>5
  <2> QED  BY <2>3, <2>4, <1>1
<1> QED  BY <1>3, <1>4

\* Steps that leave the database and the coordinators alone keep their types.
LEMMA NodeTypes ==
  ASSUME Inv, UNCHANGED <<db, nextId, coordVars>>, TypesNodes'
  PROVE  Types'
BY DEF Inv, Types, TypesDb, TypesCoord, db, coordVars

LEMMA TrafficKeeps ==
  ASSUME BoundAssumption, Inv, NEW n \in Nodes, Traffic(n)
  PROVE  Inv'
<1> USE DEF Traffic, NodeOnly, NoFault, history
<1>1. resident \in [Nodes -> SUBSET Models]  BY DEF Inv, Types, TypesNodes
<1>2. resident' \in [Nodes -> SUBSET Models]  BY <1>1
<1>3. TypesNodes'  BY <1>2 DEF Inv, Types, TypesNodes
<1>4. Types'  BY <1>3, NodeTypes
<1>5. NodeMove(n)  BY <1>1 DEF NodeMove
<1>6. UNCHANGED <<closed, epoch, status, step>>  BY DEF db
<1>7. Receipts'
  BY <1>6 DEF Inv, Receipts, Expected, KnownReset
<1> QED  BY <1>4, <1>5, <1>7, NodeMoveKeeps

LEMMA EvictKeeps ==
  ASSUME BoundAssumption, Inv, NEW n \in Nodes, Evict(n)
  PROVE  Inv'
<1> USE DEF Evict, NodeOnly, Fault
<1>1. resident \in [Nodes -> SUBSET Models] /\ lapsed \subseteq Nodes /\ faults \in 0 .. MaxFaults
  BY DEF Inv, Types, TypesNodes
<1>2. PICK x \in resident[n] : resident' = [resident EXCEPT ![n] = @ \ {x}]
  OBVIOUS
<1>3. resident' \in [Nodes -> SUBSET Models]
      /\ \A m \in Nodes : m # n => resident'[m] = resident[m]
  BY <1>1, <1>2
<1>4. lapsed' \subseteq Nodes /\ lapsed \subseteq lapsed'
      /\ \A c \in Coordinators : at[c][n] = "checked" => n \in lapsed'
  BY <1>1
<1>5. TypesNodes'
  <2>1. faults' \in 0 .. MaxFaults  BY <1>1 DEF BoundAssumption
  <2> QED  BY <1>3, <1>4, <2>1 DEF Inv, Types, TypesNodes
<1>6. Types'  BY <1>5, NodeTypes
<1>7. status[RestoreOp(epoch)] # "none" /\ epoch \in Epochs
  <2>1. epoch \in Epochs  BY DEF Inv, Types, TypesDb, Epochs
  <2> QED  BY <2>1 DEF RestoreOp
<1>8. step[EntryOp(epoch)][n].snapshot # NoSnapshot
  <2>1. step[EntryOp(epoch)][n].snapshot \subseteq Models
    BY <1>7 DEF Inv, RestoreFollows, Restorable
  <2> QED  BY <2>1, Distinct
<1>9. NodeMove(n)  BY <1>3, <1>4, <1>7, <1>8 DEF NodeMove
<1>10. UNCHANGED <<closed, epoch, status, step>>  BY DEF db
<1>11. Receipts'
  BY <1>10 DEF Inv, Receipts, Expected, KnownReset
<1> QED  BY <1>6, <1>9, <1>11, NodeMoveKeeps

LEMMA LateKeeps ==
  ASSUME BoundAssumption, Inv, NEW n \in Nodes, Late(n)
  PROVE  Inv'
<1> USE DEF NodeOnly, NoFault, history
<1>1. PICK call \in late[n] :
        /\ late' = [late EXCEPT ![n] = @ \ {call}]
        /\ IF Held(call.epoch) THEN Perform(n, call) ELSE UNCHANGED <<resident, applied>>
  BY DEF Late
<1>2. UNCHANGED <<quiet, refused, held, lapsed, faults, db, nextId, coordVars>>
  BY DEF Late
<1>3. late \in [Nodes -> SUBSET Call] /\ call \in Call  BY DEF Inv, Types, TypesNodes
<1>4. late' \in [Nodes -> SUBSET Call] /\ \A m \in Nodes : late'[m] \subseteq late[m]
  BY <1>1, <1>3
<1>5. Expected(n, call)  BY DEF Inv, Receipts
<1>6. /\ NodeMove(n) /\ resident' \in [Nodes -> SUBSET Models] /\ applied' \in [Nodes -> SUBSET Call]
      /\ \A m \in Nodes : applied'[m] \subseteq
           applied[m] \cup (IF m = n /\ call \notin refused[n] THEN {call} ELSE {})
  <2>1. CASE Held(call.epoch)
    BY <2>1, <1>1, <1>2, <1>3, <1>5, PerformMoves
  <2>2. CASE ~Held(call.epoch)
    <3>1. UNCHANGED <<resident, applied>>  BY <1>1, <2>2
    <3> QED  BY <3>1, <1>2 DEF NodeMove, Inv, Types, TypesNodes
  <2> QED  BY <2>1, <2>2
<1>7. TypesNodes'  BY <1>2, <1>4, <1>6 DEF Inv, Types, TypesNodes
<1>8. Types'  BY <1>2, <1>7, NodeTypes
<1>9. UNCHANGED <<status, step>>  BY <1>2 DEF db
<1>10. Receipts'
  <2> SUFFICES ASSUME NEW m \in Nodes
               PROVE  /\ applied'[m] \cap refused'[m] = {}
                      /\ \A x \in applied'[m] \cup late'[m] : Expected(m, x)'
    BY DEF Receipts
  <2>1. applied[m] \cap refused[m] = {} /\ \A x \in applied[m] \cup late[m] : Expected(m, x)
    BY DEF Inv, Receipts
  <2>2. \A x \in applied'[m] \cup late'[m] : Expected(m, x)
    BY <2>1, <1>4, <1>5, <1>6
  <2>3. applied'[m] \cap refused[m] = {}  BY <2>1, <1>6
  <2> QED  BY <2>2, <2>3, <1>2, <1>9, ExpectedStays
<1> QED  BY <1>2, <1>6, <1>8, <1>10, NodeMoveKeeps

\* An answer is noted beside the place it was asked from.
LEMMA AnswerIsCall ==
  ASSUME Inv, NEW c \in Coordinators, NEW n \in Nodes,
         NEW a \in [says : Words, seen : SUBSET Models], Answer(c, n, a), CallOnly,
         at[c][n] \in {"start", "call", "send"}
  PROVE  /\ CallStep(c, n) /\ TypesDb' /\ TypesCoord' /\ nextId' = nextId
         /\ got'[c][n] = a /\ at'[c][n] = IF at[c][n] = "send" THEN "said" ELSE "answered"
         /\ mem' = mem /\ pass' = pass /\ UNCHANGED db
<1>1. UNCHANGED <<db, nextId, pass, mem, unchecked>>  BY DEF CallOnly
<1>2. at \in [Coordinators -> [Nodes -> Places]]
      /\ got \in [Coordinators -> [Nodes -> [says : Words, seen : SUBSET Models]]]
  BY DEF Inv, Types, TypesCoord
<1> DEFINE to == IF at[c][n] = "send" THEN "said" ELSE "answered"
<1>3. got' = [got EXCEPT ![c][n] = a] /\ at' = [at EXCEPT ![c][n] = to]
  BY <1>2 DEF Answer
<1>4. to \in Places /\ to \in {"said", "answered"}  BY DEF Places
<1>5. at' \in [Coordinators -> [Nodes -> Places]] /\ at'[c][n] = to
  <2> HIDE DEF to
  <2> QED  BY <1>2, <1>3, <1>4
<1>6. got' \in [Coordinators -> [Nodes -> [says : Words, seen : SUBSET Models]]] /\ got'[c][n] = a
  BY <1>2, <1>3
<1>7. TypesCoord'  BY <1>1, <1>5, <1>6 DEF Inv, Types, TypesCoord
<1>8. TypesDb'  BY <1>1 DEF Inv, Types, TypesDb, db
<1>9. CallStep(c, n)
  <2>1. at' \in {[at EXCEPT ![c][n] = "said"], [at EXCEPT ![c][n] = "answered"]}
    BY <1>3, <1>4
  <2> QED  BY <1>1, <1>3, <2>1 DEF CallStep
<1> QED  BY <1>1, <1>5, <1>6, <1>7, <1>8, <1>9

\* Answers that say nothing of the node.
LEMMA NothingTold ==
  ASSUME NEW c \in Coordinators, NEW n \in Nodes, NEW e,
         got'[c][n].says \in {"error", "not_quiescent", "completed", "failed"},
         mem'[c][n].phase # "verified"
  PROVE  Told(c, n, e)'
BY DEF Told

LEMMA AnswerWords ==
  /\ \A word \in Words : /\ Says(word) \in [says : Words, seen : SUBSET Models]
                         /\ Says(word).says = word
  /\ \A models \in SUBSET Models : /\ Saw(models) \in [says : Words, seen : SUBSET Models]
                                   /\ Saw(models).says = "saw" /\ Saw(models).seen = models
  /\ NoAnswer \in [says : Words, seen : SUBSET Models] /\ NoAnswer.says = "error"
BY DEF Says, Saw, NoAnswer, Words

\* What it is to stand before a call.
LEMMA HereMeans ==
  ASSUME Inv, NEW c \in Coordinators, NEW n \in Nodes, NEW where, NEW kind \in Kinds,
         Here(c, n, where, kind)
  PROVE  /\ pass[c] \in Operations /\ pass[c][2] \in Epochs /\ at[c][n] \in where
         /\ pass[c] = <<kind, pass[c][2]>>
         /\ kind = "enter" => pass[c] = EntryOp(pass[c][2])
         /\ kind = "restore" => pass[c] = RestoreOp(pass[c][2])
         /\ status[pass[c]] # "none"
BY OperationForm DEF Here, Operations, EntryOp, RestoreOp, Inv, Unrecorded

LEMMA FaultCounts ==
  ASSUME BoundAssumption, Inv, (Fault \/ NoFault)
  PROVE  faults' \in 0 .. MaxFaults
BY DEF BoundAssumption, Inv, Types, TypesNodes, Fault, NoFault

LEMMA InterruptKeeps ==
  ASSUME BoundAssumption, Inv, NEW c \in Coordinators, NEW n \in Nodes, Interrupt(c, n)
  PROVE  Inv'
<1>1. PICK e \in Epochs :
        /\ pass[c] = EntryOp(e) /\ pass[c][2] = e /\ at[c][n] \in Ready /\ status[pass[c]] # "none"
        /\ \A f \in Epochs : (pass[c] = EntryOp(f) => f = e) /\ pass[c] # RestoreOp(f)
  <2>1. Here(c, n, Ready, "enter")  BY DEF Interrupt
  <2>2. "enter" \in Kinds  BY DEF Kinds
  <2>3. /\ pass[c] = EntryOp(pass[c][2]) /\ pass[c][2] \in Epochs /\ at[c][n] \in Ready
        /\ status[pass[c]] # "none"
    BY <2>1, <2>2, HereMeans
  <2> QED  BY <2>3, OperationsOf
<1>2. at[c][n] \in {"start", "call", "send"} /\ at[c][n] # "send"  BY <1>1 DEF Ready
<1>3. UNCHANGED <<resident, applied, refused, late, lapsed>> /\ CallOnly
  BY DEF Interrupt
<1>4. UNCHANGED <<db, nextId, pass, mem, unchecked>>  BY <1>3 DEF CallOnly
<1>5. UNCHANGED <<closed, epoch, status, step>>  BY <1>4 DEF db
<1>6. /\ resident \in [Nodes -> SUBSET Models] /\ quiet \in [Nodes -> 0 .. MaxEpoch]
      /\ held \in [Epochs -> [Nodes -> (SUBSET Models) \cup {NoSnapshot}]]
  BY DEF Inv, Types, TypesNodes
<1>0. mem'[c][n].phase # "verified"
  <2>1. mem[c][n].phase = "pending"  BY DEF Interrupt
  <2> QED  BY <2>1, <1>4
<1>7. Receipts'
  BY <1>3, <1>5 DEF Inv, Receipts, Expected, KnownReset
<1>8. CASE /\ Held(e) /\ NoFault /\ quiet' = [quiet EXCEPT ![n] = e]
           /\ held' = [held EXCEPT ![e][n] = IF @ = NoSnapshot THEN resident[n] ELSE @]
           /\ Answer(c, n, Says("quiescent"))
  <2>1. Says("quiescent") \in [says : Words, seen : SUBSET Models] /\ Says("quiescent").says = "quiescent"
    BY AnswerWords DEF Words
  <2>2. /\ CallStep(c, n) /\ TypesDb' /\ TypesCoord' /\ nextId' = nextId
        /\ got'[c][n].says = "quiescent"
    BY <2>1, <1>2, <1>3, <1>8, AnswerIsCall
  <2>3. e = epoch /\ closed  BY <1>8, HeldEpoch
  <2>4. quiet' \in [Nodes -> 0 .. MaxEpoch] /\ quiet'[n] = e
        /\ \A m \in Nodes : m # n => quiet'[m] = quiet[m]
    BY <1>1, <1>6, <1>8 DEF Epochs
  <2> DEFINE found == IF held[e][n] = NoSnapshot THEN resident[n] ELSE held[e][n]
  <2>5. found \in (SUBSET Models) \cup {NoSnapshot} /\ found # NoSnapshot
    <3>1. resident[n] # NoSnapshot  BY <1>6, Distinct
    <3> QED  BY <1>1, <1>6, <3>1
  <2>6. held' = [held EXCEPT ![e][n] = found]  BY <1>1, <1>6, <1>8
  <2>7. /\ held' \in [Epochs -> [Nodes -> (SUBSET Models) \cup {NoSnapshot}]]
        /\ held'[e][n] = found
        /\ \A f \in Epochs, m \in Nodes : ~(f = e /\ m = n) => held'[f][m] = held[f][m]
    <3> HIDE DEF found
    <3> QED  BY <2>5, <2>6, <1>1, <1>6
  <2>8. \A f \in Epochs, m \in Nodes :
          \/ held'[f][m] = held[f][m]
          \/ /\ m = n /\ Held(f) /\ held[f][m] = NoSnapshot /\ status[EntryOp(f)] # "none"
             /\ held'[f][m] = resident'[m] /\ quiet'[m] = f
    BY <2>4, <2>7, <1>1, <1>3, <1>8
  <2>9. NodeMove(n)  BY <2>3, <2>4, <2>8, <1>3 DEF NodeMove
  <2>10. Types'
    <3>1. faults' \in 0 .. MaxFaults  BY <1>8, FaultCounts
    <3> QED  BY <2>2, <2>4, <2>7, <3>1, <1>3, <1>4 DEF Inv, Types, TypesNodes
  <2>11. Told(c, n, e)'
    <3>1. held'[e][n] # NoSnapshot  BY <2>5, <2>7
    <3> QED  BY <3>1, <2>2, <1>0 DEF Told
  <2> QED  BY <2>2, <2>9, <2>10, <2>11, <1>1, <1>7, NodeMoveKeeps
<1>9. CASE (Fault \/ NoFault) /\ Answer(c, n, NoAnswer) /\ UNCHANGED <<quiet, held>>
  <2>1. /\ CallStep(c, n) /\ TypesDb' /\ TypesCoord' /\ nextId' = nextId
        /\ got'[c][n].says = "error"
    BY <1>2, <1>3, <1>9, AnswerIsCall, AnswerWords
  <2>2. NodeMove(n)  BY <1>3, <1>9 DEF NodeMove
  <2>3. Types'
    <3>1. faults' \in 0 .. MaxFaults  BY <1>9, FaultCounts
    <3> QED  BY <2>1, <3>1, <1>3, <1>4, <1>9 DEF Inv, Types, TypesNodes
  <2>4. Told(c, n, e)'  BY <2>1, <1>0, NothingTold
  <2> QED  BY <2>1, <2>2, <2>3, <2>4, <1>1, <1>7, NodeMoveKeeps
<1> QED  BY <1>1, <1>8, <1>9 DEF Interrupt

LEMMA ObserveKeeps ==
  ASSUME BoundAssumption, Inv, NEW c \in Coordinators, NEW n \in Nodes, Observe(c, n)
  PROVE  Inv'
<1>1. PICK e \in Epochs :
        /\ e = pass[c][2] /\ at[c][n] \in Ready
        /\ pass[c] = EntryOp(e) \/ pass[c] = RestoreOp(e)
        /\ \A f \in Epochs : pass[c] = EntryOp(f) \/ pass[c] = RestoreOp(f) => f = e
        /\ pass[c] = EntryOp(e) =>
             \/ mem[c][n].phase = "interrupted" /\ mem[c][n].snapshot = NoSnapshot
             \/ mem[c][n].phase = "reset"
        /\ pass[c] = RestoreOp(e) => mem[c][n].phase \in {"pending", "loaded", "probed"}
  <2>1. "enter" \in Kinds /\ "restore" \in Kinds  BY DEF Kinds
  <2>2. \/ /\ Here(c, n, Ready, "enter")
           /\ \/ mem[c][n].phase = "interrupted" /\ mem[c][n].snapshot = NoSnapshot
              \/ mem[c][n].phase = "reset"
        \/ /\ Here(c, n, Ready, "restore")
           /\ mem[c][n].phase \in {"pending", "loaded", "probed"}
    BY DEF Observe
  <2> QED  BY <2>1, <2>2, HereMeans, OperationsOf
<1>2. at[c][n] \in {"start", "call", "send"} /\ at[c][n] # "send" /\ at[c][n] # "claimed"
  BY <1>1 DEF Ready
<1>3. UNCHANGED <<nodeVars, history>> /\ CallOnly /\ (Fault \/ NoFault)
  BY DEF Observe, Observed
<1>4. UNCHANGED <<db, nextId, pass, mem, unchecked>>  BY <1>3 DEF CallOnly
<1>5. UNCHANGED <<closed, epoch, status, step, owner>>  BY <1>4 DEF db
<1>6. UNCHANGED <<resident, quiet, applied, refused, late, held, lapsed>>
  BY <1>3 DEF nodeVars, history
<1>7. Receipts'
  BY <1>5, <1>6 DEF Inv, Receipts, Expected, KnownReset
<1>8. NodeMove(n)  BY <1>6 DEF NodeMove
<1>9. PICK a \in {Saw(resident[n]), NoAnswer} : Answer(c, n, a)
  BY DEF Observe, Observed
<1>10. a \in [says : Words, seen : SUBSET Models]
       /\ (a = Saw(resident[n]) => a.says = "saw" /\ a.seen = resident[n])
       /\ (a = NoAnswer => a.says = "error")
  <2>1. resident[n] \in SUBSET Models  BY DEF Inv, Types, TypesNodes
  <2> QED  BY <2>1, <1>9, AnswerWords
<1>11. /\ CallStep(c, n) /\ TypesDb' /\ TypesCoord' /\ nextId' = nextId /\ got'[c][n] = a
       /\ at'[c][n] = "answered"
  BY <1>2, <1>3, <1>9, <1>10, AnswerIsCall
<1>12. Types'
  <2>1. faults' \in 0 .. MaxFaults  BY <1>3, FaultCounts
  <2> QED  BY <1>4, <1>6, <1>11, <2>1 DEF Inv, Types, TypesNodes
<1>13. pass[c] = EntryOp(e) => Told(c, n, e)'
  <2>0. pass[c] = EntryOp(e) => mem'[c][n].phase # "verified"  BY <1>1, <1>4
  <2>1. CASE a = NoAnswer  BY <2>0, <2>1, <1>10, <1>11, NothingTold
  <2>2. ASSUME a = Saw(resident[n]), pass[c] = EntryOp(e)  PROVE Told(c, n, e)'
    <3>1. got'[c][n].says = "saw" /\ got'[c][n].seen = resident[n]  BY <2>2, <1>10, <1>11
    <3>2. ASSUME mem[c][n].phase = "interrupted", Owns(c)
          PROVE  resident[n] = held[e][n]
      <4>1. mem[c][n] = step[EntryOp(e)][n] /\ Held(e)  BY <3>2, <2>2, <1>1, <1>2, OwnsMeans
      <4>2. EntryRow(e, n, mem[c][n])  BY <4>1, <1>1 DEF Inv, EntryRows
      <4>3. mem[c][n].snapshot = NoSnapshot  BY <3>2, <2>2, <1>1
      <4> QED  BY <3>2, <4>1, <4>2, <4>3 DEF EntryRow
    <3>3. Owns(c)' <=> Owns(c)  BY <1>4, <1>5 DEF Owns, Fenced
    <3> QED  BY <2>0, <2>2, <3>1, <3>2, <3>3, <1>4, <1>6 DEF Told
  <2> QED  BY <2>1, <2>2, <1>9
<1> QED  BY <1>1, <1>7, <1>8, <1>11, <1>12, <1>13, NodeMoveKeeps

\* A call on a route that changes the runtime: what it may have done to the
\* node, and what it leaves on file.
LEMMA SendMoves ==
  ASSUME BoundAssumption, Inv, NEW c \in Coordinators, NEW n \in Nodes, NEW call \in Call,
         NEW done \in Words, Expected(n, call), Send(c, n, call, done), CallOnly,
         at[c][n] \in {"start", "call", "send"}, UNCHANGED <<quiet, refused, held, lapsed>>
  PROVE  /\ NodeMove(n) /\ Types' /\ Receipts' /\ CallStep(c, n)
         /\ at'[c][n] = IF at[c][n] = "send" THEN "said" ELSE "answered"
         /\ \/ got'[c][n].says = "error"
            \/ /\ got'[c][n].says = done /\ Held(call.epoch)
               /\ call \in applied'[n] \cup refused[n]
<1>1. UNCHANGED <<db, nextId, pass, mem, unchecked>>  BY DEF CallOnly
<1>2. UNCHANGED <<closed, epoch, status, step>>  BY <1>1 DEF db
<1>3. /\ resident \in [Nodes -> SUBSET Models] /\ applied \in [Nodes -> SUBSET Call]
      /\ late \in [Nodes -> SUBSET Call]
  BY DEF Inv, Types, TypesNodes
<1> DEFINE Effect ==
      /\ NodeMove(n)
      /\ resident' \in [Nodes -> SUBSET Models] /\ applied' \in [Nodes -> SUBSET Call]
      /\ \A m \in Nodes : applied'[m] \subseteq
           applied[m] \cup (IF m = n /\ call \notin refused[n] THEN {call} ELSE {})
<1>4. ASSUME Perform(n, call), Held(call.epoch)
      PROVE  Effect /\ call \in applied'[n] \cup refused[n]
  BY <1>4, PerformMoves
<1>5. ASSUME UNCHANGED <<resident, applied>>  PROVE Effect
  BY <1>5, <1>3 DEF NodeMove
<1>6. /\ Effect /\ late' \in {late, [late EXCEPT ![n] = @ \cup {call}]} /\ (Fault \/ NoFault)
      /\ \/ Answer(c, n, Says(done)) /\ Held(call.epoch) /\ call \in applied'[n] \cup refused[n]
         \/ Answer(c, n, NoAnswer)
  <2> HIDE DEF Effect
  <2> QED  BY <1>4, <1>5 DEF Send
<1>7. late' \in [Nodes -> SUBSET Call]
      /\ \A m \in Nodes : late'[m] \subseteq late[m] \cup (IF m = n THEN {call} ELSE {})
  BY <1>3, <1>6
<1>8. PICK a \in {Says(done), NoAnswer} :
        /\ Answer(c, n, a)
        /\ a = NoAnswer \/ (Held(call.epoch) /\ call \in applied'[n] \cup refused[n])
  BY <1>6
<1>9. a \in [says : Words, seen : SUBSET Models]
      /\ (a = Says(done) => a.says = done) /\ (a = NoAnswer => a.says = "error")
  BY AnswerWords
<1>10. /\ CallStep(c, n) /\ TypesDb' /\ TypesCoord' /\ nextId' = nextId /\ got'[c][n] = a
       /\ at'[c][n] = IF at[c][n] = "send" THEN "said" ELSE "answered"
  BY <1>8, <1>9, AnswerIsCall
<1>11. Types'
  <2>1. faults' \in 0 .. MaxFaults  BY <1>6, FaultCounts
  <2> QED  BY <2>1, <1>6, <1>7, <1>10 DEF Inv, Types, TypesNodes
<1>12. Receipts'
  <2> SUFFICES ASSUME NEW m \in Nodes
               PROVE  /\ applied'[m] \cap refused'[m] = {}
                      /\ \A x \in applied'[m] \cup late'[m] : Expected(m, x)'
    BY DEF Receipts
  <2>1. applied[m] \cap refused[m] = {} /\ \A x \in applied[m] \cup late[m] : Expected(m, x)
    BY DEF Inv, Receipts
  <2>2. \A x \in applied'[m] \cup late'[m] : Expected(m, x)
    BY <2>1, <1>6, <1>7
  <2>3. applied'[m] \cap refused[m] = {}  BY <2>1, <1>6
  <2> QED  BY <2>2, <2>3, <1>2, ExpectedStays
<1> QED  BY <1>6, <1>8, <1>9, <1>10, <1>11, <1>12

LEMMA ResetCallIs ==
  ASSUME BoundAssumption, NEW e \in Epochs, NEW id \in Nat
  PROVE  /\ ResetCall(e, id) \in Call /\ ResetCall(e, id).kind = "reset"
         /\ ResetCall(e, id).epoch = e /\ ResetCall(e, id).id = id
BY DEF ResetCall, Call, BoundAssumption

LEMMA ResetKeeps ==
  ASSUME BoundAssumption, Inv, NEW c \in Coordinators, NEW n \in Nodes, Reset(c, n)
  PROVE  Inv'
<1>1. PICK e \in Epochs :
        /\ pass[c] = EntryOp(e) /\ pass[c][2] = e /\ at[c][n] \in Ready
        /\ \A f \in Epochs : (pass[c] = EntryOp(f) => f = e) /\ pass[c] # RestoreOp(f)
  <2>1. Here(c, n, Ready, "enter")  BY DEF Reset
  <2>2. "enter" \in Kinds  BY DEF Kinds
  <2>3. pass[c] = EntryOp(pass[c][2]) /\ pass[c][2] \in Epochs /\ at[c][n] \in Ready
    BY <2>1, <2>2, HereMeans
  <2> QED  BY <2>3, OperationsOf
<1>2. at[c][n] \in {"start", "call", "send"} /\ at[c][n] # "send"  BY <1>1 DEF Ready
<1>3. PICK id \in Nat \ {0} : id = mem[c][n].resetId
  BY DEF Reset, Inv, Types, TypesCoord, Row
<1>4. PICK call \in Call : call = ResetCall(e, id) /\ call.kind = "reset" /\ call.epoch = e /\ call.id = id
  BY <1>3, ResetCallIs
<1>5. CopyOfEntry(e, n, mem[c][n]) /\ mem[c][n].phase = "snapshotted"
  BY <1>1 DEF Inv, Copies, Reset
<1>6. step[EntryOp(e)][n].snapshot # NoSnapshot /\ KnownReset(n, e, id)
  BY <1>3, <1>5 DEF CopyOfEntry
<1>7. Expected(n, call)  BY <1>3, <1>4, <1>6 DEF Expected
<1>8. CallOnly /\ UNCHANGED <<held, lapsed>>  BY DEF Reset, history
<1>9. UNCHANGED <<db, nextId, pass, mem, unchecked>>  BY <1>8 DEF CallOnly
<1>10. UNCHANGED <<closed, epoch, status, step>>  BY <1>9 DEF db
<1>11. ResetCall(e, mem'[c][n].resetId) = call  BY <1>3, <1>4, <1>9
<1>0. mem'[c][n].phase # "verified"  BY <1>5, <1>9
<1>12. ASSUME NodeMove(n), Types', Receipts', CallStep(c, n), Told(c, n, e)'
       PROVE  Inv'
  BY <1>1, <1>12, NodeMoveKeeps
<1>13. ASSUME Held(e) => quiet[n] = e, UNCHANGED <<quiet, refused>>,
              NEW answer \in IF call \in refused[n] THEN {"restart_failed"} ELSE {"resolved", "unresolved"},
              Send(c, n, call, answer)
       PROVE  Inv'
  <2>1. answer \in Words  BY DEF Words
  <2>2. /\ NodeMove(n) /\ Types' /\ Receipts' /\ CallStep(c, n)
        /\ \/ got'[c][n].says = "error"
           \/ got'[c][n].says = answer /\ Held(e) /\ call \in applied'[n] \cup refused[n]
    BY <2>1, <1>2, <1>4, <1>7, <1>8, <1>13, SendMoves
  <2>3. Told(c, n, e)'
    <3>1. CASE got'[c][n].says = "error"  BY <3>1, <1>0, NothingTold
    <3>2. CASE /\ got'[c][n].says = answer /\ Held(e) /\ call \in applied'[n] \cup refused[n]
      <4>1. CASE call \in refused[n]
        BY <3>2, <4>1, <1>0, <1>11, <1>13 DEF Told
      <4>2. CASE call \notin refused[n]
        <5>1. WasReset(n, e)'  BY <3>2, <4>2, <1>4 DEF WasReset
        <5>2. quiet'[n] = e  BY <3>2, <1>13
        <5>3. answer \in {"resolved", "unresolved"}  BY <4>2
        <5> QED  BY <3>2, <5>1, <5>2, <5>3, <1>0 DEF Told
      <4> QED  BY <4>1, <4>2
    <3> QED  BY <2>2, <3>1, <3>2
  <2> QED  BY <2>2, <2>3, <1>12
<1>14. ASSUME Held(e), quiet[n] = e, call \notin applied[n] \cup refused[n], Fault,
              Answer(c, n, Says("restart_failed")),
              refused' = [refused EXCEPT ![n] = @ \cup {call}],
              resident' \in {resident, [resident EXCEPT ![n] = {}]},
              UNCHANGED <<quiet, applied, late>>
       PROVE  Inv'
  <2>1. Says("restart_failed") \in [says : Words, seen : SUBSET Models]
        /\ Says("restart_failed").says = "restart_failed"
    BY AnswerWords DEF Words
  <2>2. /\ CallStep(c, n) /\ TypesDb' /\ TypesCoord' /\ nextId' = nextId
        /\ got'[c][n].says = "restart_failed"
    BY <2>1, <1>2, <1>8, <1>14, AnswerIsCall
  <2>3. /\ resident \in [Nodes -> SUBSET Models] /\ refused \in [Nodes -> SUBSET Call]
        /\ applied \in [Nodes -> SUBSET Call]
    BY DEF Inv, Types, TypesNodes
  <2>4. refused' \in [Nodes -> SUBSET Call] /\ call \in refused'[n]
        /\ \A m \in Nodes : /\ refused[m] \subseteq refused'[m]
                            /\ refused'[m] \subseteq refused[m] \cup (IF m = n THEN {call} ELSE {})
    BY <2>3, <1>14
  <2>5. resident' \in [Nodes -> SUBSET Models] /\ (resident'[n] = resident[n] \/ resident'[n] = {})
        /\ \A m \in Nodes : m # n => resident'[m] = resident[m]
    BY <2>3, <1>14
  <2>6. e = epoch /\ closed  BY <1>14, HeldEpoch
  <2>7. status[RestoreOp(epoch)] = "none"
    BY <2>6, <1>3, <1>4, <1>6, <1>14, ResetMade
  <2>8. NodeMove(n)  BY <2>4, <2>5, <2>6, <2>7, <1>6, <1>8, <1>14 DEF NodeMove
  <2>9. Types'
    <3>1. faults' \in 0 .. MaxFaults  BY <1>14, FaultCounts
    <3> QED  BY <2>2, <2>4, <2>5, <3>1, <1>8, <1>14 DEF Inv, Types, TypesNodes
  <2>10. Receipts'
    <3> SUFFICES ASSUME NEW m \in Nodes
                 PROVE  /\ applied'[m] \cap refused'[m] = {}
                        /\ \A x \in applied'[m] \cup late'[m] : Expected(m, x)'
      BY DEF Receipts
    <3>1. applied[m] \cap refused[m] = {} /\ \A x \in applied[m] \cup late[m] : Expected(m, x)
      BY DEF Inv, Receipts
    <3>2. applied'[m] \cap refused'[m] = {}  BY <3>1, <2>4, <1>14
    <3> QED  BY <3>1, <3>2, <2>4, <1>10, <1>14, ExpectedStays
  <2>11. Told(c, n, e)'  BY <2>2, <2>4, <1>0, <1>11 DEF Told
  <2> QED  BY <2>2, <2>8, <2>9, <2>10, <2>11, <1>12
<1>15. ASSUME Held(e), Answer(c, n, Says("not_quiescent")), quiet' = [quiet EXCEPT ![n] = 0],
              IF quiet[n] = e THEN Fault /\ ~WasReset(n, e) ELSE NoFault,
              UNCHANGED <<resident, applied, refused, late>>
       PROVE  Inv'
  <2>1. Says("not_quiescent") \in [says : Words, seen : SUBSET Models]
        /\ Says("not_quiescent").says = "not_quiescent"
    BY AnswerWords DEF Words
  <2>2. /\ CallStep(c, n) /\ TypesDb' /\ TypesCoord' /\ nextId' = nextId
        /\ got'[c][n].says = "not_quiescent"
    BY <2>1, <1>2, <1>8, <1>15, AnswerIsCall
  <2>3. quiet \in [Nodes -> 0 .. MaxEpoch] /\ MaxEpoch \in Nat
    BY DEF Inv, Types, TypesNodes, BoundAssumption
  <2>4. quiet' \in [Nodes -> 0 .. MaxEpoch] /\ \A m \in Nodes : m # n => quiet'[m] = quiet[m]
    BY <2>3, <1>15
  <2>5. e = epoch /\ closed  BY <1>15, HeldEpoch
  <2>6. NodeMove(n)  BY <2>4, <2>5, <1>6, <1>8, <1>15 DEF NodeMove
  <2>7. Types'
    <3>1. faults' \in 0 .. MaxFaults  BY <1>15, FaultCounts
    <3> QED  BY <2>2, <2>4, <3>1, <1>8, <1>15 DEF Inv, Types, TypesNodes
  <2>8. Receipts'  BY <1>10, <1>15 DEF Inv, Receipts, Expected, KnownReset
  <2>9. Told(c, n, e)'  BY <2>2, <1>0, NothingTold
  <2> QED  BY <2>2, <2>6, <2>7, <2>8, <2>9, <1>12
<1>16. ResetCall(pass[c][2], mem[c][n].resetId) = call  BY <1>1, <1>3, <1>4
<1> QED  BY <1>1, <1>13, <1>14, <1>15, <1>16 DEF Reset

LEMMA LoadCallIs ==
  ASSUME NEW e \in Epochs, NEW id \in Nat, NEW model \in 0 .. NumModels
  PROVE  \E call \in Call :
           /\ call = [kind |-> "load", epoch |-> e, id |-> id, model |-> model]
           /\ call.kind = "load" /\ call.epoch = e /\ call.model = model
<1> DEFINE call == [kind |-> "load", epoch |-> e, id |-> id, model |-> model]
<1>1. call \in Call /\ call.kind = "load" /\ call.epoch = e /\ call.model = model
  BY DEF Call
<1> HIDE DEF call
<1>2. call = [kind |-> "load", epoch |-> e, id |-> id, model |-> model]  BY DEF call
<1> QED  BY <1>1, <1>2

LEMMA SendLoadKeeps ==
  ASSUME BoundAssumption, Inv, NEW c \in Coordinators, NEW n \in Nodes, SendLoad(c, n)
  PROVE  Inv'
<1>1. PICK e \in Epochs :
        /\ pass[c] = RestoreOp(e) /\ pass[c][2] = e /\ at[c][n] = "send" /\ status[pass[c]] # "none"
        /\ \A f \in Epochs : (pass[c] = RestoreOp(f) => f = e) /\ pass[c] # EntryOp(f)
  <2>1. Here(c, n, {"send"}, "restore")  BY DEF SendLoad
  <2>2. "restore" \in Kinds  BY DEF Kinds
  <2>3. /\ pass[c] = RestoreOp(pass[c][2]) /\ pass[c][2] \in Epochs /\ at[c][n] = "send"
        /\ status[pass[c]] # "none"
    BY <2>1, <2>2, HereMeans
  <2> QED  BY <2>3, OperationsOf
<1>2. CopyOfRestore(e, n, mem[c][n], "send")  BY <1>1 DEF Inv, Copies
<1>3. mem[c][n].open \in step[RestoreOp(e)][n].snapshot /\ mem[c][n].phase = "pending"
  BY <1>2 DEF CopyOfRestore
<1>4. mem[c][n] \in Row  BY DEF Inv, Types, TypesCoord
<1>5. mem[c][n].loads \in Nat /\ mem[c][n].open \in 0 .. NumModels
  <2>1. LoadCap \in Nat  BY DEF LoadCap, BoundAssumption
  <2> QED  BY <2>1, <1>4 DEF Row
<1>6. PICK call \in Call :
        /\ call = [kind |-> "load", epoch |-> pass[c][2], id |-> mem[c][n].loads, model |-> mem[c][n].open]
        /\ call.kind = "load" /\ call.epoch = e /\ call.model = mem[c][n].open
  BY <1>1, <1>5, LoadCallIs
<1>7. Expected(n, call)  BY <1>1, <1>3, <1>6 DEF Expected
<1>8. CallOnly /\ UNCHANGED <<quiet, refused, held, lapsed>>  BY DEF SendLoad, history
<1>9. UNCHANGED <<db, nextId, pass, mem, unchecked>>  BY <1>8 DEF CallOnly
<1>10. ASSUME NodeMove(n), Types', Receipts', CallStep(c, n), at'[c][n] = "said"
       PROVE  Inv'
  BY <1>1, <1>3, <1>10, NodeMoveKeeps
<1>11. CASE Send(c, n, call, "completed")
  <2>1. "completed" \in Words  BY DEF Words
  <2>2. NodeMove(n) /\ Types' /\ Receipts' /\ CallStep(c, n) /\ at'[c][n] = "said"
    BY <2>1, <1>1, <1>7, <1>8, <1>11, SendMoves
  <2> QED  BY <2>2, <1>10
<1>12. CASE Fault /\ Answer(c, n, Says("failed")) /\ UNCHANGED <<resident, applied, late>>
  <2>1. Says("failed") \in [says : Words, seen : SUBSET Models]
    BY AnswerWords DEF Words
  <2>2. CallStep(c, n) /\ TypesDb' /\ TypesCoord' /\ nextId' = nextId /\ at'[c][n] = "said"
    BY <2>1, <1>1, <1>8, <1>12, AnswerIsCall
  <2>3. NodeMove(n)  BY <1>8, <1>12 DEF NodeMove
  <2>4. Types'
    <3>1. faults' \in 0 .. MaxFaults  BY <1>12, FaultCounts
    <3> QED  BY <2>2, <3>1, <1>8, <1>12 DEF Inv, Types, TypesNodes
  <2>5. UNCHANGED <<status, step>>  BY <1>9 DEF db
  <2>6. Receipts'  BY <2>5, <1>8, <1>12 DEF Inv, Receipts, Expected, KnownReset
  <2> QED  BY <2>2, <2>3, <2>4, <2>6, <1>10
<1> QED  BY <1>6, <1>11, <1>12 DEF SendLoad

LEMMA ProbeKeeps ==
  ASSUME BoundAssumption, Inv, NEW c \in Coordinators, NEW n \in Nodes, Probe(c, n)
  PROVE  Inv'
<1>1. PICK e \in Epochs :
        /\ pass[c] = RestoreOp(e) /\ pass[c][2] = e /\ at[c][n] \in Ready
        /\ \A f \in Epochs : (pass[c] = RestoreOp(f) => f = e) /\ pass[c] # EntryOp(f)
  <2>1. Here(c, n, Ready, "restore")  BY DEF Probe
  <2>2. "restore" \in Kinds  BY DEF Kinds
  <2>3. pass[c] = RestoreOp(pass[c][2]) /\ pass[c][2] \in Epochs /\ at[c][n] \in Ready
    BY <2>1, <2>2, HereMeans
  <2> QED  BY <2>3, OperationsOf
<1>2. UNCHANGED <<resident, quiet, applied, refused, late, held, lapsed>> /\ CallOnly
  BY DEF Probe, nodeVars, history
<1>3. UNCHANGED <<db, nextId, pass, mem, unchecked>>  BY <1>2 DEF CallOnly
<1>4. PICK a \in {Says("completed"), NoAnswer} : got' = [got EXCEPT ![c][n] = a]
  BY DEF Probe
<1>5. a \in [says : Words, seen : SUBSET Models]  BY AnswerWords DEF Words
<1>6. at' = [at EXCEPT ![c][n] = "said"] /\ "said" \in Places /\ (Fault \/ NoFault)
      /\ mem[c][n].probed # mem[c][n].snapshot
  BY DEF Probe, Places
<1>7. CallStep(c, n)  BY <1>1, <1>3, <1>4, <1>5, <1>6 DEF CallStep, Ready
<1>8. Types'
  <2>1. faults' \in 0 .. MaxFaults  BY <1>6, FaultCounts
  <2>2. at' \in [Coordinators -> [Nodes -> Places]]
        /\ got' \in [Coordinators -> [Nodes -> [says : Words, seen : SUBSET Models]]]
    BY <1>4, <1>5, <1>6 DEF Inv, Types, TypesCoord
  <2>3. TypesCoord'  BY <1>3, <2>2 DEF Inv, Types, TypesCoord
  <2>4. TypesDb'  BY <1>3 DEF Inv, Types, TypesDb, db
  <2> QED  BY <2>1, <2>3, <2>4, <1>2, <1>3 DEF Inv, Types, TypesNodes
<1>9. NodeMove(n)  BY <1>2 DEF NodeMove
<1>10. UNCHANGED <<status, step>>  BY <1>3 DEF db
<1>11. Receipts'  BY <1>2, <1>10 DEF Inv, Receipts, Expected, KnownReset
<1>12. at'[c][n] = "said"  BY <1>6 DEF Inv, Types, TypesCoord
<1> QED  BY <1>1, <1>12, <1>6, <1>7, <1>8, <1>9, <1>11, NodeMoveKeeps

-----------------------------------------------------------------------------
(* What the coordinators write.                                            *)

\* A row a coordinator may write over the one it owns, and where it goes on.
Sound(c, n, s, where) ==
  LET row == step[pass[c]][n] IN
  /\ s \in Row /\ s.resetId <= nextId' /\ (s.status = "running" => s.attempts < MaxAttempts)
  /\ where \in {"call", "send", "ended"}
  /\ \A e \in Epochs : pass[c] = EntryOp(e) =>
       /\ EntryRow(e, n, s)
       /\ row.snapshot # NoSnapshot => s.snapshot = row.snapshot
       /\ s.resetId = row.resetId \/ row.resetId = 0 \/ ResetCall(e, row.resetId) \in refused[n]
  /\ \A e \in Epochs : pass[c] = RestoreOp(e) =>
       /\ s.snapshot = row.snapshot /\ s.probed \subseteq s.snapshot
       /\ where = "send" => s.phase = "pending" /\ s.open \in s.snapshot

\* What writing a row leaves alone.
WriteFrame(c, n) ==
  /\ WriteOnly /\ nextId' \in {nextId, nextId + 1} /\ faults' \in 0 .. MaxFaults
  /\ got' \in {got, [got EXCEPT ![c][n] = NoAnswer]}

LEMMA WriteFrameTypes ==
  ASSUME Inv, NEW c \in Coordinators, NEW n \in Nodes, WriteFrame(c, n), NEW where \in Places,
         at' = [at EXCEPT ![c][n] = where]
  PROVE  /\ UNCHANGED <<closed, epoch, status, owner, leased, asked, resident, quiet, applied,
                        refused, late, pass, unchecked, held, lapsed>>
         /\ TypesNodes' /\ nextId \in Nat /\ nextId' \in Nat /\ nextId <= nextId'
         /\ at' \in [Coordinators -> [Nodes -> Places]] /\ at'[c][n] = where
         /\ got' \in [Coordinators -> [Nodes -> [says : Words, seen : SUBSET Models]]]
         /\ \A d \in Coordinators, m \in Nodes : ~(d = c /\ m = n) =>
              at'[d][m] = at[d][m] /\ got'[d][m] = got[d][m]
         /\ \A d \in Coordinators : Owns(d)' <=> Owns(d)
         /\ \A e \in Epochs : Held(e)' <=> Held(e)
<1>1. UNCHANGED <<closed, epoch, status, owner, leased, asked, resident, quiet, applied,
                  refused, late, pass, unchecked, held, lapsed>>
  BY DEF WriteFrame, WriteOnly, nodeVars, history
<1>2. nextId \in Nat /\ nextId' \in Nat /\ nextId <= nextId'
  BY DEF Inv, Types, TypesNodes, WriteFrame
<1>3. TypesNodes'  BY <1>1, <1>2 DEF Inv, Types, TypesNodes, WriteFrame
<1>4. at \in [Coordinators -> [Nodes -> Places]]
      /\ got \in [Coordinators -> [Nodes -> [says : Words, seen : SUBSET Models]]]
  BY DEF Inv, Types, TypesCoord
<1>5. /\ at' \in [Coordinators -> [Nodes -> Places]] /\ at'[c][n] = where
      /\ \A d \in Coordinators, m \in Nodes : ~(d = c /\ m = n) => at'[d][m] = at[d][m]
  BY <1>4
<1>6. /\ got' \in [Coordinators -> [Nodes -> [says : Words, seen : SUBSET Models]]]
      /\ \A d \in Coordinators, m \in Nodes : ~(d = c /\ m = n) => got'[d][m] = got[d][m]
  <2>1. NoAnswer \in [says : Words, seen : SUBSET Models]  BY AnswerWords
  <2>2. CASE got' = got  BY <2>2, <1>4
  <2>3. CASE got' = [got EXCEPT ![c][n] = NoAnswer]  BY <2>1, <2>3, <1>4
  <2> QED  BY <2>2, <2>3 DEF WriteFrame
<1>7. \A d \in Coordinators : Owns(d)' <=> Owns(d)  BY <1>1 DEF Owns, Fenced
<1>8. \A e \in Epochs : Held(e)' <=> Held(e)  BY <1>1 DEF Held
<1> QED  BY <1>1, <1>2, <1>3, <1>5, <1>6, <1>7, <1>8

\* A coordinator that writes nothing and stops, or goes on with the load it has
\* on record.
LEMMA NothingWritten ==
  ASSUME BoundAssumption, Inv, NEW c \in Coordinators, NEW n \in Nodes, WriteFrame(c, n),
         NEW where \in {"ended", "send"}, at' = [at EXCEPT ![c][n] = where],
         UNCHANGED <<step, mem>>, at[c][n] # "claimed", pass[c] \in Operations,
         where = "send" => /\ pass[c][1] = "restore" /\ mem[c][n].phase = "pending"
                           /\ mem[c][n].open \in mem[c][n].snapshot
  PROVE  Inv'
<1>0. where \in Places  BY DEF Places
<1>1. /\ UNCHANGED <<closed, epoch, status, owner, leased, asked, resident, quiet, applied,
                     refused, late, pass, unchecked, held, lapsed>>
      /\ TypesNodes' /\ nextId \in Nat /\ nextId' \in Nat /\ nextId <= nextId'
      /\ at' \in [Coordinators -> [Nodes -> Places]] /\ at'[c][n] = where
      /\ got' \in [Coordinators -> [Nodes -> [says : Words, seen : SUBSET Models]]]
      /\ \A d \in Coordinators, m \in Nodes : ~(d = c /\ m = n) =>
           at'[d][m] = at[d][m] /\ got'[d][m] = got[d][m]
      /\ \A d \in Coordinators : Owns(d)' <=> Owns(d)
      /\ \A e \in Epochs : Held(e)' <=> Held(e)
  BY <1>0, WriteFrameTypes
<1>2. Types'
  <2>1. \A o \in Operations, m \in Nodes : step[o][m].resetId <= nextId'
    <3> SUFFICES ASSUME NEW o \in Operations, NEW m \in Nodes
                 PROVE  step[o][m].resetId <= nextId'
      OBVIOUS
    <3>1. step[o][m].resetId <= nextId /\ step[o][m].resetId \in Nat
      BY DEF Inv, Types, TypesDb, Row
    <3> QED  BY <3>1, <1>1
  <2>2. TypesDb'  BY <2>1, <1>1 DEF Inv, Types, TypesDb
  <2>3. TypesCoord'  BY <1>1 DEF Inv, Types, TypesCoord
  <2> QED  BY <2>2, <2>3, <1>1 DEF Types
<1>3. Unrecorded' /\ RestoreFollows'
  BY <1>1 DEF Inv, Unrecorded, RestoreFollows, Restorable
<1>4. OwnCopy'  BY <1>1 DEF Inv, OwnCopy
<1>5. UnderHold'
  <2> SUFFICES ASSUME NEW d \in Coordinators, NEW m \in Nodes, Owns(d)',
                      at'[d][m] # "claimed" \/ unchecked'[d] # {}
               PROVE  Held(pass[d][2])'
    BY <1>1 DEF UnderHold
  <2>1. (at[d][m] # "claimed" \/ unchecked[d] # {}) /\ Owns(d)  BY <1>1
  <2>2. Held(pass[d][2])  BY <2>1 DEF Inv, UnderHold
  <2> QED  BY <2>2, <1>1 DEF Held
<1>6. EntryRows'
  BY <1>1 DEF Inv, EntryRows, EntryRow, Held, WasReset
<1>7. Receipts'
  BY <1>1 DEF Inv, Receipts, Expected, KnownReset
<1>8. Copies'
  <2> SUFFICES ASSUME NEW d \in Coordinators, NEW m \in Nodes, NEW e \in Epochs
               PROVE  /\ pass[d] = EntryOp(e) => CopyOfEntry(e, m, mem[d][m])'
                      /\ pass[d] = RestoreOp(e) => CopyOfRestore(e, m, mem[d][m], at[d][m])'
    BY <1>1 DEF Copies
  <2>1. ASSUME pass[d] = EntryOp(e)  PROVE CopyOfEntry(e, m, mem[d][m])'
    <3>1. CopyOfEntry(e, m, mem[d][m])  BY <2>1 DEF Inv, Copies
    <3> QED  BY <3>1, <1>1 DEF CopyOfEntry, KnownReset
  <2>2. ASSUME pass[d] = RestoreOp(e)  PROVE CopyOfRestore(e, m, mem[d][m], at[d][m])'
    <3>1. CopyOfRestore(e, m, mem[d][m], at[d][m])  BY <2>2 DEF Inv, Copies
    <3>2. CASE d = c /\ m = n
      BY <3>1, <3>2, <1>1 DEF CopyOfRestore
    <3>3. CASE ~(d = c /\ m = n)
      BY <3>1, <3>3, <1>1 DEF CopyOfRestore
    <3> QED  BY <3>2, <3>3
  <2> QED  BY <2>1, <2>2
<1>9. Answers'
  <2> SUFFICES ASSUME NEW d \in Coordinators, NEW m \in Nodes, NEW e \in Epochs,
                      pass[d] = EntryOp(e), at'[d][m] = "answered"
               PROVE  Told(d, m, e)'
    BY <1>1 DEF Answers
  <2>1. ~(d = c /\ m = n)  BY <1>1
  <2>2. Told(d, m, e)  BY <2>1, <1>1 DEF Inv, Answers
  <2> QED  BY <2>1, <2>2, <1>1 DEF Told, Held, WasReset
<1>10. Looks'
  BY <1>1 DEF Inv, Looks, Held
<1> QED  BY <1>2, <1>3, <1>4, <1>5, <1>6, <1>7, <1>8, <1>9, <1>10 DEF Inv

\* A coordinator that writes a sound row of the operation it owns: the others that
\* stand there hold an older copy of it, and their calls stay expected.
LEMMA Written ==
  ASSUME BoundAssumption, Inv, NEW c \in Coordinators, NEW n \in Nodes, WriteFrame(c, n),
         NEW s, NEW where, Sound(c, n, s, where), Owns(c), at[c][n] # "claimed",
         step' = [step EXCEPT ![pass[c]][n] = s], mem' = [mem EXCEPT ![c][n] = s],
         at' = [at EXCEPT ![c][n] = where]
  PROVE  Inv'
<1>0. where \in Places /\ where \in {"call", "send", "ended"} /\ s \in Row  BY DEF Sound, Places
<1>1. /\ UNCHANGED <<closed, epoch, status, owner, leased, asked, resident, quiet, applied,
                     refused, late, pass, unchecked, held, lapsed>>
      /\ TypesNodes' /\ nextId \in Nat /\ nextId' \in Nat /\ nextId <= nextId'
      /\ at' \in [Coordinators -> [Nodes -> Places]] /\ at'[c][n] = where
      /\ got' \in [Coordinators -> [Nodes -> [says : Words, seen : SUBSET Models]]]
      /\ \A d \in Coordinators, m \in Nodes : ~(d = c /\ m = n) =>
           at'[d][m] = at[d][m] /\ got'[d][m] = got[d][m]
      /\ \A d \in Coordinators : Owns(d)' <=> Owns(d)
      /\ \A e \in Epochs : Held(e)' <=> Held(e)
  BY <1>0, WriteFrameTypes
<1>2. PICK o \in Operations : o = pass[c] /\ status[o] = "running"
  BY DEF Owns, Fenced
<1>3. step \in [Operations -> [Nodes -> Row]] /\ mem \in [Coordinators -> [Nodes -> Row]]
  BY DEF Inv, Types, TypesDb, TypesCoord
<1>4. /\ step' \in [Operations -> [Nodes -> Row]] /\ step'[o][n] = s
      /\ \A p \in Operations, m \in Nodes : ~(p = o /\ m = n) => step'[p][m] = step[p][m]
      /\ \A p \in Operations : p # o => step'[p] = step[p]
  BY <1>0, <1>2, <1>3
<1>5. /\ mem' \in [Coordinators -> [Nodes -> Row]] /\ mem'[c][n] = s
      /\ \A d \in Coordinators, m \in Nodes : ~(d = c /\ m = n) => mem'[d][m] = mem[d][m]
      /\ \A d \in Coordinators : d # c => mem'[d] = mem[d]
  BY <1>0, <1>3
<1>6. Types'
  <2>1. ASSUME NEW p \in Operations, NEW m \in Nodes
        PROVE  /\ step'[p][m].resetId <= nextId'
               /\ step'[p][m].status = "running" => step'[p][m].attempts < MaxAttempts
    <3>1. /\ step[p][m].resetId <= nextId /\ step[p][m].resetId \in Nat
          /\ step[p][m].status = "running" => step[p][m].attempts < MaxAttempts
      BY DEF Inv, Types, TypesDb, Row
    <3>2. CASE p = o /\ m = n  BY <3>2, <1>4 DEF Sound
    <3>3. CASE ~(p = o /\ m = n)
      <4>1. step'[p][m] = step[p][m]  BY <3>3, <1>4
      <4> QED  BY <3>1, <4>1, <1>1
    <3> QED  BY <3>2, <3>3
  <2>2. TypesDb'  BY <2>1, <1>1, <1>4 DEF Inv, Types, TypesDb
  <2>3. TypesCoord'  BY <1>1, <1>5 DEF Inv, Types, TypesCoord
  <2> QED  BY <2>2, <2>3, <1>1 DEF Types
<1>7. \A e \in Epochs : status[EntryOp(e)] # "running" => step'[EntryOp(e)] = step[EntryOp(e)]
  BY <1>2, <1>4, OperationsOf
<1>8. Unrecorded'
  <2>1. \A e \in Epochs : status[EntryOp(e)] = "none"
          => /\ step'[EntryOp(e)] = [m \in Nodes |-> NewStep(NoSnapshot)]
             /\ \A m \in Nodes : held[e][m] = NoSnapshot
    <3> SUFFICES ASSUME NEW e \in Epochs, status[EntryOp(e)] = "none"
                 PROVE  /\ step'[EntryOp(e)] = [m \in Nodes |-> NewStep(NoSnapshot)]
                        /\ \A m \in Nodes : held[e][m] = NoSnapshot
      OBVIOUS
    <3>1. step'[EntryOp(e)] = step[EntryOp(e)]  BY <1>7
    <3> QED  BY <3>1 DEF Inv, Unrecorded
  <2> QED  BY <2>1, <1>1 DEF Inv, Unrecorded
<1>9. \A e \in Epochs : pass[c] = RestoreOp(e) =>
        s.snapshot = step[RestoreOp(e)][n].snapshot /\ s.probed \subseteq s.snapshot
  BY DEF Sound
<1>10. \A e \in Epochs, m \in Nodes :
         /\ step'[RestoreOp(e)][m].snapshot = step[RestoreOp(e)][m].snapshot
         /\ \/ step'[RestoreOp(e)][m] = step[RestoreOp(e)][m]
            \/ step'[RestoreOp(e)][m].probed \subseteq step'[RestoreOp(e)][m].snapshot
  <2> SUFFICES ASSUME NEW e \in Epochs, NEW m \in Nodes
               PROVE  /\ step'[RestoreOp(e)][m].snapshot = step[RestoreOp(e)][m].snapshot
                      /\ \/ step'[RestoreOp(e)][m] = step[RestoreOp(e)][m]
                         \/ step'[RestoreOp(e)][m].probed \subseteq step'[RestoreOp(e)][m].snapshot
    OBVIOUS
  <2>1. RestoreOp(e) \in Operations  BY OperationsOf
  <2>2. CASE RestoreOp(e) = o /\ m = n  BY <2>2, <1>2, <1>4, <1>9
  <2>3. CASE ~(RestoreOp(e) = o /\ m = n)  BY <2>1, <2>3, <1>4
  <2> QED  BY <2>2, <2>3
<1>11. RestoreFollows'
  <2> SUFFICES ASSUME NEW e \in Epochs
               PROVE  /\ status[EntryOp(e)] = "succeeded" =>
                           \A m \in Nodes : step'[EntryOp(e)][m].status = "done"
                      /\ asked = RestoreOp(e) => Restorable(e)' /\ e <= epoch
                      /\ status[RestoreOp(e)] # "none" =>
                           /\ Restorable(e)'
                           /\ \A m \in Nodes :
                                /\ step'[RestoreOp(e)][m].snapshot = step'[EntryOp(e)][m].snapshot
                                /\ step'[RestoreOp(e)][m].probed \subseteq step'[RestoreOp(e)][m].snapshot
    BY <1>1 DEF RestoreFollows
  <2>1. /\ status[EntryOp(e)] = "succeeded" => \A m \in Nodes : step[EntryOp(e)][m].status = "done"
        /\ asked = RestoreOp(e) => Restorable(e) /\ e <= epoch
        /\ status[RestoreOp(e)] # "none" =>
             /\ Restorable(e)
             /\ \A m \in Nodes :
                  /\ step[RestoreOp(e)][m].snapshot = step[EntryOp(e)][m].snapshot
                  /\ step[RestoreOp(e)][m].probed \subseteq step[RestoreOp(e)][m].snapshot
    BY DEF Inv, RestoreFollows
  <2>2. status[EntryOp(e)] = "succeeded" => step'[EntryOp(e)] = step[EntryOp(e)]
    BY <1>7
  <2>3. Restorable(e) => Restorable(e)' /\ step'[EntryOp(e)] = step[EntryOp(e)]
    BY <2>2, <1>1 DEF Restorable
  <2>4. status[RestoreOp(e)] # "none" => \A m \in Nodes :
          /\ step'[RestoreOp(e)][m].snapshot = step'[EntryOp(e)][m].snapshot
          /\ step'[RestoreOp(e)][m].probed \subseteq step'[RestoreOp(e)][m].snapshot
    BY <2>1, <2>3, <1>10
  <2> QED  BY <2>1, <2>2, <2>3, <2>4
<1>12. OwnCopy'
  <2> SUFFICES ASSUME NEW d \in Coordinators, Owns(d)
               PROVE  mem'[d] = step'[pass[d]]
    BY <1>1 DEF OwnCopy
  <2>1. mem[d] = step[pass[d]] /\ pass[d] \in Operations  BY DEF Inv, OwnCopy, Owns
  <2>2. CASE d = c
    BY <2>1, <2>2, <1>2, <1>3
  <2>3. CASE d # c
    <3>1. pass[d] # o  BY <2>3, <1>2, OneOwner
    <3> QED  BY <2>1, <2>3, <3>1, <1>4, <1>5
  <2> QED  BY <2>2, <2>3
<1>13. UnderHold'
  <2> SUFFICES ASSUME NEW d \in Coordinators, NEW m \in Nodes, Owns(d),
                      at'[d][m] # "claimed" \/ unchecked'[d] # {}
               PROVE  Held(pass[d][2])'
    BY <1>1 DEF UnderHold
  <2>1. at[d][m] # "claimed" \/ unchecked[d] # {}  BY <1>1
  <2>2. Held(pass[d][2])  BY <2>1 DEF Inv, UnderHold
  <2> QED  BY <2>2, <1>1 DEF Held
<1>14. EntryRows'
  <2> SUFFICES ASSUME NEW e \in Epochs, NEW m \in Nodes
               PROVE  EntryRow(e, m, step[EntryOp(e)][m])'
    BY DEF EntryRows
  <2>1. EntryOp(e) \in Operations  BY OperationsOf
  <2>2. EntryRow(e, m, step'[EntryOp(e)][m])
    <3>1. CASE EntryOp(e) = o /\ m = n  BY <3>1, <1>2, <1>4 DEF Sound
    <3>2. CASE ~(EntryOp(e) = o /\ m = n)
      <4>1. step'[EntryOp(e)][m] = step[EntryOp(e)][m]  BY <2>1, <3>2, <1>4
      <4> QED  BY <4>1 DEF Inv, EntryRows
    <3> QED  BY <3>1, <3>2
  <2> QED  BY <2>2, <1>1 DEF EntryRow, Held, WasReset
<1>15. ASSUME NEW e \in Epochs, NEW m \in Nodes
       PROVE  /\ step[EntryOp(e)][m].snapshot # NoSnapshot
                   => step'[EntryOp(e)][m].snapshot = step[EntryOp(e)][m].snapshot
              /\ \A id : id # 0 /\ KnownReset(m, e, id) => KnownReset(m, e, id)'
  <2>1. EntryOp(e) \in Operations  BY OperationsOf
  <2>2. CASE EntryOp(e) = o /\ m = n
    <3>1. /\ step[o][n].snapshot # NoSnapshot => s.snapshot = step[o][n].snapshot
          /\ \/ s.resetId = step[o][n].resetId \/ step[o][n].resetId = 0
             \/ ResetCall(e, step[o][n].resetId) \in refused[n]
      BY <2>2, <1>2 DEF Sound
    <3> QED  BY <2>2, <3>1, <1>1, <1>4 DEF KnownReset
  <2>3. CASE ~(EntryOp(e) = o /\ m = n)
    <3>1. step'[EntryOp(e)][m] = step[EntryOp(e)][m]  BY <2>1, <2>3, <1>4
    <3> QED  BY <3>1, <1>1 DEF KnownReset
  <2> QED  BY <2>2, <2>3
<1>16. Receipts'
  <2> SUFFICES ASSUME NEW m \in Nodes, NEW call \in applied[m] \cup late[m]
               PROVE  Expected(m, call)'
    BY <1>1 DEF Inv, Receipts
  <2>1. Expected(m, call) /\ call \in Call
    BY DEF Inv, Receipts, Types, TypesNodes
  <2>2. call.epoch \in Epochs  BY <2>1 DEF Call
  <2>3. /\ step[EntryOp(call.epoch)][m].snapshot # NoSnapshot
             => step'[EntryOp(call.epoch)][m].snapshot = step[EntryOp(call.epoch)][m].snapshot
        /\ \A id : id # 0 /\ KnownReset(m, call.epoch, id) => KnownReset(m, call.epoch, id)'
    BY <2>2, <1>15
  <2>4. step'[RestoreOp(call.epoch)][m].snapshot = step[RestoreOp(call.epoch)][m].snapshot
    BY <2>2, <1>10
  <2> QED  BY <2>1, <2>3, <2>4, <1>1 DEF Expected
<1>17. Copies'
  <2> SUFFICES ASSUME NEW d \in Coordinators, NEW m \in Nodes, NEW e \in Epochs
               PROVE  /\ pass[d] = EntryOp(e) => CopyOfEntry(e, m, mem[d][m])'
                      /\ pass[d] = RestoreOp(e) => CopyOfRestore(e, m, mem[d][m], at[d][m])'
    BY <1>1 DEF Copies
  <2>1. CASE d = c /\ m = n
    <3>1. mem'[d][m] = s /\ at'[d][m] = where  BY <2>1, <1>1, <1>5
    <3>2. ASSUME pass[d] = EntryOp(e)  PROVE CopyOfEntry(e, m, mem[d][m])'
      <4>1. EntryRow(e, n, s)  BY <2>1, <3>2 DEF Sound
      <4>2. step'[EntryOp(e)][m] = s  BY <2>1, <3>2, <1>2, <1>4
      <4> QED  BY <2>1, <3>1, <4>1, <4>2 DEF CopyOfEntry, EntryRow, KnownReset
    <3>3. ASSUME pass[d] = RestoreOp(e)  PROVE CopyOfRestore(e, m, mem[d][m], at[d][m])'
      <4>1. /\ s.probed \subseteq s.snapshot
            /\ where = "send" => s.phase = "pending" /\ s.open \in s.snapshot
        BY <2>1, <3>3 DEF Sound
      <4>2. step'[RestoreOp(e)][m] = s  BY <2>1, <3>3, <1>2, <1>4
      <4> QED  BY <3>1, <4>1, <4>2, <1>0 DEF CopyOfRestore
    <3> QED  BY <3>2, <3>3
  <2>2. CASE ~(d = c /\ m = n)
    <3>1. mem'[d][m] = mem[d][m] /\ at'[d][m] = at[d][m]  BY <2>2, <1>1, <1>5
    <3>2. ASSUME pass[d] = EntryOp(e)  PROVE CopyOfEntry(e, m, mem[d][m])'
      <4>1. CopyOfEntry(e, m, mem[d][m])  BY <3>2 DEF Inv, Copies
      <4> QED  BY <3>1, <4>1, <1>15 DEF CopyOfEntry
    <3>3. ASSUME pass[d] = RestoreOp(e)  PROVE CopyOfRestore(e, m, mem[d][m], at[d][m])'
      <4>1. CopyOfRestore(e, m, mem[d][m], at[d][m])  BY <3>3 DEF Inv, Copies
      <4> QED  BY <3>1, <4>1, <1>10 DEF CopyOfRestore
    <3> QED  BY <3>2, <3>3
  <2> QED  BY <2>1, <2>2
<1>18. Answers'
  <2> SUFFICES ASSUME NEW d \in Coordinators, NEW m \in Nodes, NEW e \in Epochs,
                      pass[d] = EntryOp(e), at'[d][m] = "answered"
               PROVE  Told(d, m, e)'
    BY <1>1 DEF Answers
  <2>1. ~(d = c /\ m = n)  BY <1>0, <1>1
  <2>2. Told(d, m, e)  BY <2>1, <1>1 DEF Inv, Answers
  <2>3. mem'[d][m] = mem[d][m] /\ got'[d][m] = got[d][m]  BY <2>1, <1>1, <1>5
  <2> QED  BY <2>2, <2>3, <1>1 DEF Told, Held, WasReset
<1>19. Looks'
  <2>1. \A d \in Coordinators, m \in Nodes : at'[d][m] \in {"closing", "checked"} =>
          at'[d][m] = at[d][m] /\ mem'[d][m] = mem[d][m]
    BY <1>0, <1>1, <1>5
  <2> QED  BY <2>1, <1>1 DEF Inv, Looks, Held
<1> QED  BY <1>6, <1>8, <1>11, <1>12, <1>13, <1>14, <1>16, <1>17, <1>18, <1>19 DEF Inv

\* _advance: what it writes need only be sound while the operation is its own.
LEMMA WriteKeeps ==
  ASSUME BoundAssumption, Inv, NEW c \in Coordinators, NEW n \in Nodes, NEW s,
         NEW next \in {"call", "send", "ended"}, Write(c, n, s, next), WriteOnly,
         nextId' = nextId, Fault \/ NoFault, pass[c] \in Operations, at[c][n] # "claimed",
         Owns(c) /\ step[pass[c]][n].status = "running"
           => Sound(c, n, s, IF s.status = "running" THEN next ELSE "ended")
  PROVE  Inv'
<1>1. faults' \in 0 .. MaxFaults  BY FaultCounts
<1>2. WriteFrame(c, n)  BY <1>1 DEF WriteFrame, Write
<1>3. CASE Fenced(c, pass[c]) /\ step[pass[c]][n].status = "running"
  <2>1. Owns(c)  BY <1>3 DEF Owns
  <2> DEFINE where == IF s.status = "running" THEN next ELSE "ended"
  <2>2. /\ step' = [step EXCEPT ![pass[c]][n] = s] /\ mem' = [mem EXCEPT ![c][n] = s]
        /\ at' = [at EXCEPT ![c][n] = where]
    BY <1>3 DEF Write
  <2>3. Sound(c, n, s, where)  BY <1>3, <2>1
  <2> HIDE DEF where
  <2> QED  BY <1>2, <2>1, <2>2, <2>3, Written
<1>4. CASE ~(Fenced(c, pass[c]) /\ step[pass[c]][n].status = "running")
  <2>1. at' = [at EXCEPT ![c][n] = "ended"] /\ UNCHANGED <<step, mem>>
    BY <1>4 DEF Write
  <2> QED  BY <1>2, <2>1, NothingWritten
<1> QED  BY <1>3, <1>4

LEMMA AdvanceFields ==
  ASSUME BoundAssumption, NEW row \in Row, NEW to \in Row, NEW phase \in Phases,
         row.status = "running", row.attempts < MaxAttempts
  PROVE  /\ advance(row, phase, to) \in Row
         /\ advance(row, phase, to).phase = phase
         /\ advance(row, phase, to).status = IF phase = "verified" THEN "done" ELSE "running"
         /\ advance(row, phase, to).attempts < MaxAttempts
         /\ advance(row, phase, to).snapshot =
              IF row.snapshot = NoSnapshot THEN to.snapshot ELSE row.snapshot
         /\ advance(row, phase, to).resetId = to.resetId
         /\ advance(row, phase, to).open = to.open /\ advance(row, phase, to).probed = to.probed
<1>1. MaxAttempts \in Nat \ {0}  BY DEF BoundAssumption
<1> DEFINE tries == IF row.phase = phase THEN row.attempts ELSE 0
           ends == IF phase = "verified" THEN "done" ELSE "running"
           snap == IF row.snapshot = NoSnapshot THEN to.snapshot ELSE row.snapshot
<1>2. tries \in 0 .. MaxAttempts /\ tries < MaxAttempts  BY <1>1 DEF Row
<1>3. ends \in {"running", "failed", "done"}  OBVIOUS
<1>4. snap \in (SUBSET Models) \cup {NoSnapshot, Unobserved}  BY DEF Row
<1>5. advance(row, phase, to) =
        [to EXCEPT !.phase = phase, !.attempts = tries, !.status = ends, !.snapshot = snap]
  BY DEF advance
<1> HIDE DEF tries, ends, snap
<1>6. advance(row, phase, to) \in Row /\ advance(row, phase, to).phase = phase
      /\ advance(row, phase, to).status = ends /\ advance(row, phase, to).attempts = tries
      /\ advance(row, phase, to).snapshot = snap /\ advance(row, phase, to).resetId = to.resetId
      /\ advance(row, phase, to).open = to.open /\ advance(row, phase, to).probed = to.probed
  BY <1>2, <1>3, <1>4, <1>5 DEF Row
<1> QED  BY <1>2, <1>6 DEF ends, snap

LEMMA FailedFields ==
  ASSUME BoundAssumption, NEW row \in Row, NEW final \in BOOLEAN, NEW clear \in BOOLEAN,
         row.status = "running", row.attempts < MaxAttempts
  PROVE  LET s == attempt_failed(row, final, clear) IN
         /\ s \in Row /\ s.phase = row.phase /\ s.status \in {"running", "failed"}
         /\ s.status = "running" => s.attempts < MaxAttempts
         /\ s.snapshot = row.snapshot /\ s.probed = row.probed /\ s.open = row.open
         /\ s.resetId = IF clear THEN 0 ELSE row.resetId
<1>1. MaxAttempts \in Nat \ {0} /\ row.attempts \in Nat  BY DEF BoundAssumption, Row
<1> DEFINE id == IF clear THEN 0 ELSE row.resetId
           ends == IF final \/ row.attempts + 1 >= MaxAttempts THEN "failed" ELSE "running"
           tries == row.attempts + 1
<1>2. id \in Nat  BY DEF Row
<1>3. tries \in 0 .. MaxAttempts  BY <1>1
<1>4. ends \in {"running", "failed"} /\ (ends = "running" => tries < MaxAttempts)  BY <1>1
<1>5. attempt_failed(row, final, clear) =
        [row EXCEPT !.attempts = tries, !.resetId = id, !.status = ends]
  BY DEF attempt_failed
<1> DEFINE s == attempt_failed(row, final, clear)
<1> HIDE DEF id, ends, tries
<1>6. /\ s \in Row /\ s.phase = row.phase /\ s.status = ends /\ s.attempts = tries
      /\ s.snapshot = row.snapshot /\ s.probed = row.probed /\ s.open = row.open /\ s.resetId = id
  BY <1>2, <1>3, <1>4, <1>5 DEF Row
<1> HIDE DEF s
<1>7. s.resetId = IF clear THEN 0 ELSE row.resetId  BY <1>6 DEF id
<1>8. s.status \in {"running", "failed"} /\ (s.status = "running" => s.attempts < MaxAttempts)
  BY <1>4, <1>6
<1> QED  BY <1>6, <1>7, <1>8 DEF s

\* The row of a step under way, as its owner holds it.
LEMMA OwnRow ==
  ASSUME BoundAssumption, Inv, NEW c \in Coordinators, NEW n \in Nodes, Owns(c),
         at[c][n] # "claimed"
  PROVE  LET row == step[pass[c]][n] IN
         /\ mem[c][n] = row /\ row \in Row /\ row.resetId <= nextId
         /\ row.status = "running" => row.attempts < MaxAttempts
         /\ \A e \in Epochs : pass[c] = EntryOp(e) => EntryRow(e, n, row) /\ Held(e)
         /\ \A e \in Epochs : pass[c] = RestoreOp(e) =>
              row.probed \subseteq row.snapshot /\ row.snapshot \subseteq Models
<1>1. PICK o \in Operations : o = pass[c] /\ status[o] = "running"  BY DEF Owns, Fenced
<1>2. /\ step[o][n].resetId <= nextId
      /\ step[o][n].status = "running" => step[o][n].attempts < MaxAttempts
      /\ step[o][n] \in Row
  BY DEF Inv, Types, TypesDb
<1>3. ASSUME NEW e \in Epochs, pass[c] = EntryOp(e)
      PROVE  EntryRow(e, n, step[EntryOp(e)][n]) /\ Held(e)
  <2>1. Held(pass[c][2])  BY OwnsMeans
  <2> QED  BY <1>3, <2>1, OperationsOf DEF Inv, EntryRows
<1>4. ASSUME NEW e \in Epochs, pass[c] = RestoreOp(e)
      PROVE  /\ step[RestoreOp(e)][n].probed \subseteq step[RestoreOp(e)][n].snapshot
             /\ step[RestoreOp(e)][n].snapshot \subseteq Models
  <2>1. status[RestoreOp(e)] # "none"  BY <1>1, <1>4
  <2> QED  BY <2>1 DEF Inv, RestoreFollows, Restorable
<1>5. mem[c][n] = step[o][n]  BY <1>1, OwnsMeans
<1> QED  BY <1>1, <1>2, <1>3, <1>4, <1>5

\* A failed attempt keeps the phase and the snapshot, and forgets a reset's id
\* only once the supervisor has a receipt of its failing.
LEMMA FailedSound ==
  ASSUME BoundAssumption, Inv, NEW c \in Coordinators, NEW n \in Nodes, Owns(c),
         at[c][n] # "claimed", nextId' = nextId, NEW base \in Row,
         step[pass[c]][n].status = "running",
         base = step[pass[c]][n] \/ base = [step[pass[c]][n] EXCEPT !.open = 0],
         NEW final \in BOOLEAN, NEW clear \in BOOLEAN,
         \A e \in Epochs : pass[c] = EntryOp(e) /\ clear
           => ResetCall(e, step[pass[c]][n].resetId) \in refused[n]
  PROVE  Sound(c, n, attempt_failed(base, final, clear), "ended")
<1>1. PICK row \in Row : row = step[pass[c]][n]  BY OwnRow
<1>2. /\ row.resetId <= nextId /\ row.status = "running" /\ row.attempts < MaxAttempts
      /\ \A e \in Epochs : pass[c] = EntryOp(e) => EntryRow(e, n, row)
      /\ \A e \in Epochs : pass[c] = RestoreOp(e) => row.probed \subseteq row.snapshot
  BY <1>1, OwnRow
<1>3. /\ base.phase = row.phase /\ base.status = row.status /\ base.attempts = row.attempts
      /\ base.snapshot = row.snapshot /\ base.resetId = row.resetId /\ base.probed = row.probed
  BY <1>1 DEF Row
<1>4. PICK s : s = attempt_failed(base, final, clear)  OBVIOUS
<1>5. /\ s \in Row /\ s.phase = row.phase /\ s.status \in {"running", "failed"}
      /\ s.status = "running" => s.attempts < MaxAttempts
      /\ s.snapshot = row.snapshot /\ s.probed = row.probed
      /\ s.resetId = IF clear THEN 0 ELSE row.resetId
  BY <1>2, <1>3, <1>4, FailedFields
<1>6. s.resetId <= nextId'
  <2>1. row.resetId \in Nat /\ nextId \in Nat  BY DEF Row, Inv, Types, TypesNodes
  <2> QED  BY <2>1, <1>2, <1>5
<1>7. ASSUME NEW e \in Epochs, pass[c] = EntryOp(e)
      PROVE  /\ EntryRow(e, n, s)
             /\ s.resetId = row.resetId \/ ResetCall(e, row.resetId) \in refused[n]
  <2>1. EntryRow(e, n, row)  BY <1>2, <1>7
  <2>2. EntryRow(e, n, s)  BY <2>1, <1>2, <1>5 DEF EntryRow
  <2>3. s.resetId = row.resetId \/ ResetCall(e, row.resetId) \in refused[n]
    BY <1>1, <1>5, <1>7
  <2> QED  BY <2>2, <2>3
<1>8. Sound(c, n, s, "ended")
  BY <1>1, <1>2, <1>5, <1>6, <1>7 DEF Sound
<1> QED  BY <1>4, <1>8

\* The next phase of an entry, as far as the node has come.
LEMMA EntryAdvance ==
  ASSUME BoundAssumption, Inv, NEW c \in Coordinators, NEW n \in Nodes, NEW e \in Epochs,
         pass[c] = EntryOp(e), Owns(c), at[c][n] # "claimed", nextId' = nextId,
         NEW row \in Row, row = step[pass[c]][n], row.status = "running",
         NEW to \in Row, to.resetId = row.resetId, NEW phase \in EntryPhases,
         NEW snap, snap = IF row.snapshot = NoSnapshot THEN to.snapshot ELSE row.snapshot,
         phase \in {"snapshotted", "reset", "verified"} => snap # NoSnapshot,
         snap # row.snapshot /\ snap \subseteq Models => snap = held[e][n],
         phase # "pending" => held[e][n] # NoSnapshot,
         phase \in {"reset", "verified"} => WasReset(n, e) /\ quiet[n] = e,
         phase = "verified" => resident[n] = {},
         NEW where \in {"call", "ended"}
  PROVE  Sound(c, n, advance(row, phase, to), where)
<1>1. /\ row.resetId <= nextId /\ row.attempts < MaxAttempts /\ EntryRow(e, n, row) /\ Held(e)
  BY OwnRow
<1>2. PICK s : s = advance(row, phase, to)  OBVIOUS
<1>3. /\ s \in Row /\ s.phase = phase /\ s.attempts < MaxAttempts
      /\ s.status = IF phase = "verified" THEN "done" ELSE "running"
      /\ s.snapshot = snap /\ s.resetId = row.resetId
  <2>1. phase \in Phases  BY DEF EntryPhases, Phases
  <2> QED  BY <2>1, <1>1, <1>2, AdvanceFields
<1>4. snap = NoSnapshot => row.snapshot = NoSnapshot  OBVIOUS
<1>5. EntryRow(e, n, s)
  <2>1. s.phase \in EntryPhases /\ (s.status = "done" <=> s.phase = "verified")
    BY <1>3
  <2>2. s.snapshot \subseteq Models => s.snapshot = held[e][n]  BY <1>1, <1>3 DEF EntryRow
  <2>3. s.snapshot = NoSnapshot /\ held[e][n] # NoSnapshot => quiet[n] = e /\ resident[n] = held[e][n]
    BY <1>1, <1>3, <1>4 DEF EntryRow
  <2> QED  BY <2>1, <2>2, <2>3, <1>3 DEF EntryRow
<1>6. \A f \in Epochs : (pass[c] = EntryOp(f) => f = e) /\ pass[c] # RestoreOp(f)
  BY OperationsOf
<1>7. row.snapshot # NoSnapshot => s.snapshot = row.snapshot  BY <1>3
<1>8. Sound(c, n, s, where)
  BY <1>1, <1>3, <1>5, <1>6, <1>7 DEF Sound
<1> QED  BY <1>2, <1>8

\* The next phase of a restore.
LEMMA RestoreAdvance ==
  ASSUME BoundAssumption, Inv, NEW c \in Coordinators, NEW n \in Nodes, NEW e \in Epochs,
         pass[c] = RestoreOp(e), Owns(c), at[c][n] # "claimed", nextId' = nextId,
         NEW row \in Row, row = step[pass[c]][n], row.status = "running",
         NEW to \in Row, to.resetId = row.resetId, NEW phase \in Phases,
         to.probed \subseteq row.snapshot,
         NEW where \in {"call", "send", "ended"},
         where = "send" => phase = "pending" /\ to.open \in row.snapshot
  PROVE  Sound(c, n, advance(row, phase, to), where)
<1>1. row.resetId <= nextId /\ row.attempts < MaxAttempts /\ row.snapshot \subseteq Models
  BY OwnRow
<1>2. row.snapshot # NoSnapshot  BY <1>1, Distinct
<1>3. PICK s : s = advance(row, phase, to)  OBVIOUS
<1>4. /\ s \in Row /\ s.phase = phase /\ s.attempts < MaxAttempts
      /\ s.snapshot = row.snapshot /\ s.resetId = row.resetId /\ s.open = to.open /\ s.probed = to.probed
  BY <1>1, <1>2, <1>3, AdvanceFields
<1>5. \A f \in Epochs : (pass[c] = RestoreOp(f) => f = e) /\ pass[c] # EntryOp(f)
  BY OperationsOf
<1>6. Sound(c, n, s, where)  BY <1>1, <1>4, <1>5 DEF Sound
<1> QED  BY <1>3, <1>6

LEMMA FailedKeeps ==
  ASSUME BoundAssumption, Inv, NEW c \in Coordinators, NEW n \in Nodes,
         NEW final \in BOOLEAN, NEW clear \in BOOLEAN, Failed(c, n, final, clear), WriteOnly,
         nextId' = nextId, Fault \/ NoFault, pass[c] \in Operations, at[c][n] # "claimed",
         \A e \in Epochs : pass[c] = EntryOp(e) /\ clear
           => ResetCall(e, mem[c][n].resetId) \in refused[n]
  PROVE  Inv'
<1> DEFINE row == step[pass[c]][n]  s == attempt_failed(row, final, clear)
<1>1. ASSUME Owns(c), row.status = "running"
      PROVE  Sound(c, n, s, IF s.status = "running" THEN "ended" ELSE "ended")
  <2>1. mem[c][n] = row /\ row \in Row  BY <1>1, OwnRow
  <2>2. \A e \in Epochs : pass[c] = EntryOp(e) /\ clear => ResetCall(e, row.resetId) \in refused[n]
    BY <2>1
  <2>3. Sound(c, n, s, "ended")  BY <1>1, <2>1, <2>2, FailedSound
  <2> QED  BY <2>3
<1>2. Write(c, n, s, "ended")  BY DEF Failed
<1> HIDE DEF s
<1> QED  BY <1>1, <1>2, WriteKeeps

\* _control_for.
LEMMA NoControlKeeps ==
  ASSUME BoundAssumption, Inv, NEW c \in Coordinators, NEW n \in Nodes, NoControl(c, n)
  PROVE  Inv'
BY FailedKeeps DEF NoControl

\* set_reset_id: only the owner mints an id, for a row that has none.
LEMMA SetResetIdKeeps ==
  ASSUME BoundAssumption, Inv, NEW c \in Coordinators, NEW n \in Nodes, SetResetId(c, n)
  PROVE  Inv'
<1>1. /\ pass[c] \in Operations /\ at[c][n] # "claimed" /\ WriteOnly /\ got' = got
      /\ (Fault \/ NoFault)
  BY DEF SetResetId, Here, Ready
<1>2. faults' \in 0 .. MaxFaults  BY <1>1, FaultCounts
<1>3. CASE Fenced(c, pass[c]) /\ step[pass[c]][n].resetId = 0
  <2>1. Owns(c)  BY <1>1, <1>3 DEF Owns
  <2>2. PICK row \in Row : row = step[pass[c]][n]  BY <1>1, <2>1, OwnRow
  <2>3. /\ mem[c][n] = row /\ row.resetId = 0
        /\ row.status = "running" => row.attempts < MaxAttempts
        /\ \A e \in Epochs : pass[c] = EntryOp(e) => EntryRow(e, n, row)
        /\ \A e \in Epochs : pass[c] = RestoreOp(e) => row.probed \subseteq row.snapshot
    BY <1>1, <1>3, <2>1, <2>2, OwnRow
  <2>4. nextId' = nextId + 1 /\ nextId' \in Nat
    BY <1>3 DEF SetResetId, Inv, Types, TypesNodes
  <2>5. PICK s : s = [row EXCEPT !.resetId = nextId']  OBVIOUS
  <2>6. /\ s \in Row /\ s.resetId = nextId' /\ s.phase = row.phase /\ s.status = row.status
        /\ s.attempts = row.attempts /\ s.snapshot = row.snapshot /\ s.probed = row.probed
    BY <2>4, <2>5 DEF Row
  <2>7. /\ step' = [step EXCEPT ![pass[c]][n].resetId = nextId']
        /\ mem' = [mem EXCEPT ![c][n].resetId = nextId']
        /\ at' = [at EXCEPT ![c][n] = "call"]
    BY <1>3 DEF SetResetId
  <2>8. step' = [step EXCEPT ![pass[c]][n] = s]
    BY <1>1, <2>2, <2>5, <2>7
  <2>9. mem' = [mem EXCEPT ![c][n] = s]
    BY <2>3, <2>5, <2>7
  <2>10. \A e \in Epochs : pass[c] = EntryOp(e) => EntryRow(e, n, s)
    BY <2>3, <2>6 DEF EntryRow
  <2>11. nextId' <= nextId'  BY <2>4
  <2>12. Sound(c, n, s, "call")
    BY <2>2, <2>3, <2>6, <2>10, <2>11 DEF Sound
  <2>13. WriteFrame(c, n)  BY <1>1, <1>2, <2>4 DEF WriteFrame
  <2> QED  BY <1>1, <2>1, <2>7, <2>8, <2>9, <2>12, <2>13, Written
<1>4. CASE ~(Fenced(c, pass[c]) /\ step[pass[c]][n].resetId = 0)
  <2>1. at' = [at EXCEPT ![c][n] = "ended"] /\ UNCHANGED <<nextId, step, mem>>
    BY <1>4 DEF SetResetId
  <2>2. WriteFrame(c, n)  BY <1>1, <1>2, <2>1 DEF WriteFrame
  <2> QED  BY <1>1, <2>1, <2>2, NothingWritten
<1> QED  BY <1>3, <1>4

\* How far the node must have come for the next phase of its entry.
EntryGoes(e, n, row, to, phase) ==
  LET snap == IF row.snapshot = NoSnapshot THEN to.snapshot ELSE row.snapshot IN
  /\ to \in Row /\ to.resetId = row.resetId
  /\ phase \in {"snapshotted", "reset", "verified"} => snap # NoSnapshot
  /\ snap # row.snapshot /\ snap \subseteq Models => snap = held[e][n]
  /\ phase # "pending" => held[e][n] # NoSnapshot
  /\ phase \in {"reset", "verified"} => WasReset(n, e) /\ quiet[n] = e
  /\ phase = "verified" => resident[n] = {}

LEMMA EntryAdvanceKeeps ==
  ASSUME BoundAssumption, Inv, NEW c \in Coordinators, NEW n \in Nodes, NEW e \in Epochs,
         pass[c] = EntryOp(e), at[c][n] # "claimed", WriteOnly, nextId' = nextId, NoFault,
         NEW to, NEW phase \in EntryPhases, NEW next \in {"call", "ended"},
         Write(c, n, advance(step[pass[c]][n], phase, to), next),
         Owns(c) /\ step[pass[c]][n].status = "running" => EntryGoes(e, n, step[pass[c]][n], to, phase)
  PROVE  Inv'
<1> DEFINE row == step[pass[c]][n]  s == advance(row, phase, to)
           where == IF s.status = "running" THEN next ELSE "ended"
           snap == IF row.snapshot = NoSnapshot THEN to.snapshot ELSE row.snapshot
<1>1. ASSUME Owns(c), row.status = "running"  PROVE Sound(c, n, s, where)
  <2>1. row \in Row  BY <1>1, OwnRow
  <2>2. /\ to \in Row /\ to.resetId = row.resetId
        /\ phase \in {"snapshotted", "reset", "verified"} => snap # NoSnapshot
        /\ snap # row.snapshot /\ snap \subseteq Models => snap = held[e][n]
        /\ phase # "pending" => held[e][n] # NoSnapshot
        /\ phase \in {"reset", "verified"} => WasReset(n, e) /\ quiet[n] = e
        /\ phase = "verified" => resident[n] = {}
    BY <1>1 DEF EntryGoes
  <2>3. where \in {"call", "ended"} /\ snap = IF row.snapshot = NoSnapshot THEN to.snapshot ELSE row.snapshot
    OBVIOUS
  <2> HIDE DEF snap, where
  <2> QED  BY <1>1, <2>1, <2>2, <2>3, EntryAdvance
<1>2. pass[c] \in Operations  BY OperationsOf
<1>3. Write(c, n, s, next) /\ next \in {"call", "send", "ended"}  OBVIOUS
<1> HIDE DEF s
<1> QED  BY <1>1, <1>2, <1>3, WriteKeeps

\* _next: each answer of an entry's node is written as what it told.
LEMMA EntryWriteKeeps ==
  ASSUME BoundAssumption, Inv, NEW c \in Coordinators, NEW n \in Nodes, EntryWrite(c, n)
  PROVE  Inv'
<1> DEFINE a == got[c][n].says  seen == got[c][n].seen
<1>1. NoFault /\ nextId' = nextId /\ WriteOnly  BY DEF EntryWrite
<1>2. PICK e \in Epochs :
        /\ pass[c] = EntryOp(e) /\ at[c][n] \in {"start", "call", "answered"}
        /\ at[c][n] = "answered" => Told(c, n, e)
        /\ CopyOfEntry(e, n, mem[c][n])
  <2>1. PICK where \in {Ready, {"answered"}} : Here(c, n, where, "enter")
    BY DEF EntryWrite
  <2>2. "enter" \in Kinds  BY DEF Kinds
  <2>3. pass[c] = EntryOp(pass[c][2]) /\ pass[c][2] \in Epochs /\ at[c][n] \in where
    BY <2>1, <2>2, HereMeans
  <2> QED  BY <2>3 DEF Ready, Inv, Answers, Copies
<1>3. pass[c] \in Operations /\ at[c][n] # "claimed"  BY <1>2, OperationsOf
<1>4. PICK s \in Row : s = mem[c][n]  BY DEF Inv, Types, TypesCoord
<1>5. ASSUME Owns(c), step[pass[c]][n].status = "running"
      PROVE  step[pass[c]][n] = s /\ EntryRow(e, n, s) /\ Held(e)
  <2>1. /\ mem[c][n] = step[pass[c]][n]
        /\ \A f \in Epochs : pass[c] = EntryOp(f) => EntryRow(f, n, step[pass[c]][n]) /\ Held(f)
    BY <1>3, <1>5, OwnRow
  <2> QED  BY <1>2, <1>4, <2>1
<1>6. ASSUME NEW final \in BOOLEAN, NEW clear \in BOOLEAN, Failed(c, n, final, clear),
             clear => ResetCall(e, s.resetId) \in refused[n]
      PROVE  Inv'
  <2>1. \A f \in Epochs : pass[c] = EntryOp(f) => f = e  BY <1>2 DEF EntryOp
  <2>2. Fault \/ NoFault  BY <1>1
  <2>3. \A f \in Epochs : pass[c] = EntryOp(f) /\ clear => ResetCall(f, mem[c][n].resetId) \in refused[n]
    BY <2>1, <1>4, <1>6
  <2> QED  BY <2>2, <2>3, <1>1, <1>3, <1>6, FailedKeeps
<1>7. ASSUME NEW to, NEW phase \in EntryPhases, NEW next \in {"call", "ended"},
             Write(c, n, advance(step[pass[c]][n], phase, to), next),
             Owns(c) /\ step[pass[c]][n] = s /\ EntryRow(e, n, s) /\ Held(e) => EntryGoes(e, n, s, to, phase)
      PROVE  Inv'
  <2>1. Owns(c) /\ step[pass[c]][n].status = "running"
          => EntryGoes(e, n, step[pass[c]][n], to, phase)
    BY <1>5, <1>7
  <2> QED  BY <2>1, <1>1, <1>2, <1>3, <1>7, EntryAdvanceKeeps
<1>8. /\ s.phase \in EntryPhases
      /\ \A phase \in {"pending", "interrupted", "snapshotted", "reset", "verified"} : phase \in EntryPhases
  BY <1>2, <1>4 DEF CopyOfEntry, EntryPhases
<1>9. ~(NoSnapshot \subseteq Models) /\ ~(Unobserved \subseteq Models) /\ NoSnapshot # Unobserved
      /\ NoSnapshot \notin SUBSET Models
  BY Distinct
<1>10. seen \in SUBSET Models  BY DEF Inv, Types, TypesCoord
<1>11. \A snap \in (SUBSET Models) \cup {NoSnapshot, Unobserved} :
         /\ [s EXCEPT !.snapshot = snap] \in Row /\ [s EXCEPT !.snapshot = snap].snapshot = snap
         /\ [s EXCEPT !.snapshot = snap].resetId = s.resetId
  BY DEF Row
<1>11a. \A word \in {"none", "resolved", "unresolved"} :
         /\ [s EXCEPT !.accounting = word] \in Row
         /\ [s EXCEPT !.accounting = word].snapshot = s.snapshot
         /\ [s EXCEPT !.accounting = word].resetId = s.resetId
  BY DEF Row
<1>12. CASE s.phase = "interrupted" /\ s.snapshot # NoSnapshot /\ Advance(c, n, "snapshotted", s)
  <2>1. EntryRow(e, n, s) => EntryGoes(e, n, s, s, "snapshotted")
    BY <1>12 DEF EntryGoes, EntryRow
  <2>2. Write(c, n, advance(step[pass[c]][n], "snapshotted", s), "call")  BY <1>12 DEF Advance
  <2> QED  BY <2>1, <2>2, <1>7, <1>8
<1>13. ASSUME at[c][n] = "answered", s.phase = "pending",
              IF a = "quiescent" THEN Advance(c, n, "interrupted", s) ELSE Failed(c, n, FALSE, FALSE)
       PROVE  Inv'
  <2>1. CASE a = "quiescent"
    <3>1. held[e][n] # NoSnapshot  BY <1>2, <1>13, <2>1 DEF Told
    <3>2. EntryGoes(e, n, s, s, "interrupted")  BY <3>1 DEF EntryGoes
    <3>3. Write(c, n, advance(step[pass[c]][n], "interrupted", s), "call")
      BY <1>13, <2>1 DEF Advance
    <3> QED  BY <3>2, <3>3, <1>7, <1>8
  <2>2. CASE a # "quiescent"  BY <1>6, <1>13, <2>2
  <2> QED  BY <2>1, <2>2
<1>14. ASSUME at[c][n] = "answered", s.phase = "interrupted",
              IF a = "saw" THEN Advance(c, n, "snapshotted", [s EXCEPT !.snapshot = seen])
              ELSE IF s.attempts + 1 < SnapshotTries THEN Failed(c, n, FALSE, FALSE)
              ELSE Advance(c, n, "snapshotted", [s EXCEPT !.snapshot = Unobserved])
       PROVE  Inv'
  <2>1. CASE a = "saw"
    <3>1. PICK to \in Row : /\ to = [s EXCEPT !.snapshot = seen] /\ to.snapshot = seen
                            /\ to.resetId = s.resetId
      BY <1>10, <1>11
    <3>2. Owns(c) => seen = held[e][n]
      BY <1>2, <1>4, <1>14, <2>1 DEF Told
    <3>3. Owns(c) /\ EntryRow(e, n, s) => EntryGoes(e, n, s, to, "snapshotted")
      BY <1>9, <1>10, <1>14, <3>1, <3>2 DEF EntryGoes, EntryRow
    <3>4. Write(c, n, advance(step[pass[c]][n], "snapshotted", to), "call")
      BY <1>14, <2>1, <3>1 DEF Advance
    <3> QED  BY <3>3, <3>4, <1>7, <1>8
  <2>2. CASE a # "saw" /\ s.attempts + 1 < SnapshotTries  BY <1>6, <1>14, <2>2
  <2>3. CASE a # "saw" /\ ~(s.attempts + 1 < SnapshotTries)
    <3>1. PICK to \in Row : /\ to = [s EXCEPT !.snapshot = Unobserved] /\ to.snapshot = Unobserved
                            /\ to.resetId = s.resetId
      BY <1>11
    <3>2. EntryRow(e, n, s) => EntryGoes(e, n, s, to, "snapshotted")
      BY <1>9, <1>14, <3>1 DEF EntryGoes, EntryRow
    <3>3. Write(c, n, advance(step[pass[c]][n], "snapshotted", to), "call")
      BY <1>14, <2>3, <3>1 DEF Advance
    <3> QED  BY <3>2, <3>3, <1>7, <1>8
  <2> QED  BY <2>1, <2>2, <2>3
<1>15. ASSUME at[c][n] = "answered", s.phase = "snapshotted",
              IF a \in {"resolved", "unresolved"}
              THEN Advance(c, n, "reset", [s EXCEPT !.accounting = a])
              ELSE IF a = "not_quiescent"
              THEN Write(c, n, advance(step[pass[c]][n], "pending", s), "ended")
              ELSE Failed(c, n, a = "restart_failed", a = "restart_failed")
       PROVE  Inv'
  <2>1. CASE a \in {"resolved", "unresolved"}
    <3>0. a \in {"none", "resolved", "unresolved"}  BY <2>1
    <3>1. PICK to \in Row : /\ to = [s EXCEPT !.accounting = a] /\ to.snapshot = s.snapshot
                            /\ to.resetId = s.resetId
      BY <3>0, <1>11a
    <3>2. Held(e) => WasReset(n, e) /\ quiet[n] = e
      BY <1>2, <1>15, <2>1 DEF Told
    <3>3. EntryRow(e, n, s) => s.snapshot # NoSnapshot /\ held[e][n] # NoSnapshot
      BY <1>15 DEF EntryRow
    <3>5. Held(e) /\ EntryRow(e, n, s) => EntryGoes(e, n, s, to, "reset")
      BY <3>1, <3>2, <3>3 DEF EntryGoes
    <3>4. Write(c, n, advance(step[pass[c]][n], "reset", to), "call")
      BY <1>15, <2>1, <3>1 DEF Advance
    <3> QED  BY <3>4, <3>5, <1>7, <1>8
  <2>2. CASE a = "not_quiescent"
    <3>1. EntryGoes(e, n, s, s, "pending")  BY DEF EntryGoes
    <3>2. Write(c, n, advance(step[pass[c]][n], "pending", s), "ended")
      BY <1>15, <2>2
    <3> QED  BY <3>1, <3>2, <1>7, <1>8
  <2>3. CASE a \notin {"resolved", "unresolved", "not_quiescent"}
    <3>1. PICK refusal \in BOOLEAN : refusal = (a = "restart_failed")  OBVIOUS
    <3>2. Failed(c, n, refusal, refusal)  BY <1>15, <2>3, <3>1
    <3>3. refusal => ResetCall(e, s.resetId) \in refused[n]
      BY <1>2, <1>4, <1>15, <3>1 DEF Told
    <3> QED  BY <3>2, <3>3, <1>6
  <2> QED  BY <2>1, <2>2, <2>3
<1>16. ASSUME at[c][n] = "answered", s.phase = "reset",
              IF a = "saw" /\ seen = {} THEN Advance(c, n, "verified", s)
              ELSE Failed(c, n, FALSE, FALSE)
       PROVE  Inv'
  <2>1. CASE a = "saw" /\ seen = {}
    <3>1. Owns(c) => resident[n] = {}
      BY <1>2, <1>4, <1>16, <2>1 DEF Told
    <3>2. Owns(c) /\ Held(e) /\ EntryRow(e, n, s) => EntryGoes(e, n, s, s, "verified")
      BY <1>16, <3>1 DEF EntryGoes, EntryRow
    <3>3. Write(c, n, advance(step[pass[c]][n], "verified", s), "call")
      BY <1>16, <2>1 DEF Advance
    <3> QED  BY <3>2, <3>3, <1>7, <1>8
  <2>2. CASE ~(a = "saw" /\ seen = {})  BY <1>6, <1>16, <2>2
  <2> QED  BY <2>1, <2>2
<1>17. CASE at[c][n] = "answered" /\ ~(s.phase = "interrupted" /\ s.snapshot # NoSnapshot /\ Advance(c, n, "snapshotted", s))
  <2>1. s.phase # "verified"  BY <1>2, <1>4, <1>17 DEF Told
  <2>2. s.phase \in {"pending", "interrupted", "snapshotted", "reset"}
    BY <2>1, <1>8 DEF EntryPhases
  <2>3. CASE s.phase = "pending"  BY <1>4, <1>13, <1>17, <2>3 DEF EntryWrite
  <2>4. CASE s.phase = "interrupted"  BY <1>4, <1>14, <1>17, <2>4 DEF EntryWrite
  <2>5. CASE s.phase = "snapshotted"  BY <1>4, <1>15, <1>17, <2>5 DEF EntryWrite
  <2>6. CASE s.phase = "reset"  BY <1>4, <1>16, <1>17, <2>6 DEF EntryWrite
  <2> QED  BY <2>2, <2>3, <2>4, <2>5, <2>6
<1>18. \/ s.phase = "interrupted" /\ s.snapshot # NoSnapshot /\ Advance(c, n, "snapshotted", s)
       \/ at[c][n] = "answered"
  BY <1>4 DEF EntryWrite, Here
<1> QED  BY <1>12, <1>17, <1>18

LEMMA RestoreAdvanceKeeps ==
  ASSUME BoundAssumption, Inv, NEW c \in Coordinators, NEW n \in Nodes, NEW e \in Epochs,
         pass[c] = RestoreOp(e), at[c][n] # "claimed", WriteOnly, nextId' = nextId, NoFault,
         NEW to, NEW phase \in Phases, NEW next \in {"call", "send", "ended"},
         Write(c, n, advance(step[pass[c]][n], phase, to), next),
         Owns(c) /\ step[pass[c]][n].status = "running" =>
           /\ to \in Row /\ to.resetId = step[pass[c]][n].resetId
           /\ to.probed \subseteq step[pass[c]][n].snapshot
           /\ next = "send" => phase = "pending" /\ to.open \in step[pass[c]][n].snapshot
  PROVE  Inv'
<1> DEFINE row == step[pass[c]][n]  s == advance(row, phase, to)
           where == IF s.status = "running" THEN next ELSE "ended"
<1>1. ASSUME Owns(c), row.status = "running"  PROVE Sound(c, n, s, where)
  <2>1. row \in Row  BY <1>1, OwnRow
  <2>2. /\ to \in Row /\ to.resetId = row.resetId /\ to.probed \subseteq row.snapshot
        /\ next = "send" => phase = "pending" /\ to.open \in row.snapshot
    BY <1>1
  <2>3. where \in {"call", "send", "ended"} /\ (where = "send" => next = "send")
    OBVIOUS
  <2> HIDE DEF where
  <2> QED  BY <1>1, <2>1, <2>2, <2>3, RestoreAdvance
<1>2. pass[c] \in Operations  BY OperationsOf
<1>3. Write(c, n, s, next)  OBVIOUS
<1> HIDE DEF s
<1> QED  BY <1>1, <1>2, <1>3, WriteKeeps

\* A restore's copy, whoever holds it, has the snapshot of its row.
LEMMA RestoreCopy ==
  ASSUME BoundAssumption, Inv, NEW c \in Coordinators, NEW n \in Nodes, NEW where,
         Here(c, n, {where}, "restore"), where # "claimed"
  PROVE  /\ pass[c] = RestoreOp(pass[c][2]) /\ pass[c][2] \in Epochs /\ pass[c] \in Operations
         /\ at[c][n] = where /\ mem[c][n] \in Row
         /\ CopyOfRestore(pass[c][2], n, mem[c][n], where) /\ mem[c][n].snapshot \subseteq Models
         /\ Owns(c) => step[pass[c]][n] = mem[c][n]
<1>1. "restore" \in Kinds  BY DEF Kinds
<1>2. /\ pass[c] = RestoreOp(pass[c][2]) /\ pass[c][2] \in Epochs /\ at[c][n] = where
      /\ status[pass[c]] # "none" /\ pass[c] \in Operations
  BY <1>1, HereMeans
<1>3. mem[c][n] \in Row  BY DEF Inv, Types, TypesCoord
<1>4. CopyOfRestore(pass[c][2], n, mem[c][n], where)  BY <1>2 DEF Inv, Copies
<1>5. mem[c][n].snapshot \subseteq Models
  <2>1. PICK e \in Epochs : e = pass[c][2] /\ status[RestoreOp(e)] # "none"  BY <1>2
  <2>2. Restorable(e) /\ step[RestoreOp(e)][n].snapshot = step[EntryOp(e)][n].snapshot
    BY <2>1 DEF Inv, RestoreFollows
  <2> QED  BY <2>1, <2>2, <1>4 DEF Restorable, CopyOfRestore
<1>6. Owns(c) => step[pass[c]][n] = mem[c][n]  BY <1>2, OwnsMeans
<1> QED  BY <1>2, <1>3, <1>4, <1>5, <1>6

\* The loads a restore may ask for.
LEMMA LoadsLeft ==
  ASSUME BoundAssumption, NEW S \in SUBSET Models, NEW loads \in 0 .. LoadCap,
         ~(loads >= Cardinality(S) * (1 + RepairRounds))
  PROVE  loads + 1 \in 0 .. LoadCap
<1>1. NumModels \in Nat /\ RepairRounds \in Nat  BY DEF BoundAssumption
<1>2. IsFiniteSet(Models) /\ Cardinality(Models) = NumModels
  BY <1>1, FS_Interval DEF Models
<1>3. Cardinality(S) \in Nat /\ Cardinality(S) <= NumModels
  BY <1>2, FS_Subset, FS_CardinalityType
<1>4. PICK rounds \in Nat : rounds = 1 + RepairRounds  BY <1>1
<1>5. PICK k \in Nat : NumModels = Cardinality(S) + k
  <2>1. NumModels - Cardinality(S) \in Nat  BY <1>1, <1>3
  <2> QED  BY <2>1, <1>1, <1>3
<1>6. NumModels * rounds = Cardinality(S) * rounds + k * rounds
  BY <1>3, <1>4, <1>5
<1>7. Cardinality(S) * rounds \in Nat /\ k * rounds \in Nat  BY <1>3, <1>4, <1>5
<1>8. LoadCap = NumModels * rounds /\ LoadCap \in Nat  BY <1>1, <1>4 DEF LoadCap
<1>9. loads \in Nat /\ loads < Cardinality(S) * rounds  BY <1>4, <1>7, <1>8
<1> QED  BY <1>6, <1>7, <1>8, <1>9

\* The copies a restore goes on from.
WithProbed(s, probed) == [s EXCEPT !.probed = probed]
WithOpen(s, open) == [s EXCEPT !.open = open]
WithLoad(s, loads, open) == [s EXCEPT !.loads = loads, !.open = open, !.probed = {}]

LEMMA RowsOfRestore ==
  ASSUME NEW s \in Row, NEW probed \in SUBSET Models, NEW open \in 0 .. NumModels,
         NEW loads \in 0 .. LoadCap
  PROVE  /\ WithProbed(s, probed) \in Row /\ WithProbed(s, probed).probed = probed
         /\ WithProbed(s, probed).resetId = s.resetId
         /\ WithOpen(s, open) \in Row /\ WithOpen(s, open).probed = s.probed
         /\ WithOpen(s, open).resetId = s.resetId
         /\ WithLoad(s, loads, open) \in Row /\ WithLoad(s, loads, open).open = open
         /\ WithLoad(s, loads, open).probed = {} /\ WithLoad(s, loads, open).resetId = s.resetId
<1>1. /\ WithProbed(s, probed) \in Row /\ WithProbed(s, probed).probed = probed
      /\ WithProbed(s, probed).resetId = s.resetId
  BY DEF Row, WithProbed
<1>2. /\ WithOpen(s, open) \in Row /\ WithOpen(s, open).probed = s.probed
      /\ WithOpen(s, open).resetId = s.resetId
  BY DEF Row, WithOpen
<1>3. /\ WithLoad(s, loads, open) \in Row /\ WithLoad(s, loads, open).open = open
      /\ WithLoad(s, loads, open).probed = {} /\ WithLoad(s, loads, open).resetId = s.resetId
  BY DEF Row, WithLoad
<1> QED  BY <1>1, <1>2, <1>3

\* _next_restore after an observation.
LEMMA RestoreDecideKeeps ==
  ASSUME BoundAssumption, Inv, NEW c \in Coordinators, NEW n \in Nodes, RestoreDecide(c, n)
  PROVE  Inv'
<1>1. NoFault /\ nextId' = nextId /\ WriteOnly /\ Here(c, n, {"answered"}, "restore")
  BY DEF RestoreDecide
<1>2. PICK e \in Epochs, s \in Row :
        /\ pass[c] = RestoreOp(e) /\ pass[c] \in Operations /\ at[c][n] = "answered" /\ s = mem[c][n]
        /\ CopyOfRestore(e, n, s, "answered") /\ s.snapshot \subseteq Models
        /\ Owns(c) => step[pass[c]][n] = s
  <2>1. /\ pass[c] = RestoreOp(pass[c][2]) /\ pass[c][2] \in Epochs /\ pass[c] \in Operations
        /\ at[c][n] = "answered" /\ mem[c][n] \in Row
        /\ CopyOfRestore(pass[c][2], n, mem[c][n], "answered") /\ mem[c][n].snapshot \subseteq Models
        /\ Owns(c) => step[pass[c]][n] = mem[c][n]
    BY <1>1, RestoreCopy
  <2> QED  BY <2>1
<1>3. s.phase \in {"pending", "loaded", "probed"} /\ s.probed \subseteq s.snapshot
  BY <1>2 DEF CopyOfRestore
<1>4. ASSUME NEW final \in BOOLEAN, Failed(c, n, final, FALSE)  PROVE Inv'
  <2>1. Fault \/ NoFault  BY <1>1
  <2>2. \A f \in Epochs : pass[c] = EntryOp(f) /\ FALSE => ResetCall(f, mem[c][n].resetId) \in refused[n]
    OBVIOUS
  <2> QED  BY <2>1, <2>2, <1>1, <1>2, <1>4, FailedKeeps
<1>5. ASSUME NEW to, NEW phase \in Phases, NEW next \in {"call", "send"},
             Write(c, n, advance(step[pass[c]][n], phase, to), next),
             to \in Row, to.resetId = s.resetId, to.probed \subseteq s.snapshot,
             next = "send" => phase = "pending" /\ to.open \in s.snapshot
      PROVE  Inv'
  <2>1. Owns(c) /\ step[pass[c]][n].status = "running" =>
           /\ to \in Row /\ to.resetId = step[pass[c]][n].resetId
           /\ to.probed \subseteq step[pass[c]][n].snapshot
           /\ next = "send" => phase = "pending" /\ to.open \in step[pass[c]][n].snapshot
    BY <1>2, <1>5
  <2>2. at[c][n] # "claimed" /\ next \in {"call", "send", "ended"}  BY <1>2
  <2> QED  BY <2>1, <2>2, <1>1, <1>2, <1>5, RestoreAdvanceKeeps
<1>6. \A phase \in {"pending", "loaded", "probed", "verified"} : phase \in Phases  BY DEF Phases
<1>7. PICK unprobed \in Row : /\ unprobed = WithProbed(s, {})
                              /\ unprobed.probed = {} /\ unprobed.resetId = s.resetId
  <2>1. {} \in SUBSET Models /\ 0 \in 0 .. NumModels /\ 0 \in 0 .. LoadCap
    BY DEF BoundAssumption, LoadCap
  <2> QED  BY <2>1, RowsOfRestore
<1>8. /\ {} \subseteq s.snapshot /\ ("call" = "send" => FALSE)  OBVIOUS
<1>9. PICK seen \in SUBSET Models : seen = got[c][n].seen
  BY DEF Inv, Types, TypesCoord
<1>10. CASE got[c][n] = NoAnswer
  <2>1. Failed(c, n, FALSE, FALSE)  BY <1>10 DEF RestoreDecide
  <2> QED  BY <2>1, <1>4
<1>11. CASE got[c][n] # NoAnswer /\ strangers(s, seen) # {}
  <2>1. Failed(c, n, TRUE, FALSE)  BY <1>2, <1>9, <1>11 DEF RestoreDecide
  <2> QED  BY <2>1, <1>4
<1>12. CASE got[c][n] # NoAnswer /\ strangers(s, seen) = {} /\ missing(s, seen) = {}
  <2>1. CASE s.phase = "pending"
    <3>1. Advance(c, n, "loaded", unprobed)
      BY <1>2, <1>7, <1>9, <1>12, <2>1 DEF RestoreDecide, WithProbed
    <3>2. Write(c, n, advance(step[pass[c]][n], "loaded", unprobed), "call")  BY <3>1 DEF Advance
    <3> QED  BY <3>2, <1>5, <1>6, <1>7
  <2>2. CASE s.phase = "loaded"
    <3>1. Advance(c, n, "probed", s)
      BY <1>2, <1>9, <1>12, <2>2 DEF RestoreDecide
    <3>2. Write(c, n, advance(step[pass[c]][n], "probed", s), "call")  BY <3>1 DEF Advance
    <3> QED  BY <3>2, <1>3, <1>5, <1>6
  <2>3. CASE s.phase = "probed"
    <3>1. Advance(c, n, "verified", s)
      BY <1>2, <1>9, <1>12, <2>3 DEF RestoreDecide
    <3>2. Write(c, n, advance(step[pass[c]][n], "verified", s), "call")  BY <3>1 DEF Advance
    <3> QED  BY <3>2, <1>3, <1>5, <1>6
  <2> QED  BY <1>3, <2>1, <2>2, <2>3
<1>13. CASE /\ got[c][n] # NoAnswer /\ strangers(s, seen) = {} /\ missing(s, seen) # {}
            /\ s.phase # "pending"
  <2>1. Advance(c, n, "pending", unprobed)
    BY <1>2, <1>7, <1>9, <1>13 DEF RestoreDecide, WithProbed
  <2>2. Write(c, n, advance(step[pass[c]][n], "pending", unprobed), "call")  BY <2>1 DEF Advance
  <2> QED  BY <2>2, <1>5, <1>6, <1>7
<1>14. CASE /\ got[c][n] # NoAnswer /\ strangers(s, seen) = {} /\ missing(s, seen) # {}
            /\ s.phase = "pending" /\ s.loads >= Cardinality(s.snapshot) * (1 + RepairRounds)
  <2>1. Failed(c, n, TRUE, FALSE)  BY <1>2, <1>9, <1>14 DEF RestoreDecide
  <2> QED  BY <2>1, <1>4
<1>15. CASE /\ got[c][n] # NoAnswer /\ strangers(s, seen) = {} /\ missing(s, seen) # {}
            /\ s.phase = "pending" /\ ~(s.loads >= Cardinality(s.snapshot) * (1 + RepairRounds))
  <2>1. NextLoad(c, n)  BY <1>2, <1>9, <1>15 DEF RestoreDecide
  <2>2. PICK model : model = Max(missing(s, seen))  OBVIOUS
  <2>3. model \in s.snapshot /\ model \in 0 .. NumModels
    <3>1. missing(s, seen) \in SUBSET Models /\ missing(s, seen) \subseteq s.snapshot
      BY <1>2 DEF missing
    <3>2. model \in s.snapshot /\ model \in Models
      BY <3>1, <2>2, <1>15, MaxOfModels
    <3> QED  BY <3>2 DEF Models, BoundAssumption
  <2>4. CASE s.open = model
    <3>1. at' = [at EXCEPT ![c][n] = "send"] /\ UNCHANGED <<step, mem, got>>
      BY <1>2, <1>9, <2>1, <2>2, <2>4 DEF NextLoad
    <3>2. faults' \in 0 .. MaxFaults  BY <1>1, FaultCounts
    <3>3. WriteFrame(c, n)  BY <3>1, <3>2, <1>1 DEF WriteFrame
    <3>4. pass[c][1] = "restore" /\ mem[c][n].phase = "pending" /\ mem[c][n].open \in mem[c][n].snapshot
      BY <1>2, <1>15, <2>3, <2>4, OperationsOf
    <3>5. at[c][n] # "claimed" /\ "send" \in {"ended", "send"}  BY <1>2
    <3> QED  BY <3>1, <3>3, <3>4, <3>5, <1>2, NothingWritten
  <2>5. CASE s.open # model
    <3>1. PICK loads \in 0 .. LoadCap : loads = s.loads + 1
      <4>1. s.loads \in 0 .. LoadCap  BY DEF Row
      <4> QED  BY <4>1, <1>2, <1>15, LoadsLeft
    <3>2. PICK to \in Row : /\ to = WithLoad(s, loads, model)
                            /\ to.resetId = s.resetId /\ to.open = model /\ to.probed = {}
      BY <2>3, <3>1, RowsOfRestore
    <3>3. to = [s EXCEPT !.loads = @ + 1, !.open = model, !.probed = {}]
      BY <3>1, <3>2 DEF WithLoad
    <3>4. Write(c, n, advance(step[pass[c]][n], "pending", to), "send")
      BY <1>2, <1>9, <2>1, <2>2, <2>5, <3>3 DEF NextLoad
    <3> QED  BY <3>2, <3>4, <2>3, <1>5, <1>6
  <2> QED  BY <2>4, <2>5
<1> QED  BY <1>10, <1>11, <1>12, <1>13, <1>14, <1>15

\* The answer to a load or a probe.
LEMMA RestoreWriteKeeps ==
  ASSUME BoundAssumption, Inv, NEW c \in Coordinators, NEW n \in Nodes, RestoreWrite(c, n)
  PROVE  Inv'
<1>1. NoFault /\ nextId' = nextId /\ WriteOnly /\ Here(c, n, {"said"}, "restore")
  BY DEF RestoreWrite
<1>2. PICK e \in Epochs, s \in Row :
        /\ pass[c] = RestoreOp(e) /\ pass[c] \in Operations /\ at[c][n] = "said" /\ s = mem[c][n]
        /\ CopyOfRestore(e, n, s, "said") /\ s.snapshot \subseteq Models
        /\ Owns(c) => step[pass[c]][n] = s
  <2>1. /\ pass[c] = RestoreOp(pass[c][2]) /\ pass[c][2] \in Epochs /\ pass[c] \in Operations
        /\ at[c][n] = "said" /\ mem[c][n] \in Row
        /\ CopyOfRestore(pass[c][2], n, mem[c][n], "said") /\ mem[c][n].snapshot \subseteq Models
        /\ Owns(c) => step[pass[c]][n] = mem[c][n]
    BY <1>1, RestoreCopy
  <2> QED  BY <2>1
<1> DEFINE a == got[c][n].says
<1>3. s.probed \subseteq s.snapshot /\ (s.phase = "loaded" => s.probed # s.snapshot)
  BY <1>2 DEF CopyOfRestore
<1>4. ASSUME NEW to, NEW phase \in Phases,
             Write(c, n, advance(step[pass[c]][n], phase, to), "call"),
             to \in Row, to.resetId = s.resetId, to.probed \subseteq s.snapshot
      PROVE  Inv'
  <2>1. Owns(c) /\ step[pass[c]][n].status = "running" =>
           /\ to \in Row /\ to.resetId = step[pass[c]][n].resetId
           /\ to.probed \subseteq step[pass[c]][n].snapshot
           /\ "call" = "send" => phase = "pending" /\ to.open \in step[pass[c]][n].snapshot
    BY <1>2, <1>4
  <2>2. at[c][n] # "claimed"  BY <1>2
  <2> QED  BY <2>1, <2>2, <1>1, <1>2, <1>4, RestoreAdvanceKeeps
<1>5. "loaded" \in Phases /\ "pending" \in Phases  BY DEF Phases
<1>6. CASE s.phase = "loaded" /\ a = "completed"
  <2>1. PICK probed \in SUBSET Models : probed = s.probed \cup {Max(s.snapshot \ s.probed)}
                                        /\ probed \subseteq s.snapshot
    <3>1. s.snapshot \ s.probed \in SUBSET Models /\ s.snapshot \ s.probed # {}
      BY <1>2, <1>3, <1>6
    <3>2. Max(s.snapshot \ s.probed) \in s.snapshot \ s.probed  BY <3>1, MaxOfModels
    <3> QED  BY <3>2, <1>2, <1>3, ZenonT(60)
  <2>2. PICK to \in Row : /\ to = WithProbed(s, probed) /\ to.probed = probed
                          /\ to.resetId = s.resetId
    <3>1. 0 \in 0 .. NumModels /\ 0 \in 0 .. LoadCap  BY DEF BoundAssumption, LoadCap
    <3> QED  BY <3>1, RowsOfRestore
  <2>3. to = [s EXCEPT !.probed = @ \cup {Max(s.snapshot \ @)}]  BY <2>1, <2>2 DEF WithProbed
  <2>4. Write(c, n, advance(step[pass[c]][n], "loaded", to), "call")
    BY <1>2, <1>6, <2>3 DEF RestoreWrite, Advance
  <2> QED  BY <2>1, <2>2, <2>4, <1>4, <1>5
<1>7. CASE s.phase = "loaded" /\ a # "completed"
  <2>1. Failed(c, n, FALSE, FALSE)  BY <1>2, <1>7 DEF RestoreWrite
  <2>2. \A f \in Epochs : pass[c] = EntryOp(f) /\ FALSE => ResetCall(f, mem[c][n].resetId) \in refused[n]
    OBVIOUS
  <2>3. Fault \/ NoFault  BY <1>1
  <2> QED  BY <2>1, <2>2, <2>3, <1>1, <1>2, FailedKeeps
<1>8. CASE s.phase # "loaded" /\ a = "completed"
  <2>1. 0 \in 0 .. NumModels /\ 0 \in 0 .. LoadCap /\ {} \in SUBSET Models
    BY DEF BoundAssumption, LoadCap
  <2>2. PICK to \in Row : /\ to = WithOpen(s, 0) /\ to.probed = s.probed
                          /\ to.resetId = s.resetId
    BY <2>1, RowsOfRestore
  <2>3. Write(c, n, advance(step[pass[c]][n], "pending", to), "call")
    BY <1>2, <1>8, <2>2 DEF RestoreWrite, Advance, WithOpen
  <2> QED  BY <2>2, <2>3, <1>3, <1>4, <1>5
<1>9. CASE s.phase # "loaded" /\ a # "completed"
  <2> DEFINE row == step[pass[c]][n]
  <2>1. PICK base : base = [row EXCEPT !.open = IF a = "failed" THEN 0 ELSE @]  OBVIOUS
  <2>2. PICK t : t = attempt_failed(base, FALSE, FALSE)  OBVIOUS
  <2>3. Write(c, n, t, "ended")
    BY <1>2, <1>9, <2>1, <2>2 DEF RestoreWrite
  <2>4. ASSUME Owns(c), row.status = "running"
        PROVE  Sound(c, n, t, IF t.status = "running" THEN "ended" ELSE "ended")
    <3>1. row = s  BY <1>2, <2>4
    <3>2. 0 \in 0 .. NumModels  BY DEF BoundAssumption
    <3>3. base \in Row /\ (base = row \/ base = [row EXCEPT !.open = 0])
      <4>1. CASE a = "failed"
        <5>1. base = [s EXCEPT !.open = 0]  BY <2>1, <3>1, <4>1
        <5>2. base \in Row  BY <5>1, <3>2 DEF Row
        <5> QED  BY <5>1, <5>2, <3>1
      <4>2. CASE a # "failed"
        <5>1. base = s  BY <2>1, <3>1, <4>2 DEF Row
        <5> QED  BY <5>1, <3>1
      <4> QED  BY <4>1, <4>2
    <3>4. at[c][n] # "claimed"  BY <1>2
    <3>5. Sound(c, n, t, "ended")
      BY <3>3, <3>4, <2>2, <2>4, <1>1, FailedSound
    <3> QED  BY <3>5
  <2>5. at[c][n] # "claimed" /\ (Fault \/ NoFault) /\ "ended" \in {"call", "send", "ended"}  BY <1>1, <1>2
  <2> QED  BY <2>3, <2>4, <2>5, <1>1, <1>2, WriteKeeps
<1> QED  BY <1>6, <1>7, <1>8, <1>9

-----------------------------------------------------------------------------
(* The administrator and the operation as a whole.                         *)

\* What the administrator and a pass do to the operations on record: the rows
\* keep what calls depend on, and an entry that succeeded stays so.
RecordsMove ==
  /\ \A o \in Operations :
       /\ status'[o] = "none" <=> status[o] = "none"
       /\ status[o] = "none" => owner'[o] = NoOne /\ step'[o] = step[o]
       /\ \A n \in Nodes :
            /\ step'[o][n].snapshot = step[o][n].snapshot
            /\ step'[o][n].resetId = step[o][n].resetId
            /\ step'[o][n].probed = step[o][n].probed
  /\ \A e \in Epochs :
       /\ status[EntryOp(e)] = "succeeded" => status'[EntryOp(e)] = "succeeded"
       /\ asked' = RestoreOp(e) => Restorable(e) /\ e <= epoch
       /\ \A n \in Nodes :
            /\ step'[EntryOp(e)][n].phase = step[EntryOp(e)][n].phase
            /\ step'[EntryOp(e)][n].status = "done" <=> step[EntryOp(e)][n].status = "done"
            /\ status'[EntryOp(e)] = "succeeded" => step[EntryOp(e)][n].status = "done"

\* A coordinator is left alone, is through, or goes to a place where no answer is
\* awaited.
StillOwns(d) == Owns(d)' => Owns(d) /\ step'[pass[d]] = step[pass[d]]
Kept(d) ==
  /\ pass'[d] = pass[d] /\ mem'[d] = mem[d] /\ at'[d] = at[d] /\ got'[d] = got[d]
  /\ unchecked'[d] = unchecked[d] /\ StillOwns(d)
Through(d) ==
  /\ pass'[d] \notin Operations /\ unchecked'[d] = {} /\ \A m \in Nodes : at'[d][m] = "idle"
Goes(d) ==
  /\ pass'[d] \in Operations /\ status[pass'[d]] # "none"
  /\ \/ pass'[d] = pass[d] /\ mem'[d] = mem[d] /\ StillOwns(d)
     \/ mem'[d] = step[pass'[d]] /\ step' = step
  /\ unchecked'[d] # {} => pass'[d][1] = "restore"
  /\ \A m \in Nodes :
       /\ \/ /\ at'[d][m] = at[d][m] /\ got'[d][m] = got[d][m]
             /\ pass'[d] = pass[d] /\ mem'[d] = mem[d] /\ StillOwns(d)
          \/ at'[d][m] \in {"claimed", "start", "ended", "closing", "checked"}
       /\ Owns(d)' /\ (at'[d][m] # "claimed" \/ unchecked'[d] # {}) => Held(pass'[d][2])
       /\ at'[d][m] \in {"closing", "checked"} => pass'[d][1] = "restore"
       /\ at'[d][m] = "checked" =>
            \/ at[d][m] = "checked" /\ pass'[d] = pass[d] /\ mem'[d] = mem[d]
            \/ resident[m] = mem'[d][m].snapshot

LEMMA SettledKeeps ==
  ASSUME BoundAssumption, Inv, Types',
         UNCHANGED <<epoch, resident, quiet, applied, refused, late, held, nextId>>,
         RecordsMove, \A d \in Coordinators : Kept(d) \/ Through(d) \/ Goes(d),
         closed' => closed,
         closed' = closed
           \/ \A d \in Coordinators, m \in Nodes :
                Owns(d)' => at'[d][m] = "claimed" /\ unchecked'[d] = {},
         Held(epoch) => \A n \in lapsed \ lapsed' : resident[n] = step[RestoreOp(epoch)][n].snapshot
  PROVE  Inv'
<1>1. \A e : Held(e)' => Held(e)  BY DEF Held
<1>2. ASSUME NEW e \in Epochs
      PROVE  /\ status'[EntryOp(e)] = "none" <=> status[EntryOp(e)] = "none"
             /\ status'[RestoreOp(e)] = "none" <=> status[RestoreOp(e)] = "none"
             /\ \A n \in Nodes :
                  /\ step'[EntryOp(e)][n].snapshot = step[EntryOp(e)][n].snapshot
                  /\ step'[EntryOp(e)][n].resetId = step[EntryOp(e)][n].resetId
                  /\ step'[RestoreOp(e)][n].snapshot = step[RestoreOp(e)][n].snapshot
                  /\ step'[RestoreOp(e)][n].probed = step[RestoreOp(e)][n].probed
  BY OperationsOf DEF RecordsMove
<1>3. Unrecorded'
  <2>1. \A o \in Operations : status'[o] = "none" => owner'[o] = NoOne
    BY DEF RecordsMove
  <2>2. \A o \in Operations : o[2] > epoch => status'[o] = "none"
    BY DEF RecordsMove, Inv, Unrecorded
  <2>3. \A e \in Epochs : status'[EntryOp(e)] = "none"
          => /\ step'[EntryOp(e)] = [n \in Nodes |-> NewStep(NoSnapshot)]
             /\ \A n \in Nodes : held[e][n] = NoSnapshot
    <3> SUFFICES ASSUME NEW e \in Epochs, status'[EntryOp(e)] = "none"
                 PROVE  /\ step'[EntryOp(e)] = [n \in Nodes |-> NewStep(NoSnapshot)]
                        /\ \A n \in Nodes : held[e][n] = NoSnapshot
      OBVIOUS
    <3>1. status[EntryOp(e)] = "none" /\ step'[EntryOp(e)] = step[EntryOp(e)]
      BY OperationsOf DEF RecordsMove
    <3> QED  BY <3>1 DEF Inv, Unrecorded
  <2>4. ASSUME NEW d \in Coordinators, pass'[d] \in Operations
        PROVE  status'[pass'[d]] # "none"
    <3>1. status[pass'[d]] # "none"
      BY <2>4 DEF Kept, Through, Goes, Inv, Unrecorded
    <3> QED  BY <2>4, <3>1 DEF RecordsMove
  <2> QED  BY <2>1, <2>2, <2>3, <2>4 DEF Unrecorded
<1>4. \A e \in Epochs : Restorable(e) => Restorable(e)'
  BY <1>2 DEF RecordsMove, Restorable
<1>5. RestoreFollows'
  <2> SUFFICES ASSUME NEW e \in Epochs
               PROVE  /\ status'[EntryOp(e)] = "succeeded" =>
                           \A n \in Nodes : step'[EntryOp(e)][n].status = "done"
                      /\ asked' = RestoreOp(e) => Restorable(e)' /\ e <= epoch
                      /\ status'[RestoreOp(e)] # "none" =>
                           /\ Restorable(e)'
                           /\ \A n \in Nodes :
                                /\ step'[RestoreOp(e)][n].snapshot = step'[EntryOp(e)][n].snapshot
                                /\ step'[RestoreOp(e)][n].probed \subseteq step'[RestoreOp(e)][n].snapshot
    BY DEF RestoreFollows
  <2>1. status'[EntryOp(e)] = "succeeded" => \A n \in Nodes : step'[EntryOp(e)][n].status = "done"
    BY DEF RecordsMove
  <2>2. asked' = RestoreOp(e) => Restorable(e)' /\ e <= epoch
    BY <1>4 DEF RecordsMove
  <2>3. status[RestoreOp(e)] # "none" =>
          /\ Restorable(e)
          /\ \A n \in Nodes :
               /\ step[RestoreOp(e)][n].snapshot = step[EntryOp(e)][n].snapshot
               /\ step[RestoreOp(e)][n].probed \subseteq step[RestoreOp(e)][n].snapshot
    BY DEF Inv, RestoreFollows
  <2> QED  BY <2>1, <2>2, <2>3, <1>2, <1>4
<1>6. OwnCopy'
  <2> SUFFICES ASSUME NEW d \in Coordinators, Owns(d)'
               PROVE  mem'[d] = step'[pass'[d]]
    BY DEF OwnCopy
  <2>1. Owns(d) => mem[d] = step[pass[d]]  BY DEF Inv, OwnCopy
  <2>2. pass'[d] \in Operations  BY DEF Owns
  <2>3. CASE Kept(d)  BY <2>1, <2>3 DEF Kept, StillOwns
  <2>4. CASE Goes(d)  BY <2>1, <2>4 DEF Goes, StillOwns
  <2> QED  BY <2>2, <2>3, <2>4 DEF Through
<1>7. UnderHold'
  <2> SUFFICES ASSUME NEW d \in Coordinators, NEW m \in Nodes, Owns(d)',
                      at'[d][m] # "claimed" \/ unchecked'[d] # {}
               PROVE  closed' /\ epoch' = pass'[d][2]
    BY DEF UnderHold, Held
  <2>1. pass'[d] \in Operations  BY DEF Owns
  <2>2. closed' = closed  OBVIOUS
  <2>3. CASE Kept(d)
    <3>1. Held(pass[d][2])  BY <2>3 DEF Kept, StillOwns, Inv, UnderHold
    <3>2. pass'[d] = pass[d]  BY <2>3 DEF Kept
    <3> QED  BY <2>2, <3>1, <3>2 DEF Held
  <2>4. CASE Goes(d)
    <3>1. Held(pass'[d][2])  BY <2>4 DEF Goes
    <3> QED  BY <2>2, <3>1 DEF Held
  <2> QED  BY <2>1, <2>3, <2>4 DEF Through
<1>8. EntryRows'
  <2> SUFFICES ASSUME NEW e \in Epochs, NEW n \in Nodes
               PROVE  EntryRow(e, n, step[EntryOp(e)][n])'
    BY DEF EntryRows
  <2>1. EntryRow(e, n, step[EntryOp(e)][n])  BY DEF Inv, EntryRows
  <2>2. /\ step'[EntryOp(e)][n].phase = step[EntryOp(e)][n].phase
        /\ step'[EntryOp(e)][n].status = "done" <=> step[EntryOp(e)][n].status = "done"
        /\ step'[EntryOp(e)][n].snapshot = step[EntryOp(e)][n].snapshot
        /\ status'[RestoreOp(e)] = "none" <=> status[RestoreOp(e)] = "none"
    BY <1>2 DEF RecordsMove
  <2> QED  BY <2>1, <2>2, <1>1 DEF EntryRow, WasReset
<1>9. ASSUME NEW e \in Epochs, NEW n \in Nodes, NEW id
      PROVE  KnownReset(n, e, id) <=> KnownReset(n, e, id)'
  BY <1>2 DEF KnownReset
<1>10. Receipts'
  <2> SUFFICES ASSUME NEW n \in Nodes, NEW call \in applied[n] \cup late[n]
               PROVE  Expected(n, call)'
    BY DEF Inv, Receipts
  <2>1. Expected(n, call) /\ call.epoch \in Epochs
    BY DEF Inv, Receipts, Types, TypesNodes, Call
  <2> QED  BY <2>1, <1>2, <1>9 DEF Expected
<1>11. Copies'
  <2> SUFFICES ASSUME NEW d \in Coordinators, NEW n \in Nodes, NEW e \in Epochs
               PROVE  /\ pass'[d] = EntryOp(e) => CopyOfEntry(e, n, mem[d][n])'
                      /\ pass'[d] = RestoreOp(e) => CopyOfRestore(e, n, mem[d][n], at[d][n])'
    BY DEF Copies
  <2>0. EntryOp(e) \in Operations /\ RestoreOp(e) \in Operations  BY OperationsOf
  <2>1. CASE pass'[d] = pass[d] /\ mem'[d] = mem[d]
             /\ (at'[d][n] = at[d][n] \/ at'[d][n] \in {"claimed", "start", "ended", "closing", "checked"})
    <3>1. ASSUME pass[d] = EntryOp(e)  PROVE CopyOfEntry(e, n, mem[d][n])'
      <4>1. CopyOfEntry(e, n, mem[d][n])  BY <3>1 DEF Inv, Copies
      <4> QED  BY <2>1, <4>1, <1>2, <1>9 DEF CopyOfEntry
    <3>2. ASSUME pass[d] = RestoreOp(e)  PROVE CopyOfRestore(e, n, mem[d][n], at[d][n])'
      <4>1. CopyOfRestore(e, n, mem[d][n], at[d][n])  BY <3>2 DEF Inv, Copies
      <4> QED  BY <2>1, <4>1, <1>2 DEF CopyOfRestore
    <3> QED  BY <2>1, <3>1, <3>2
  <2>2. CASE /\ pass'[d] \in Operations /\ mem'[d] = step[pass'[d]] /\ status[pass'[d]] # "none"
             /\ at'[d][n] \in {"claimed", "start", "ended", "closing", "checked"}
    <3>1. ASSUME pass'[d] = EntryOp(e)  PROVE CopyOfEntry(e, n, mem[d][n])'
      <4>1. EntryRow(e, n, step[EntryOp(e)][n])  BY DEF Inv, EntryRows
      <4> QED  BY <2>2, <3>1, <4>1, <1>2 DEF EntryRow, CopyOfEntry, KnownReset
    <3>2. ASSUME pass'[d] = RestoreOp(e)  PROVE CopyOfRestore(e, n, mem[d][n], at[d][n])'
      <4>1. step[RestoreOp(e)][n].probed \subseteq step[RestoreOp(e)][n].snapshot
        BY <2>2, <3>2 DEF Inv, RestoreFollows
      <4> QED  BY <2>2, <3>2, <4>1, <1>2 DEF CopyOfRestore
    <3> QED  BY <3>1, <3>2
  <2>3. CASE pass'[d] \notin Operations  BY <2>0, <2>3
  <2> QED  BY <2>1, <2>2, <2>3 DEF Kept, Through, Goes
<1>12. Answers'
  <2> SUFFICES ASSUME NEW d \in Coordinators, NEW n \in Nodes, NEW e \in Epochs,
                      pass'[d] = EntryOp(e), at'[d][n] = "answered"
               PROVE  Told(d, n, e)'
    BY DEF Answers
  <2>1. /\ at'[d][n] = at[d][n] /\ got'[d][n] = got[d][n] /\ pass'[d] = pass[d]
        /\ mem'[d] = mem[d] /\ (Owns(d)' => Owns(d))
    BY DEF Kept, Through, Goes, StillOwns
  <2>2. Told(d, n, e)  BY <2>1 DEF Inv, Answers
  <2> QED  BY <2>1, <2>2, <1>1 DEF Told, WasReset
<1>13. Looks'
  <2> SUFFICES ASSUME NEW d \in Coordinators
               PROVE  /\ unchecked'[d] # {} => pass'[d] \in Operations /\ pass'[d][1] = "restore"
                      /\ \A n \in Nodes : at'[d][n] \in {"closing", "checked"} =>
                           pass'[d] \in Operations /\ pass'[d][1] = "restore"
                      /\ \A n \in Nodes : at'[d][n] = "checked" /\ closed' /\ epoch' = pass'[d][2] =>
                           n \in lapsed' \/ resident[n] = mem'[d][n].snapshot
    BY DEF Looks, Held
  <2>1. /\ unchecked'[d] # {} => pass'[d] \in Operations /\ pass'[d][1] = "restore"
        /\ \A n \in Nodes : at'[d][n] \in {"closing", "checked"} =>
             pass'[d] \in Operations /\ pass'[d][1] = "restore"
    BY DEF Kept, Through, Goes, Inv, Looks
  <2>2. ASSUME NEW n \in Nodes, at'[d][n] = "checked", closed', epoch' = pass'[d][2]
        PROVE  n \in lapsed' \/ resident[n] = mem'[d][n].snapshot
    <3>1. Held(pass'[d][2]) /\ Held(epoch) /\ epoch = pass'[d][2]  BY <2>2 DEF Held
    <3>2. CASE at[d][n] = "checked" /\ pass'[d] = pass[d] /\ mem'[d] = mem[d]
      <4>1. n \in lapsed \/ resident[n] = mem[d][n].snapshot
        BY <3>1, <3>2 DEF Inv, Looks
      <4>2. pass[d] = RestoreOp(epoch) /\ epoch \in Epochs
        BY <2>1, <2>2, <3>1, <3>2, OperationForm DEF EntryOp, RestoreOp
      <4>3. mem[d][n].snapshot = step[RestoreOp(epoch)][n].snapshot
        BY <4>2 DEF Inv, Copies, CopyOfRestore
      <4> QED  BY <3>1, <3>2, <4>1, <4>3
    <3>3. CASE resident[n] = mem'[d][n].snapshot  BY <3>3
    <3> QED  BY <2>2, <3>2, <3>3 DEF Kept, Through, Goes
  <2> QED  BY <2>1, <2>2
<1> QED  BY <1>3, <1>5, <1>6, <1>7, <1>8, <1>10, <1>11, <1>12, <1>13 DEF Inv

\* What the administrator and a pass leave to the nodes.
LEMMA RestOfTypes ==
  ASSUME BoundAssumption, Inv, UNCHANGED <<nodeVars, nextId, held>>, lapsed' \subseteq Nodes,
         faults' \in 0 .. MaxFaults
  PROVE  TypesNodes'
BY DEF Inv, Types, TypesNodes, nodeVars

\* Operations that stay as they are.
LEMMA RecordsStay ==
  ASSUME BoundAssumption, Inv, step' = step,
         \A o \in Operations :
           /\ status'[o] = status[o]
              \/ (status[o] = "running" /\ status'[o] \in {"failed", "succeeded", "abandoned"})
           /\ owner'[o] = owner[o] \/ owner'[o] = NoOne \/ status[o] # "none"
           /\ status'[o] = status[o]
              \/ \A e \in Epochs : o = EntryOp(e) /\ status'[o] = "succeeded"
                   => \A n \in Nodes : step[o][n].status = "done",
         asked' = asked \/ asked' = NoOp
           \/ /\ epoch \in Epochs
              /\ asked' = EntryOp(epoch) \/ (asked' = RestoreOp(epoch) /\ Restorable(epoch))
  PROVE  RecordsMove
<1>1. ASSUME NEW e \in Epochs, asked' = RestoreOp(e)
      PROVE  Restorable(e) /\ e <= epoch
  <2>1. asked = RestoreOp(e) => Restorable(e) /\ e <= epoch  BY DEF Inv, RestoreFollows
  <2>2. RestoreOp(e) # NoOp /\ \A f \in Epochs : EntryOp(f) # RestoreOp(e) /\ (RestoreOp(f) = RestoreOp(e) => f = e)
    BY OperationForm, OperationsOf
  <2>3. CASE asked' = asked \/ asked' = NoOp  BY <1>1, <2>1, <2>2, <2>3
  <2>4. CASE /\ epoch \in Epochs
             /\ asked' = EntryOp(epoch) \/ (asked' = RestoreOp(epoch) /\ Restorable(epoch))
    <3>1. e = epoch /\ Restorable(epoch)  BY <1>1, <2>2, <2>4
    <3> QED  BY <3>1 DEF Epochs
  <2> QED  BY <2>3, <2>4
<1>2. ASSUME NEW e \in Epochs, NEW n \in Nodes, status'[EntryOp(e)] = "succeeded"
      PROVE  step[EntryOp(e)][n].status = "done"
  <2>1. EntryOp(e) \in Operations  BY OperationsOf
  <2>2. CASE status'[EntryOp(e)] = status[EntryOp(e)]
    BY <1>2, <2>2 DEF Inv, RestoreFollows
  <2>3. CASE status'[EntryOp(e)] # status[EntryOp(e)]
    BY <1>2, <2>1, <2>3
  <2> QED  BY <2>2, <2>3
<1>3. ASSUME NEW o \in Operations
      PROVE  /\ status'[o] = "none" <=> status[o] = "none"
             /\ status[o] = "none" => owner'[o] = NoOne
             /\ status[o] = "succeeded" => status'[o] = "succeeded"
  <2>1. status[o] = "none" => owner[o] = NoOne  BY DEF Inv, Unrecorded
  <2> QED  BY <2>1
<1> QED  BY <1>1, <1>2, <1>3, OperationsOf DEF RecordsMove

\* Steps that only the administrator or the database takes.
LEMMA AdminSteps ==
  ASSUME BoundAssumption, Inv, TypesDb', UNCHANGED <<nodeVars, nextId, coordVars, history, epoch>>,
         faults' \in 0 .. MaxFaults, RecordsMove, closed' => closed,
         closed' = closed \/ \A d \in Coordinators : ~Owns(d)',
         \A d \in Coordinators : Owns(d)' => Owns(d) /\ step'[pass[d]] = step[pass[d]]
  PROVE  Inv'
<1>1. UNCHANGED <<resident, quiet, applied, refused, late, held, lapsed, pass, mem, at, got, unchecked>>
  BY DEF nodeVars, coordVars, history
<1>2. TypesCoord'  BY <1>1 DEF Inv, Types, TypesCoord
<1>3. lapsed' \subseteq Nodes  BY <1>1 DEF Inv, Types, TypesNodes
<1>4. Types'  BY <1>1, <1>2, <1>3, RestOfTypes DEF Types
<1>5. \A d \in Coordinators : Kept(d)  BY <1>1 DEF Kept, StillOwns
<1> QED  BY <1>1, <1>4, <1>5, SettledKeeps

LEMMA AskRestoreKeeps ==
  ASSUME BoundAssumption, Inv, AskRestore
  PROVE  Inv'
<1>1. /\ closed /\ epoch \in Epochs /\ asked' = RestoreOp(epoch)
      /\ UNCHANGED <<closed, epoch, status, owner, leased, step>>
      /\ UNCHANGED <<nodeVars, nextId, coordVars, faults, history>>
  BY DEF AskRestore, MayRestore, Held, AdminOnly, RestoreOp, Inv, Types, TypesDb, Epochs
<1>2. Restorable(epoch)
  <2>1. /\ status[EntryOp(epoch)] = "succeeded"
        /\ \A n \in Nodes : step[EntryOp(epoch)][n].snapshot # Unobserved
    BY DEF AskRestore, MayRestore, EntryOp
  <2>2. ASSUME NEW n \in Nodes  PROVE step[EntryOp(epoch)][n].snapshot \subseteq Models
    <3>1. step[EntryOp(epoch)][n].status = "done"  BY <1>1, <2>1 DEF Inv, RestoreFollows
    <3>2. EntryRow(epoch, n, step[EntryOp(epoch)][n])  BY <1>1 DEF Inv, EntryRows
    <3>3. step[EntryOp(epoch)][n].snapshot # NoSnapshot  BY <3>1, <3>2 DEF EntryRow
    <3>4. step[EntryOp(epoch)][n] \in Row  BY <1>1, OperationsOf DEF Inv, Types, TypesDb
    <3> QED  BY <2>1, <3>3, <3>4 DEF Row
  <2> QED  BY <2>1, <2>2 DEF Restorable
<1>3. epoch <= epoch  BY <1>1 DEF Epochs
<1>4. RecordsMove
  <2>1. \A o \in Operations :
           /\ status'[o] = status[o]
              \/ (status[o] = "running" /\ status'[o] \in {"failed", "succeeded", "abandoned"})
           /\ owner'[o] = owner[o] \/ owner'[o] = NoOne \/ status[o] # "none"
           /\ status'[o] = status[o]
              \/ \A e \in Epochs : o = EntryOp(e) /\ status'[o] = "succeeded"
                   => \A n \in Nodes : step[o][n].status = "done"
    BY <1>1
  <2>2. epoch \in Epochs /\ (asked' = EntryOp(epoch) \/ (asked' = RestoreOp(epoch) /\ Restorable(epoch)))
    BY <1>1, <1>2, <1>3
  <2>3. step' = step  BY <1>1
  <2> QED  BY <2>1, <2>2, <2>3, RecordsStay
<1>5. TypesDb'  BY <1>1, OperationsOf DEF Inv, Types, TypesDb
<1>6. faults' \in 0 .. MaxFaults  BY <1>1 DEF Inv, Types, TypesNodes
<1>7. \A d \in Coordinators : Owns(d)' => Owns(d) /\ step'[pass[d]] = step[pass[d]]
  BY <1>1 DEF Owns, Fenced, coordVars
<1> QED  BY <1>1, <1>4, <1>5, <1>6, <1>7, AdminSteps

LEMMA AskRetryKeeps ==
  ASSUME BoundAssumption, Inv, AskRetry
  PROVE  Inv'
<1>1. /\ closed /\ epoch \in Epochs /\ asked' = Latest /\ Fault
      /\ UNCHANGED <<closed, epoch, status, owner, leased, step>>
      /\ UNCHANGED <<nodeVars, nextId, coordVars, history>>
  BY DEF AskRetry, Fault, Inv, Types, TypesDb, Epochs
<1>2. \/ asked' = EntryOp(epoch)
      \/ asked' = RestoreOp(epoch) /\ status[RestoreOp(epoch)] # "none"
  BY <1>1 DEF Latest, EntryOp, RestoreOp
<1>3. status[RestoreOp(epoch)] # "none" => Restorable(epoch)
  BY <1>1 DEF Inv, RestoreFollows
<1>4. epoch <= epoch  BY <1>1 DEF Epochs
<1>5. RecordsMove
  <2>1. \A o \in Operations :
           /\ status'[o] = status[o]
              \/ (status[o] = "running" /\ status'[o] \in {"failed", "succeeded", "abandoned"})
           /\ owner'[o] = owner[o] \/ owner'[o] = NoOne \/ status[o] # "none"
           /\ status'[o] = status[o]
              \/ \A e \in Epochs : o = EntryOp(e) /\ status'[o] = "succeeded"
                   => \A n \in Nodes : step[o][n].status = "done"
    BY <1>1
  <2>2. epoch \in Epochs /\ (asked' = EntryOp(epoch) \/ (asked' = RestoreOp(epoch) /\ Restorable(epoch)))
    BY <1>1, <1>2, <1>3, <1>4
  <2>3. step' = step  BY <1>1
  <2> QED  BY <2>1, <2>2, <2>3, RecordsStay
<1>6. TypesDb'  BY <1>1, <1>2, OperationsOf DEF Inv, Types, TypesDb
<1>7. faults' \in 0 .. MaxFaults  BY <1>1, FaultCounts
<1>8. \A d \in Coordinators : Owns(d)' => Owns(d) /\ step'[pass[d]] = step[pass[d]]
  BY <1>1 DEF Owns, Fenced, coordVars
<1> QED  BY <1>1, <1>5, <1>6, <1>7, <1>8, AdminSteps

\* A failed step that is asked for again.
Rerun(r) == IF r.status = "failed" THEN [r EXCEPT !.status = "running", !.attempts = 0] ELSE r

LEMMA RerunRow ==
  ASSUME BoundAssumption, NEW r \in Row, r.status = "running" => r.attempts < MaxAttempts
  PROVE  /\ Rerun(r) \in Row /\ Rerun(r).phase = r.phase /\ Rerun(r).snapshot = r.snapshot
         /\ Rerun(r).resetId = r.resetId /\ Rerun(r).probed = r.probed
         /\ Rerun(r).status = "done" <=> r.status = "done"
         /\ Rerun(r).status = "running" => Rerun(r).attempts < MaxAttempts
<1>1. MaxAttempts \in Nat \ {0}  BY DEF BoundAssumption
<1>2. CASE r.status = "failed"
  <2>1. Rerun(r) = [r EXCEPT !.status = "running", !.attempts = 0]  BY <1>2 DEF Rerun
  <2>2. 0 \in 0 .. MaxAttempts /\ 0 < MaxAttempts  BY <1>1
  <2> QED  BY <1>2, <2>1, <2>2 DEF Row
<1>3. CASE r.status # "failed"  BY <1>3 DEF Rerun
<1> QED  BY <1>2, <1>3

LEMMA RetryKeeps ==
  ASSUME BoundAssumption, Inv, Retry
  PROVE  Inv'
<1>1. PICK o \in Operations : o = asked  BY DEF Retry, Inv, Types, TypesDb
<1>2. /\ status[o] = "failed" /\ status' = [status EXCEPT ![o] = "running"]
      /\ owner' = [owner EXCEPT ![o] = NoOne] /\ leased' = [leased EXCEPT ![o] = FALSE]
      /\ step' = [step EXCEPT ![o] = [n \in Nodes |-> Rerun(step[o][n])]]
      /\ asked' = NoOp /\ UNCHANGED <<closed, epoch>>
      /\ UNCHANGED <<nodeVars, nextId, coordVars, faults, history>>
  BY <1>1 DEF Retry, retry, Rerun, AdminOnly
<1>3. /\ status \in [Operations -> Statuses] /\ owner \in [Operations -> Coordinators \cup {NoOne}]
      /\ leased \in [Operations -> BOOLEAN] /\ step \in [Operations -> [Nodes -> Row]]
      /\ \A p \in Operations, n \in Nodes :
           /\ step[p][n].resetId <= nextId
           /\ step[p][n].status = "running" => step[p][n].attempts < MaxAttempts
  BY DEF Inv, Types, TypesDb
<1>4. ASSUME NEW p \in Operations, NEW n \in Nodes
      PROVE  /\ step'[p][n] \in Row
             /\ step'[p][n].snapshot = step[p][n].snapshot /\ step'[p][n].phase = step[p][n].phase
             /\ step'[p][n].resetId = step[p][n].resetId /\ step'[p][n].probed = step[p][n].probed
             /\ step'[p][n].status = "done" <=> step[p][n].status = "done"
             /\ step'[p][n].status = "running" => step'[p][n].attempts < MaxAttempts
  <2>1. CASE p = o
    <3>1. step'[p][n] = Rerun(step[p][n])  BY <1>2, <1>3, <2>1
    <3> QED  BY <3>1, <1>3, RerunRow
  <2>2. CASE p # o
    <3>1. step'[p][n] = step[p][n]  BY <1>2, <1>3, <2>2
    <3> QED  BY <3>1, <1>3
  <2> QED  BY <2>1, <2>2
<1>5. step' \in [Operations -> [Nodes -> Row]] /\ \A p \in Operations : p # o => step'[p] = step[p]
  <2>1. step' \in [Operations -> [Nodes -> Row]]
    <3>1. [n \in Nodes |-> Rerun(step[o][n])] \in [Nodes -> Row]  BY <1>3, RerunRow
    <3> QED  BY <3>1, <1>2, <1>3
  <2> QED  BY <2>1, <1>2, <1>3
<1>6. /\ status' \in [Operations -> Statuses] /\ owner' \in [Operations -> Coordinators \cup {NoOne}]
      /\ leased' \in [Operations -> BOOLEAN]
      /\ \A p \in Operations : p # o => status'[p] = status[p] /\ owner'[p] = owner[p]
      /\ status'[o] = "running" /\ owner'[o] = NoOne
  BY <1>2, <1>3 DEF Statuses
<1>7. TypesDb'
  <2>1. nextId' = nextId /\ \A p \in Operations, n \in Nodes : step'[p][n].resetId <= nextId'
    BY <1>2, <1>3, <1>4
  <2> QED  BY <2>1, <1>2, <1>4, <1>5, <1>6 DEF Inv, Types, TypesDb
<1>8. RecordsMove
  <2>1. \A p \in Operations :
          /\ status'[p] = "none" <=> status[p] = "none"
          /\ status[p] = "none" => owner'[p] = NoOne /\ step'[p] = step[p]
    BY <1>2, <1>5, <1>6 DEF Inv, Unrecorded
  <2>2. ASSUME NEW e \in Epochs
        PROVE  /\ status[EntryOp(e)] = "succeeded" => status'[EntryOp(e)] = "succeeded"
               /\ asked' = RestoreOp(e) => Restorable(e) /\ e <= epoch
               /\ \A n \in Nodes : status'[EntryOp(e)] = "succeeded" => step[EntryOp(e)][n].status = "done"
    <3>1. EntryOp(e) \in Operations /\ RestoreOp(e) \in Operations  BY OperationsOf
    <3>2. RestoreOp(e) # NoOp  BY <3>1, OperationForm
    <3>3. status'[EntryOp(e)] = "succeeded" => status[EntryOp(e)] = "succeeded"
      BY <3>1, <1>6
    <3>4. status[EntryOp(e)] = "succeeded" => status'[EntryOp(e)] = "succeeded"
      BY <3>1, <1>2, <1>6
    <3> QED  BY <3>2, <3>3, <3>4, <1>2 DEF Inv, RestoreFollows
  <2>3. \A e \in Epochs, n \in Nodes :
          /\ step'[EntryOp(e)][n].phase = step[EntryOp(e)][n].phase
          /\ step'[EntryOp(e)][n].status = "done" <=> step[EntryOp(e)][n].status = "done"
    BY <1>4, OperationsOf
  <2> QED  BY <2>1, <2>2, <2>3, <1>4 DEF RecordsMove
<1>9. \A d \in Coordinators : Owns(d)' => Owns(d) /\ step'[pass[d]] = step[pass[d]]
  <2> SUFFICES ASSUME NEW d \in Coordinators, Owns(d)'
               PROVE  Owns(d) /\ step'[pass[d]] = step[pass[d]]
    OBVIOUS
  <2>1. pass' = pass  BY <1>2 DEF coordVars
  <2>2. pass[d] \in Operations /\ owner'[pass[d]] = d /\ status'[pass[d]] = "running"
    BY <2>1 DEF Owns, Fenced
  <2>3. pass[d] # o  BY <2>2, <1>6 DEF BoundAssumption
  <2> QED  BY <2>2, <2>3, <1>5, <1>6 DEF Owns, Fenced
<1>10. faults' \in 0 .. MaxFaults  BY <1>2 DEF Inv, Types, TypesNodes
<1> QED  BY <1>2, <1>7, <1>8, <1>9, <1>10, AdminSteps

LEMMA ReopenKeeps ==
  ASSUME BoundAssumption, Inv, Reopen
  PROVE  Inv'
<1>1. /\ closed' = FALSE /\ UNCHANGED epoch /\ UNCHANGED <<step, asked>>
      /\ UNCHANGED <<nodeVars, nextId, coordVars, faults, history>>
      /\ status' = [o \in Operations |-> IF status[o] = "running" THEN "abandoned" ELSE status[o]]
      /\ owner' = [o \in Operations |-> IF status[o] = "running" THEN NoOne ELSE owner[o]]
      /\ leased' = [o \in Operations |-> status[o] # "running" /\ leased[o]]
  BY DEF Reopen, reopen, abandon_running, AdminOnly
<1>2. /\ status \in [Operations -> Statuses] /\ owner \in [Operations -> Coordinators \cup {NoOne}]
      /\ leased \in [Operations -> BOOLEAN]
  BY DEF Inv, Types, TypesDb
<1>3. /\ status' \in [Operations -> Statuses] /\ owner' \in [Operations -> Coordinators \cup {NoOne}]
      /\ leased' \in [Operations -> BOOLEAN]
      /\ \A o \in Operations : status'[o] # "running"
  BY <1>1, <1>2 DEF Statuses
<1>4. TypesDb'
  BY <1>1, <1>3 DEF Inv, Types, TypesDb
<1>5. RecordsMove
  <2>1. \A o \in Operations :
           /\ status'[o] = status[o]
              \/ (status[o] = "running" /\ status'[o] \in {"failed", "succeeded", "abandoned"})
           /\ owner'[o] = owner[o] \/ owner'[o] = NoOne \/ status[o] # "none"
           /\ status'[o] = status[o]
              \/ \A e \in Epochs : o = EntryOp(e) /\ status'[o] = "succeeded"
                   => \A n \in Nodes : step[o][n].status = "done"
    BY <1>1
  <2>2. step' = step /\ asked' = asked  BY <1>1
  <2> QED  BY <2>1, <2>2, RecordsStay
<1>6. \A d \in Coordinators : ~Owns(d)'
  BY <1>3 DEF Owns, Fenced
<1>7. faults' \in 0 .. MaxFaults  BY <1>1 DEF Inv, Types, TypesNodes
<1> QED  BY <1>1, <1>4, <1>5, <1>6, <1>7, AdminSteps

\* _keep_lease, and a lease that runs out.
LEMMA LeasedKeeps ==
  ASSUME BoundAssumption, Inv, NEW o \in Operations, NEW value \in BOOLEAN,
         leased' = [leased EXCEPT ![o] = value], Fault \/ NoFault,
         UNCHANGED <<closed, epoch, status, owner, step, asked, nodeVars, nextId, coordVars, history>>
  PROVE  Inv'
<1>1. leased' \in [Operations -> BOOLEAN]  BY DEF Inv, Types, TypesDb
<1>2. TypesDb'  BY <1>1 DEF Inv, Types, TypesDb
<1>3. RecordsMove
  <2>1. \A p \in Operations :
           /\ status'[p] = status[p]
              \/ (status[p] = "running" /\ status'[p] \in {"failed", "succeeded", "abandoned"})
           /\ owner'[p] = owner[p] \/ owner'[p] = NoOne \/ status[p] # "none"
           /\ status'[p] = status[p]
              \/ \A e \in Epochs : p = EntryOp(e) /\ status'[p] = "succeeded"
                   => \A n \in Nodes : step[p][n].status = "done"
    OBVIOUS
  <2>2. step' = step /\ asked' = asked  OBVIOUS
  <2> QED  BY <2>1, <2>2, RecordsStay
<1>4. \A d \in Coordinators : Owns(d)' => Owns(d) /\ step'[pass[d]] = step[pass[d]]
  BY DEF Owns, Fenced, coordVars
<1>5. faults' \in 0 .. MaxFaults  BY FaultCounts
<1>6. UNCHANGED <<nodeVars, nextId, coordVars, history, epoch>> /\ closed' = closed  OBVIOUS
<1> QED  BY <1>2, <1>3, <1>4, <1>5, <1>6, AdminSteps

\* A pass that is over: the coordinator is free, the others where they were.
LEMMA PassOverMeans ==
  ASSUME BoundAssumption, Inv, NEW c \in Coordinators, PassOver(c), got' = got,
         \A d \in Coordinators : d # c => StillOwns(d)
  PROVE  /\ TypesCoord' /\ \A d \in Coordinators : Kept(d) \/ Through(d)
         /\ pass'[c] = NoOp /\ \A d \in Coordinators : d # c => pass'[d] = pass[d]
<1>1. NoOp \notin Operations /\ NewStep(NoSnapshot) \in Row /\ "idle" \in Places
  BY OperationForm, NewStepIsRow DEF Places
<1>2. /\ pass \in [Coordinators -> Operations \cup {NoOp, Dead}]
      /\ mem \in [Coordinators -> [Nodes -> Row]] /\ at \in [Coordinators -> [Nodes -> Places]]
      /\ unchecked \in [Coordinators -> SUBSET Nodes]
      /\ got \in [Coordinators -> [Nodes -> [says : Words, seen : SUBSET Models]]]
  BY DEF Inv, Types, TypesCoord
<1>3. /\ pass' = [pass EXCEPT ![c] = NoOp]
      /\ at' = [at EXCEPT ![c] = [n \in Nodes |-> "idle"]]
      /\ mem' = [mem EXCEPT ![c] = [n \in Nodes |-> NewStep(NoSnapshot)]]
      /\ unchecked' = [unchecked EXCEPT ![c] = {}]
  BY DEF PassOver
<1>4. pass' \in [Coordinators -> Operations \cup {NoOp, Dead}]  BY <1>2, <1>3
<1>5. mem' \in [Coordinators -> [Nodes -> Row]]  BY <1>1, <1>2, <1>3
<1>6. at' \in [Coordinators -> [Nodes -> Places]]  BY <1>1, <1>2, <1>3
<1>7. unchecked' \in [Coordinators -> SUBSET Nodes]  BY <1>2, <1>3
<1>8. TypesCoord'  BY <1>2, <1>4, <1>5, <1>6, <1>7 DEF TypesCoord
<1>9. ASSUME NEW d \in Coordinators, d # c  PROVE Kept(d) /\ pass'[d] = pass[d]
  BY <1>2, <1>3, <1>9 DEF Kept
<1>10. Through(c) /\ pass'[c] = NoOp  BY <1>1, <1>2, <1>3 DEF Through
<1> QED  BY <1>8, <1>9, <1>10

\* finish.
LEMMA FinishMeans ==
  ASSUME BoundAssumption, Inv, NEW c \in Coordinators, NEW o \in Operations,
         NEW to \in {"failed", "succeeded", "abandoned"}, finish(c, o, to),
         step' = step, asked' = asked,
         \A e \in Epochs : o = EntryOp(e) /\ to = "succeeded" =>
           \A n \in Nodes : step[o][n].status = "done"
  PROVE  /\ RecordsMove
         /\ status' \in [Operations -> Statuses] /\ owner' \in [Operations -> Coordinators \cup {NoOne}]
         /\ leased' \in [Operations -> BOOLEAN]
         /\ \A p \in Operations : status'[p] = "running" => status[p] = "running"
         /\ \A p \in Operations, d \in Coordinators : owner'[p] = d => owner[p] = d
         /\ owner[o] = c => status'[o] # "running"
<1>1. /\ status \in [Operations -> Statuses] /\ owner \in [Operations -> Coordinators \cup {NoOne}]
      /\ leased \in [Operations -> BOOLEAN]
  BY DEF Inv, Types, TypesDb
<1>2. CASE Fenced(c, o)
  <2>1. /\ status' = [status EXCEPT ![o] = to]
        /\ owner' = [owner EXCEPT ![o] = NoOne] /\ leased' = [leased EXCEPT ![o] = FALSE]
        /\ status[o] = "running"
    BY <1>2 DEF finish, Fenced
  <2>2. to \in Statuses /\ to # "running"  BY DEF Statuses
  <2>3. status' \in [Operations -> Statuses] /\ leased' \in [Operations -> BOOLEAN]
        /\ owner' \in [Operations -> Coordinators \cup {NoOne}]
    BY <1>1, <2>1, <2>2
  <2>4. \A p \in Operations, d \in Coordinators : owner'[p] = d => owner[p] = d
    BY <1>1, <2>1 DEF BoundAssumption
  <2>5. \A p \in Operations :
          /\ status'[p] = (IF p = o THEN to ELSE status[p])
          /\ owner'[p] = (IF p = o THEN NoOne ELSE owner[p])
    BY <1>1, <2>1
  <2>6. \A p \in Operations :
           /\ status'[p] = status[p]
              \/ (status[p] = "running" /\ status'[p] \in {"failed", "succeeded", "abandoned"})
           /\ owner'[p] = owner[p] \/ owner'[p] = NoOne \/ status[p] # "none"
           /\ status'[p] = status[p]
              \/ \A e \in Epochs : p = EntryOp(e) /\ status'[p] = "succeeded"
                   => \A n \in Nodes : step[p][n].status = "done"
    BY <2>1, <2>5
  <2>7. RecordsMove  BY <2>6, RecordsStay
  <2> QED  BY <2>2, <2>3, <2>4, <2>5, <2>7
<1>3. CASE ~Fenced(c, o)
  <2>1. UNCHANGED <<status, owner, leased>>  BY <1>3 DEF finish
  <2>2. \A p \in Operations :
           /\ status'[p] = status[p]
              \/ (status[p] = "running" /\ status'[p] \in {"failed", "succeeded", "abandoned"})
           /\ owner'[p] = owner[p] \/ owner'[p] = NoOne \/ status[p] # "none"
           /\ status'[p] = status[p]
              \/ \A e \in Epochs : p = EntryOp(e) /\ status'[p] = "succeeded"
                   => \A n \in Nodes : step[p][n].status = "done"
    BY <2>1
  <2>3. RecordsMove  BY <2>2, RecordsStay
  <2>4. owner[o] = c => status'[o] # "running"  BY <1>3, <2>1 DEF Fenced
  <2> QED  BY <1>1, <2>1, <2>3, <2>4
<1> QED  BY <1>2, <1>3

\* An operation that is left as it is.
LEMMA RecordsSame ==
  ASSUME BoundAssumption, Inv, UNCHANGED <<status, step, asked>>,
         \A o \in Operations : status[o] = "none" => owner'[o] = owner[o]
  PROVE  RecordsMove
<1>1. \A p \in Operations :
           /\ status'[p] = status[p]
              \/ (status[p] = "running" /\ status'[p] \in {"failed", "succeeded", "abandoned"})
           /\ owner'[p] = owner[p] \/ owner'[p] = NoOne \/ status[p] # "none"
           /\ status'[p] = status[p]
              \/ \A e \in Epochs : p = EntryOp(e) /\ status'[p] = "succeeded"
                   => \A n \in Nodes : step[p][n].status = "done"
  OBVIOUS
<1> QED  BY <1>1, RecordsStay

LEMMA DiesKeeps ==
  ASSUME BoundAssumption, Inv, NEW c \in Coordinators, Dies(c)
  PROVE  Inv'
<1>1. /\ Fault /\ UNCHANGED <<db, nodeVars, nextId, history>>
      /\ pass' = [pass EXCEPT ![c] = Dead]
      /\ at' = [at EXCEPT ![c] = [n \in Nodes |-> "idle"]]
      /\ mem' = [mem EXCEPT ![c] = [n \in Nodes |-> NewStep(NoSnapshot)]]
      /\ got' = [got EXCEPT ![c] = [n \in Nodes |-> NoAnswer]]
      /\ unchecked' = [unchecked EXCEPT ![c] = {}]
  BY DEF Dies
<1>2. /\ UNCHANGED <<closed, epoch, status, owner, leased, step, asked>>
      /\ UNCHANGED <<resident, quiet, applied, refused, late, held, lapsed, nextId>>
  BY <1>1 DEF db, nodeVars, history
<1>3. /\ Dead \notin Operations /\ NewStep(NoSnapshot) \in Row /\ "idle" \in Places
      /\ NoAnswer \in [says : Words, seen : SUBSET Models]
  BY OperationForm, NewStepIsRow, AnswerWords DEF Places
<1>4. /\ pass \in [Coordinators -> Operations \cup {NoOp, Dead}]
      /\ mem \in [Coordinators -> [Nodes -> Row]] /\ at \in [Coordinators -> [Nodes -> Places]]
      /\ unchecked \in [Coordinators -> SUBSET Nodes]
      /\ got \in [Coordinators -> [Nodes -> [says : Words, seen : SUBSET Models]]]
  BY DEF Inv, Types, TypesCoord
<1>5. pass' \in [Coordinators -> Operations \cup {NoOp, Dead}]  BY <1>1, <1>4
<1>6. mem' \in [Coordinators -> [Nodes -> Row]]  BY <1>1, <1>3, <1>4
<1>7. at' \in [Coordinators -> [Nodes -> Places]]  BY <1>1, <1>3, <1>4
<1>8. unchecked' \in [Coordinators -> SUBSET Nodes]  BY <1>1, <1>4
<1>9. got' \in [Coordinators -> [Nodes -> [says : Words, seen : SUBSET Models]]]
  <2> HIDE DEF NoAnswer
  <2> QED  BY <1>1, <1>3, <1>4
<1>10. TypesCoord'  BY <1>5, <1>6, <1>7, <1>8, <1>9 DEF TypesCoord
<1>11. TypesDb'  BY <1>2 DEF Inv, Types, TypesDb
<1>12. faults' \in 0 .. MaxFaults  BY <1>1, FaultCounts
<1>13. lapsed' \subseteq Nodes  BY <1>2 DEF Inv, Types, TypesNodes
<1>14. Types'
  <2>1. TypesNodes'  BY <1>1, <1>2, <1>12, <1>13, RestOfTypes
  <2> QED  BY <2>1, <1>10, <1>11 DEF Types
<1>15. RecordsMove  BY <1>2, RecordsSame
<1>16. ASSUME NEW d \in Coordinators  PROVE Kept(d) \/ Through(d)
  <2>1. CASE d = c  BY <1>1, <1>3, <1>4, <2>1 DEF Through
  <2>2. CASE d # c  BY <1>1, <1>2, <1>4, <2>2 DEF Kept, StillOwns, Owns, Fenced
  <2> QED  BY <2>1, <2>2
<1> QED  BY <1>2, <1>14, <1>15, <1>16, SettledKeeps

\* run_once and claim: whoever owned the operation before does no more.
LEMMA ClaimKeeps ==
  ASSUME BoundAssumption, Inv, NEW c \in Coordinators, Claim(c)
  PROVE  Inv'
<1>1. PICK o \in Operations :
        /\ status[o] = "running" /\ pass' = [pass EXCEPT ![c] = o]
        /\ owner' = [owner EXCEPT ![o] = c] /\ leased' = [leased EXCEPT ![o] = TRUE]
        /\ mem' = [mem EXCEPT ![c] = step[o]]
        /\ at' = [at EXCEPT ![c] = [n \in Nodes |-> "claimed"]]
  BY DEF Claim, Claimable
<1>2. /\ pass[c] = NoOp /\ UNCHANGED <<closed, epoch, status, step, asked, nextId, got, unchecked>>
      /\ UNCHANGED <<nodeVars, resident, quiet, applied, refused, late, held, lapsed, faults>>
  BY DEF Claim, NoFault, nodeVars, history
<1>3. /\ pass \in [Coordinators -> Operations \cup {NoOp, Dead}]
      /\ mem \in [Coordinators -> [Nodes -> Row]] /\ at \in [Coordinators -> [Nodes -> Places]]
      /\ owner \in [Operations -> Coordinators \cup {NoOne}] /\ leased \in [Operations -> BOOLEAN]
      /\ step \in [Operations -> [Nodes -> Row]]
  BY DEF Inv, Types, TypesDb, TypesCoord
<1>4. TypesDb'
  <2>1. owner' \in [Operations -> Coordinators \cup {NoOne}] /\ leased' \in [Operations -> BOOLEAN]
    BY <1>1, <1>3
  <2> QED  BY <2>1, <1>2 DEF Inv, Types, TypesDb
<1>5. TypesCoord'
  <2>1. pass' \in [Coordinators -> Operations \cup {NoOp, Dead}]  BY <1>1, <1>3
  <2>2. mem' \in [Coordinators -> [Nodes -> Row]]  BY <1>1, <1>3
  <2>3. "claimed" \in Places  BY DEF Places
  <2>4. at' \in [Coordinators -> [Nodes -> Places]]  BY <1>1, <1>3, <2>3
  <2> QED  BY <2>1, <2>2, <2>4, <1>2 DEF Inv, Types, TypesCoord
<1>6. Types'
  <2>1. faults' \in 0 .. MaxFaults /\ lapsed' \subseteq Nodes  BY <1>2 DEF Inv, Types, TypesNodes
  <2>2. TypesNodes'  BY <2>1, <1>2, RestOfTypes
  <2> QED  BY <2>2, <1>4, <1>5 DEF Types
<1>7. RecordsMove
  <2>1. \A p \in Operations : status[p] = "none" => owner'[p] = owner[p]
    BY <1>1, <1>3
  <2> QED  BY <2>1, <1>2, RecordsSame
<1>8. Goes(c)
  <2>1. pass'[c] = o /\ mem'[c] = step[o] /\ \A m \in Nodes : at'[c][m] = "claimed"
    BY <1>1, <1>3
  <2>2. unchecked'[c] = {}
    <3>1. pass[c] \notin Operations  BY <1>2, OperationForm
    <3> QED  BY <3>1, <1>2 DEF Inv, Looks
  <2> QED  BY <2>1, <2>2, <1>1, <1>2 DEF Goes
<1>9. ASSUME NEW d \in Coordinators, d # c  PROVE Kept(d)
  <2>1. pass'[d] = pass[d] /\ mem'[d] = mem[d] /\ at'[d] = at[d]
    BY <1>1, <1>3, <1>9
  <2>2. Owns(d)' => Owns(d)
    BY <1>1, <1>2, <1>3, <1>9, <2>1 DEF Owns, Fenced
  <2> QED  BY <2>1, <2>2, <1>2 DEF Kept, StillOwns
<1> QED  BY <1>2, <1>6, <1>7, <1>8, <1>9, SettledKeeps

\* A pass that ends, with its operation or without.
LEMMA OverKeeps ==
  ASSUME BoundAssumption, Inv, NEW c \in Coordinators, NEW o \in Operations, o = pass[c],
         PassOver(c), NoFault,
         UNCHANGED <<closed, epoch, step, asked, nodeVars, nextId, got, history>>,
         \/ UNCHANGED <<status, owner, leased>>
         \/ \E to \in {"failed", "succeeded", "abandoned"} :
              /\ finish(c, o, to)
              /\ \A e \in Epochs : o = EntryOp(e) /\ to = "succeeded" =>
                   \A n \in Nodes : step[o][n].status = "done"
  PROVE  Inv'
<1>1. UNCHANGED <<resident, quiet, applied, refused, late, held, lapsed, faults>>
  BY DEF nodeVars, history, NoFault
<1>2. /\ RecordsMove
      /\ status' \in [Operations -> Statuses] /\ owner' \in [Operations -> Coordinators \cup {NoOne}]
      /\ leased' \in [Operations -> BOOLEAN]
      /\ \A p \in Operations : status'[p] = "running" => status[p] = "running"
      /\ \A p \in Operations, d \in Coordinators : owner'[p] = d => owner[p] = d
  <2>1. CASE UNCHANGED <<status, owner, leased>>
    <3>1. RecordsMove  BY <2>1, RecordsSame
    <3> QED  BY <2>1, <3>1 DEF Inv, Types, TypesDb
  <2>2. ASSUME NEW to \in {"failed", "succeeded", "abandoned"}, finish(c, o, to),
               \A e \in Epochs : o = EntryOp(e) /\ to = "succeeded" =>
                 \A n \in Nodes : step[o][n].status = "done"
        PROVE  /\ RecordsMove
               /\ status' \in [Operations -> Statuses] /\ owner' \in [Operations -> Coordinators \cup {NoOne}]
               /\ leased' \in [Operations -> BOOLEAN]
               /\ \A p \in Operations : status'[p] = "running" => status[p] = "running"
               /\ \A p \in Operations, d \in Coordinators : owner'[p] = d => owner[p] = d
    BY <2>2, FinishMeans
  <2> QED  BY <2>1, <2>2
<1>3. TypesDb'  BY <1>2 DEF Inv, Types, TypesDb
<1>4. \A d \in Coordinators : d # c => StillOwns(d)
  <2>1. \A d \in Coordinators : d # c => pass'[d] = pass[d]
    BY DEF PassOver, Inv, Types, TypesCoord
  <2> QED  BY <2>1, <1>2 DEF StillOwns, Owns, Fenced
<1>5. TypesCoord' /\ \A d \in Coordinators : Kept(d) \/ Through(d)
  BY <1>4, PassOverMeans
<1>6. Types'
  <2>1. faults' \in 0 .. MaxFaults /\ lapsed' \subseteq Nodes  BY <1>1 DEF Inv, Types, TypesNodes
  <2>2. TypesNodes'  BY <2>1, <1>1, RestOfTypes
  <2> QED  BY <2>2, <1>3, <1>5 DEF Types
<1> QED  BY <1>1, <1>2, <1>5, <1>6, SettledKeeps

LEMMA BeginKeeps ==
  ASSUME BoundAssumption, Inv, NEW c \in Coordinators, Begin(c)
  PROVE  Inv'
<1>1. PICK o \in Operations : o = pass[c]  BY DEF Begin
<1>2. NoFault /\ UNCHANGED <<closed, epoch, step, asked, nodeVars, nextId, got, history>>
  BY DEF Begin
<1>3. CASE Held(o[2])
  <2>1. /\ at' = [at EXCEPT ![c] = [n \in Nodes |->
                    IF mem[c][n].status = "running" THEN "start" ELSE "ended"]]
        /\ UNCHANGED <<pass, mem, unchecked, status, owner, leased>>
    BY <1>1, <1>3 DEF Begin
  <2>2. UNCHANGED <<resident, quiet, applied, refused, late, held, lapsed, faults>>
    BY <1>2 DEF nodeVars, history, NoFault
  <2>3. at \in [Coordinators -> [Nodes -> Places]]  BY DEF Inv, Types, TypesCoord
  <2>4. "start" \in Places /\ "ended" \in Places  BY DEF Places
  <2>5. at' \in [Coordinators -> [Nodes -> Places]]  BY <2>1, <2>3, <2>4
  <2>6. Types'
    <3>1. faults' \in 0 .. MaxFaults /\ lapsed' \subseteq Nodes  BY <2>2 DEF Inv, Types, TypesNodes
    <3>2. TypesNodes'  BY <3>1, <1>2, <2>2, RestOfTypes
    <3>3. TypesDb'  BY <1>2, <2>1 DEF Inv, Types, TypesDb
    <3>4. TypesCoord'  BY <1>2, <2>1, <2>5 DEF Inv, Types, TypesCoord
    <3> QED  BY <3>2, <3>3, <3>4 DEF Types
  <2>7. RecordsMove  BY <1>2, <2>1, RecordsSame
  <2>8. \A d \in Coordinators : StillOwns(d)
    BY <1>2, <2>1 DEF StillOwns, Owns, Fenced
  <2>9. Goes(c)
    <3>1. status[o] # "none"  BY <1>1 DEF Inv, Unrecorded
    <3>2. \A m \in Nodes : at'[c][m] \in {"start", "ended"}  BY <2>1, <2>3
    <3>3. unchecked'[c] # {} => pass'[c][1] = "restore"  BY <2>1 DEF Inv, Looks
    <3> QED  BY <1>1, <1>3, <2>1, <2>8, <3>1, <3>2, <3>3 DEF Goes
  <2>10. \A d \in Coordinators : d # c => Kept(d)
    BY <1>2, <2>1, <2>3, <2>8 DEF Kept
  <2> QED  BY <1>2, <2>2, <2>6, <2>7, <2>9, <2>10, SettledKeeps
<1>4. CASE ~Held(o[2])
  <2>1. finish(c, o, "abandoned") /\ PassOver(c)  BY <1>1, <1>4 DEF Begin
  <2>2. \E to \in {"failed", "succeeded", "abandoned"} :
          /\ finish(c, o, to)
          /\ \A e \in Epochs : o = EntryOp(e) /\ to = "succeeded" =>
               \A n \in Nodes : step[o][n].status = "done"
    BY <2>1
  <2> QED  BY <1>1, <1>2, <2>1, <2>2, OverKeeps
<1> QED  BY <1>3, <1>4

\* _close: the operation ends as its rows say, or its closing look begins.
LEMMA CloseKeeps ==
  ASSUME BoundAssumption, Inv, NEW c \in Coordinators, Close(c)
  PROVE  Inv'
<1>1. PICK o \in Operations : o = pass[c]  BY DEF Close, Ended
<1>2. /\ \A n \in Nodes : at[c][n] = "ended"
      /\ NoFault /\ UNCHANGED <<closed, epoch, step, asked, nodeVars, nextId, got, history>>
  BY DEF Close, Ended
<1>3. \/ PassOver(c) /\ UNCHANGED <<status, owner, leased>>
      \/ /\ \A n \in Nodes : step[o][n].status # "running"
         /\ finish(c, o, Outcome(o)) /\ PassOver(c)
      \/ /\ o[1] # "enter" /\ Closing(c) /\ mem' = [mem EXCEPT ![c] = step[o]]
         /\ UNCHANGED <<pass, status, owner, leased>>
  BY <1>1 DEF Close
<1>4. CASE PassOver(c) /\ UNCHANGED <<status, owner, leased>>
  BY <1>1, <1>2, <1>4, OverKeeps
<1>5. CASE /\ \A n \in Nodes : step[o][n].status # "running"
           /\ finish(c, o, Outcome(o)) /\ PassOver(c)
  <2>1. step[o] \in [Nodes -> Row]  BY DEF Inv, Types, TypesDb
  <2>2. PICK to \in {"failed", "succeeded"} : to = Outcome(o)  BY DEF Outcome
  <2>3. to = "succeeded" => \A n \in Nodes : step[o][n].status = "done"
    <3> SUFFICES ASSUME to = "succeeded", NEW n \in Nodes  PROVE step[o][n].status = "done"
      OBVIOUS
    <3>1. n \notin Failures(o)  BY <2>2 DEF Outcome
    <3>2. step[o][n].status \in {"running", "failed", "done"}  BY <2>1 DEF Row
    <3> QED  BY <1>5, <3>1, <3>2 DEF Failures
  <2>4. finish(c, o, to)  BY <1>5, <2>2
  <2>5. \E final \in {"failed", "succeeded", "abandoned"} :
          /\ finish(c, o, final)
          /\ \A e \in Epochs : o = EntryOp(e) /\ final = "succeeded" =>
               \A n \in Nodes : step[o][n].status = "done"
    BY <2>3, <2>4
  <2> QED  BY <1>1, <1>2, <1>5, <2>5, OverKeeps
<1>6. CASE /\ o[1] # "enter" /\ Closing(c) /\ mem' = [mem EXCEPT ![c] = step[o]]
           /\ UNCHANGED <<pass, status, owner, leased>>
  <2>1. /\ mem \in [Coordinators -> [Nodes -> Row]] /\ at \in [Coordinators -> [Nodes -> Places]]
        /\ unchecked \in [Coordinators -> SUBSET Nodes] /\ step[o] \in [Nodes -> Row]
    BY DEF Inv, Types, TypesDb, TypesCoord
  <2>2. /\ at' = [at EXCEPT ![c] = [n \in Nodes |-> "closing"]]
        /\ unchecked' = [unchecked EXCEPT ![c] = Nodes]
    BY <1>6 DEF Closing
  <2>3. /\ \A m \in Nodes : at'[c][m] = "closing"
        /\ mem'[c] = step[o] /\ unchecked'[c] = Nodes
        /\ \A d \in Coordinators : d # c =>
             at'[d] = at[d] /\ mem'[d] = mem[d] /\ unchecked'[d] = unchecked[d]
    BY <1>6, <2>1, <2>2
  <2>4. TypesCoord'
    <3>1. "closing" \in Places  BY DEF Places
    <3>2. at' \in [Coordinators -> [Nodes -> Places]]  BY <2>1, <2>2, <3>1
    <3>3. mem' \in [Coordinators -> [Nodes -> Row]]  BY <1>6, <2>1
    <3>4. unchecked' \in [Coordinators -> SUBSET Nodes]  BY <2>1, <2>2
    <3> QED  BY <1>2, <1>6, <3>2, <3>3, <3>4 DEF Inv, Types, TypesCoord
  <2>5. UNCHANGED <<resident, quiet, applied, refused, late, held, lapsed, faults>>
    BY <1>2 DEF nodeVars, history, NoFault
  <2>6. Types'
    <3>1. faults' \in 0 .. MaxFaults /\ lapsed' \subseteq Nodes  BY <2>5 DEF Inv, Types, TypesNodes
    <3>2. TypesNodes'  BY <3>1, <1>2, <2>5, RestOfTypes
    <3>3. TypesDb'  BY <1>2, <1>6 DEF Inv, Types, TypesDb
    <3> QED  BY <2>4, <3>2, <3>3 DEF Types
  <2>7. RecordsMove  BY <1>2, <1>6, RecordsSame
  <2>8. \A d \in Coordinators : StillOwns(d)
    BY <1>2, <1>6 DEF StillOwns, Owns, Fenced
  <2>9. o[1] = "restore"  BY <1>6, OperationForm DEF EntryOp, RestoreOp
  <2>10. Goes(c)
    <3>1. pass'[c] = o /\ status[o] # "none"  BY <1>1, <1>6 DEF Inv, Unrecorded
    <3>2. ASSUME NEW m \in Nodes, Owns(c)'  PROVE Held(pass'[c][2])
      <4>1. Owns(c)  BY <2>8, <3>2 DEF StillOwns
      <4>2. at[c][m] # "claimed"  BY <1>2
      <4>3. Held(pass[c][2])  BY <4>1, <4>2 DEF Inv, UnderHold
      <4> QED  BY <1>1, <3>1, <4>3
    <3> QED  BY <1>2, <2>3, <2>9, <3>1, <3>2 DEF Goes
  <2>11. \A d \in Coordinators : d # c => Kept(d)
    BY <1>2, <1>6, <2>3, <2>8 DEF Kept
  <2> QED  BY <1>2, <2>5, <2>6, <2>7, <2>10, <2>11, SettledKeeps
<1> QED  BY <1>3, <1>4, <1>5, <1>6

\* A done row that runs again.
Rewound(r) == [r EXCEPT !.status = "running", !.phase = "pending", !.attempts = 0]

LEMMA RewoundRow ==
  ASSUME BoundAssumption, NEW r \in Row
  PROVE  /\ Rewound(r) \in Row /\ Rewound(r).snapshot = r.snapshot
         /\ Rewound(r).resetId = r.resetId /\ Rewound(r).probed = r.probed
         /\ Rewound(r).attempts < MaxAttempts
<1>1. MaxAttempts \in Nat \ {0}  BY DEF BoundAssumption
<1>2. 0 \in 0 .. MaxAttempts /\ 0 < MaxAttempts  BY <1>1
<1> QED  BY <1>2 DEF Rewound, Row, Phases

\* _close_restore's loop: a node seen whole, or the restore's row rewound.
LEMMA CloseCheckKeeps ==
  ASSUME BoundAssumption, Inv, NEW c \in Coordinators, CloseCheck(c)
  PROVE  Inv'
<1>1. PICK o \in Operations : o = pass[c]  BY DEF CloseCheck
<1>2. /\ unchecked[c] # {}
      /\ UNCHANGED <<closed, epoch, status, owner, leased, asked, nodeVars, nextId, got, held>>
  BY DEF CloseCheck
<1>3. UNCHANGED <<resident, quiet, applied, refused, late>>  BY <1>2 DEF nodeVars
<1>4. /\ mem \in [Coordinators -> [Nodes -> Row]] /\ at \in [Coordinators -> [Nodes -> Places]]
      /\ unchecked \in [Coordinators -> SUBSET Nodes] /\ step \in [Operations -> [Nodes -> Row]]
      /\ lapsed \subseteq Nodes
  BY DEF Inv, Types, TypesDb, TypesNodes, TypesCoord
<1>5. PICK e \in Epochs : o = RestoreOp(e) /\ e = o[2] /\ o[1] = "restore"
  <2>1. o[1] = "restore"  BY <1>1, <1>2 DEF Inv, Looks
  <2> QED  BY <2>1, OperationForm DEF EntryOp, RestoreOp
<1>6. PICK n \in unchecked[c] :
       \/ /\ resident[n] = mem[c][n].snapshot /\ NoFault
          /\ unchecked' = [unchecked EXCEPT ![c] = @ \ {n}]
          /\ at' = [at EXCEPT ![c][n] = "checked"]
          /\ lapsed' = (IF Held(o[2]) THEN lapsed \ {n} ELSE lapsed)
          /\ UNCHANGED <<pass, mem, step>>
       \/ (Fault \/ NoFault) /\ rewind(c, n) /\ PassOver(c) /\ UNCHANGED lapsed
  <2>1. PICK n \in unchecked[c] :
       \/ /\ resident[n] = mem[c][n].snapshot /\ NoFault
          /\ unchecked' = [unchecked EXCEPT ![c] = @ \ {n}]
          /\ at' = [at EXCEPT ![c][n] = "checked"]
          /\ lapsed' = (IF Held(pass[c][2]) THEN lapsed \ {n} ELSE lapsed)
          /\ UNCHANGED <<pass, mem, step>>
       \/ /\ IF resident[n] = mem[c][n].snapshot THEN Fault ELSE NoFault
          /\ rewind(c, n) /\ PassOver(c) /\ UNCHANGED lapsed
    BY DEF CloseCheck
  <2>2. (IF resident[n] = mem[c][n].snapshot THEN Fault ELSE NoFault) => (Fault \/ NoFault)
    OBVIOUS
  <2> QED  BY <1>1, <2>1, <2>2
<1>7. n \in Nodes  BY <1>4
<1>8. faults' \in 0 .. MaxFaults  BY <1>6, FaultCounts
<1>9. CASE /\ resident[n] = mem[c][n].snapshot /\ NoFault
           /\ unchecked' = [unchecked EXCEPT ![c] = @ \ {n}]
           /\ at' = [at EXCEPT ![c][n] = "checked"]
           /\ lapsed' = (IF Held(o[2]) THEN lapsed \ {n} ELSE lapsed)
           /\ UNCHANGED <<pass, mem, step>>
  <2>1. /\ unchecked'[c] = unchecked[c] \ {n} /\ at'[c][n] = "checked"
        /\ \A m \in Nodes : m # n => at'[c][m] = at[c][m]
        /\ \A d \in Coordinators : d # c => at'[d] = at[d] /\ unchecked'[d] = unchecked[d]
    BY <1>4, <1>7, <1>9
  <2>2. TypesCoord'
    <3>1. "checked" \in Places  BY DEF Places
    <3>2. at' \in [Coordinators -> [Nodes -> Places]]  BY <1>4, <1>7, <1>9, <3>1
    <3>3. unchecked' \in [Coordinators -> SUBSET Nodes]  BY <1>4, <1>9
    <3> QED  BY <1>2, <1>9, <3>2, <3>3 DEF Inv, Types, TypesCoord
  <2>3. lapsed' \subseteq Nodes  BY <1>4, <1>9
  <2>4. Types'
    <3>1. TypesNodes'  BY <1>2, <1>8, <2>3, RestOfTypes
    <3>2. TypesDb'  BY <1>2, <1>9 DEF Inv, Types, TypesDb
    <3> QED  BY <2>2, <3>1, <3>2 DEF Types
  <2>5. RecordsMove  BY <1>2, <1>9, RecordsSame
  <2>6. \A d \in Coordinators : StillOwns(d)
    BY <1>2, <1>9 DEF StillOwns, Owns, Fenced
  <2>7. Goes(c)
    <3>1. /\ pass'[c] = o /\ pass[c] = o /\ status[o] # "none" /\ mem'[c] = mem[c] /\ got'[c] = got[c]
      BY <1>1, <1>2, <1>9 DEF Inv, Unrecorded
    <3>2. ASSUME NEW m \in Nodes, Owns(c)'  PROVE Held(pass'[c][2])
      <4>1. Owns(c)  BY <2>6, <3>2 DEF StillOwns
      <4>2. Held(pass[c][2])  BY <4>1, <1>2, <1>7 DEF Inv, UnderHold
      <4> QED  BY <4>2, <3>1
    <3>3. ASSUME NEW m \in Nodes, m # n
          PROVE  at'[c][m] = "checked" => at[c][m] = "checked"
      BY <2>1, <3>3
    <3>4. resident[n] = mem'[c][n].snapshot  BY <1>9
    <3>5. ASSUME NEW m \in Nodes
          PROVE  /\ at'[c][m] = at[c][m] \/ at'[c][m] = "checked"
                 /\ at'[c][m] = "checked" => at[c][m] = "checked" \/ resident[m] = mem'[c][m].snapshot
      BY <2>1, <3>3, <3>4
    <3> QED  BY <1>5, <2>6, <3>1, <3>2, <3>5 DEF Goes
  <2>8. \A d \in Coordinators : d # c => Kept(d)
    BY <1>2, <1>9, <2>1, <2>6 DEF Kept
  <2>9. ASSUME Held(epoch), NEW m \in lapsed \ lapsed'
        PROVE  resident[m] = step[RestoreOp(epoch)][m].snapshot
    <3>1. m = n /\ Held(o[2])  BY <2>9, <1>9
    <3>2. o[2] = epoch  BY <3>1 DEF Held
    <3>3. mem[c][n].snapshot = step[RestoreOp(e)][n].snapshot
      BY <1>1, <1>5, <1>7 DEF Inv, Copies, CopyOfRestore
    <3> QED  BY <3>1, <3>2, <3>3, <1>5, <1>9
  <2> QED  BY <1>2, <1>3, <2>4, <2>5, <2>7, <2>8, <2>9, SettledKeeps
<1>10. CASE (Fault \/ NoFault) /\ rewind(c, n) /\ PassOver(c) /\ UNCHANGED lapsed
  <2>1. \/ step' = step
        \/ /\ Fenced(c, o)
           /\ step' = [step EXCEPT ![o] = [step[o] EXCEPT ![n] = Rewound(step[o][n])]]
    <3>1. CASE Fenced(c, o) /\ step[o][n].status = "done"
      <4>1. step' = [step EXCEPT ![o][n].status = "running", ![o][n].phase = "pending",
                                 ![o][n].attempts = 0]
        BY <1>1, <1>10, <3>1 DEF rewind
      <4>2. step' = [step EXCEPT ![o] = [step[o] EXCEPT ![n] = Rewound(step[o][n])]]
        BY <4>1, <1>4, <1>7 DEF Rewound
      <4> QED  BY <3>1, <4>2
    <3>2. CASE ~(Fenced(c, o) /\ step[o][n].status = "done")
      BY <1>1, <1>10, <3>2 DEF rewind
    <3> QED  BY <3>1, <3>2
  <2>2. /\ Rewound(step[o][n]) \in Row /\ Rewound(step[o][n]).snapshot = step[o][n].snapshot
        /\ Rewound(step[o][n]).resetId = step[o][n].resetId
        /\ Rewound(step[o][n]).probed = step[o][n].probed
        /\ Rewound(step[o][n]).attempts < MaxAttempts
    BY <1>4, <1>7, RewoundRow
  <2>3. \A p \in Operations, m \in Nodes :
          \/ step'[p][m] = step[p][m]
          \/ p = o /\ m = n /\ Fenced(c, o) /\ step'[p][m] = Rewound(step[o][n])
    BY <1>4, <1>7, <2>1
  <2>4. step' \in [Operations -> [Nodes -> Row]]
    <3>1. PICK r \in Row : r = Rewound(step[o][n])  BY <2>2
    <3>2. PICK rows : rows = [step[o] EXCEPT ![n] = r]  OBVIOUS
    <3>3. step[o] \in [Nodes -> Row]  BY <1>4
    <3>4. rows \in [Nodes -> Row]  BY <3>2, <3>3
    <3>5. step' = step \/ step' = [step EXCEPT ![o] = rows]  BY <2>1, <3>1, <3>2
    <3> QED  BY <1>4, <3>4, <3>5
  <2>5. \A p \in Operations : step'[p] = step[p] \/ (p = o /\ Fenced(c, o))
    BY <1>4, <2>1
  <2>6. TypesDb'
    <3>1. /\ nextId' = nextId
          /\ \A p \in Operations, m \in Nodes :
               /\ step[p][m].resetId <= nextId
               /\ step[p][m].status = "running" => step[p][m].attempts < MaxAttempts
      BY <1>2 DEF Inv, Types, TypesDb
    <3>2. \A p \in Operations, m \in Nodes :
               /\ step'[p][m].resetId <= nextId'
               /\ step'[p][m].status = "running" => step'[p][m].attempts < MaxAttempts
      <4> SUFFICES ASSUME NEW p \in Operations, NEW m \in Nodes
                   PROVE  /\ step'[p][m].resetId <= nextId'
                          /\ step'[p][m].status = "running" => step'[p][m].attempts < MaxAttempts
        OBVIOUS
      <4>1. CASE step'[p][m] = step[p][m]  BY <3>1, <4>1
      <4>2. CASE p = o /\ m = n /\ step'[p][m] = Rewound(step[o][n])
        BY <2>2, <3>1, <4>2
      <4> QED  BY <2>3, <4>1, <4>2
    <3> QED  BY <1>2, <2>4, <3>2 DEF Inv, Types, TypesDb
  <2>7. RecordsMove
    <3>1. \A p \in Operations :
            /\ status'[p] = status[p] /\ (status[p] = "none" => owner'[p] = NoOne)
            /\ status[p] = "none" => step'[p] = step[p]
      <4>1. Fenced(c, o) => status[o] # "none"  BY DEF Fenced
      <4> QED  BY <1>2, <2>5, <4>1 DEF Inv, Unrecorded
    <3>2. \A p \in Operations, m \in Nodes :
            /\ step'[p][m].snapshot = step[p][m].snapshot
            /\ step'[p][m].resetId = step[p][m].resetId
            /\ step'[p][m].probed = step[p][m].probed
      BY <2>2, <2>3
    <3>3. ASSUME NEW f \in Epochs
          PROVE  /\ step'[EntryOp(f)] = step[EntryOp(f)] /\ status'[EntryOp(f)] = status[EntryOp(f)]
                 /\ asked' = RestoreOp(f) => Restorable(f) /\ f <= epoch
                 /\ status'[EntryOp(f)] = "succeeded" =>
                      \A m \in Nodes : step[EntryOp(f)][m].status = "done"
      <4>1. EntryOp(f) \in Operations /\ EntryOp(f) # o  BY <1>5, OperationsOf
      <4> QED  BY <4>1, <1>2, <2>5 DEF Inv, RestoreFollows
    <3> QED  BY <3>1, <3>2, <3>3 DEF RecordsMove
  <2>8. \A d \in Coordinators : d # c => StillOwns(d)
    <3> SUFFICES ASSUME NEW d \in Coordinators, d # c, Owns(d)'
                 PROVE  Owns(d) /\ step'[pass[d]] = step[pass[d]]
      BY DEF StillOwns
    <3>1. pass'[d] = pass[d]  BY <1>10 DEF PassOver, Inv, Types, TypesCoord
    <3>2. Owns(d)  BY <1>2, <3>1 DEF Owns, Fenced
    <3>3. Fenced(c, o) => pass[d] # o  BY <3>2 DEF Owns, Fenced
    <3>4. pass[d] \in Operations  BY <3>2 DEF Owns
    <3> QED  BY <2>5, <3>2, <3>3, <3>4
  <2>9. TypesCoord' /\ \A d \in Coordinators : Kept(d) \/ Through(d)
    BY <1>2, <1>10, <2>8, PassOverMeans
  <2>10. Types'
    <3>1. lapsed' \subseteq Nodes  BY <1>4, <1>10
    <3>2. TypesNodes'  BY <1>2, <1>8, <3>1, RestOfTypes
    <3> QED  BY <2>6, <2>9, <3>2 DEF Types
  <2>11. \A m \in lapsed \ lapsed' : FALSE  BY <1>10
  <2> QED  BY <1>2, <1>3, <2>7, <2>9, <2>10, <2>11, SettledKeeps
<1> QED  BY <1>6, <1>9, <1>10

\* reopen_after: the hold lifts on whoever still works under it.
LEMMA ServingCommitKeeps ==
  ASSUME BoundAssumption, Inv, NEW c \in Coordinators, ServingCommit(c)
  PROVE  Inv'
<1>1. PICK o \in Operations : o = pass[c]  BY DEF ServingCommit
<1>2. /\ \A n \in Nodes : at[c][n] = "checked"
      /\ PassOver(c) /\ NoFault
      /\ UNCHANGED <<epoch, step, asked, nodeVars, nextId, got, history>>
  BY DEF ServingCommit
<1>3. CASE Fenced(c, o) /\ Held(o[2])
  <2>1. closed' = FALSE /\ finish(c, o, "succeeded") /\ closed
    BY <1>1, <1>3 DEF ServingCommit, Held
  <2>2. ASSUME NEW n \in Nodes  PROVE o = RestoreOp(epoch) /\ epoch \in Epochs
    <3>1. o[1] = "restore"  BY <1>1, <1>2 DEF Inv, Looks
    <3>2. o[2] = epoch  BY <1>3 DEF Held
    <3> QED  BY <3>1, <3>2, OperationForm DEF EntryOp, RestoreOp
  <2>3. \A e \in Epochs : o = EntryOp(e) /\ "succeeded" = "succeeded" =>
          \A n \in Nodes : step[o][n].status = "done"
    BY <2>2, OperationsOf
  <2>4. /\ RecordsMove
        /\ status' \in [Operations -> Statuses] /\ owner' \in [Operations -> Coordinators \cup {NoOne}]
        /\ leased' \in [Operations -> BOOLEAN]
        /\ \A p \in Operations : status'[p] = "running" => status[p] = "running"
        /\ \A p \in Operations, d \in Coordinators : owner'[p] = d => owner[p] = d
    <3>1. step' = step /\ asked' = asked  BY <1>2
    <3> QED  BY <2>1, <2>3, <3>1, FinishMeans
  <2>5. UNCHANGED <<resident, quiet, applied, refused, late, held, lapsed, faults>>
    BY <1>2 DEF nodeVars, history, NoFault
  <2>6. /\ \A d \in Coordinators : d # c =>
             pass'[d] = pass[d] /\ at'[d] = at[d] /\ unchecked'[d] = unchecked[d]
        /\ pass'[c] = NoOp
    BY <1>2 DEF PassOver, Inv, Types, TypesCoord
  <2>7. \A d \in Coordinators : d # c => StillOwns(d)
    BY <1>2, <2>4, <2>6 DEF StillOwns, Owns, Fenced
  <2>8. TypesCoord' /\ \A d \in Coordinators : Kept(d) \/ Through(d)
    BY <1>2, <2>7, PassOverMeans
  <2>9. Types'
    <3>1. faults' \in 0 .. MaxFaults /\ lapsed' \subseteq Nodes  BY <2>5 DEF Inv, Types, TypesNodes
    <3>2. TypesNodes'  BY <3>1, <1>2, <2>5, RestOfTypes
    <3>3. TypesDb'  BY <1>2, <2>1, <2>4 DEF Inv, Types, TypesDb
    <3> QED  BY <2>8, <3>2, <3>3 DEF Types
  <2>10. \A d \in Coordinators, m \in Nodes :
           Owns(d)' => at'[d][m] = "claimed" /\ unchecked'[d] = {}
    <3> SUFFICES ASSUME NEW d \in Coordinators, NEW m \in Nodes, Owns(d)',
                        at'[d][m] # "claimed" \/ unchecked'[d] # {}
                 PROVE  FALSE
      OBVIOUS
    <3>1. d # c
      <4>1. NoOp \notin Operations  BY OperationForm
      <4> QED  BY <2>6, <4>1 DEF Owns
    <3>2. Owns(d)  BY <2>7, <3>1 DEF StillOwns
    <3>3. at[d][m] # "claimed" \/ unchecked[d] # {}  BY <2>6, <3>1
    <3>4. Held(pass[d][2])  BY <3>2, <3>3 DEF Inv, UnderHold
    <3>5. pass[d][2] = epoch  BY <3>4 DEF Held
    <3>6. pass[d] \in Operations /\ Fenced(d, pass[d])  BY <3>2 DEF Owns
    <3>7. pass[d] = EntryOp(epoch) \/ pass[d] = RestoreOp(epoch)
      BY <3>5, <3>6, OperationForm
    <3>8. CASE pass[d] = RestoreOp(epoch)
      BY <1>3, <2>2, <3>1, <3>6, <3>8 DEF Fenced
    <3>9. CASE pass[d] = EntryOp(epoch)
      <4>1. status[RestoreOp(epoch)] # "none"  BY <1>3, <2>2 DEF Fenced
      <4>2. status[EntryOp(epoch)] = "succeeded"
        BY <2>2, <4>1 DEF Inv, RestoreFollows, Restorable
      <4> QED  BY <3>6, <3>9, <4>2 DEF Fenced
    <3> QED  BY <3>7, <3>8, <3>9
  <2>11. \A m \in lapsed \ lapsed' : FALSE  BY <2>5
  <2>12. closed' => closed  BY <2>1
  <2> QED  BY <1>2, <2>4, <2>5, <2>8, <2>9, <2>10, <2>11, <2>12, SettledKeeps
<1>4. CASE ~(Fenced(c, o) /\ Held(o[2]))
  <2>1. UNCHANGED <<closed, status, owner, leased>>
    BY <1>1, <1>4 DEF ServingCommit
  <2> QED  BY <1>1, <1>2, <2>1, OverKeeps
<1> QED  BY <1>3, <1>4

\* enter(): the new epoch's entry, which nobody works on yet.
LEMMA EnterKeeps ==
  ASSUME BoundAssumption, Inv, Enter
  PROVE  Inv'
<1>0. MaxEpoch \in Nat /\ epoch \in 0 .. MaxEpoch
  BY DEF BoundAssumption, Inv, Types, TypesDb
<1>1. PICK f \in Epochs : f = epoch + 1
  BY <1>0 DEF Enter, Epochs
<1>2. /\ ~closed /\ closed' = TRUE /\ epoch' = f
      /\ status' = [status EXCEPT ![EntryOp(f)] = "running"]
      /\ step' = [step EXCEPT ![EntryOp(f)] = [n \in Nodes |-> NewStep(NoSnapshot)]]
      /\ UNCHANGED <<owner, leased, asked, nodeVars, nextId, coordVars, faults, history>>
  BY <1>1 DEF Enter, close, create_entry, EntryOp, AdminOnly
<1>3. UNCHANGED <<resident, quiet, applied, refused, late, held, lapsed, pass, mem, at, got, unchecked>>
  BY <1>2 DEF nodeVars, coordVars, history
<1>4. EntryOp(f) \in Operations /\ EntryOp(f)[2] = f /\ f > epoch /\ f # 0
  BY <1>0, <1>1, OperationsOf DEF Epochs
<1>5. status[EntryOp(f)] = "none" /\ status[RestoreOp(f)] = "none"
  BY <1>4, OperationsOf DEF Inv, Unrecorded
<1>6. step' = step
  <2>1. step[EntryOp(f)] = [n \in Nodes |-> NewStep(NoSnapshot)]  BY <1>5 DEF Inv, Unrecorded
  <2> QED  BY <1>2, <2>1 DEF Inv, Types, TypesDb
<1>7. /\ status'[EntryOp(f)] = "running"
      /\ \A o \in Operations : o # EntryOp(f) => status'[o] = status[o]
      /\ status' \in [Operations -> Statuses]
  BY <1>2, <1>4 DEF Inv, Types, TypesDb, Statuses
<1>8. \A e \in Epochs : /\ status'[RestoreOp(e)] = status[RestoreOp(e)]
                        /\ e # f => status'[EntryOp(e)] = status[EntryOp(e)]
  BY <1>7, OperationsOf
<1>9. \A c \in Coordinators : pass[c] \in Operations =>
        pass[c] # EntryOp(f) /\ pass[c] # RestoreOp(f)
  BY <1>5 DEF Inv, Unrecorded
<1>10. \A c \in Coordinators : Owns(c)' <=> Owns(c)
  <2> SUFFICES ASSUME NEW c \in Coordinators  PROVE Owns(c)' <=> Owns(c)
    OBVIOUS
  <2>1. pass[c] \in Operations => status'[pass[c]] = status[pass[c]]  BY <1>7, <1>9
  <2> QED  BY <2>1, <1>2, <1>3 DEF Owns, Fenced
<1>11. \A e : Held(e)' <=> e = f  BY <1>2 DEF Held
<1>12. Types'
  <2>1. TypesDb'
    <3>1. epoch' \in 0 .. MaxEpoch /\ (closed' => epoch' # 0) /\ closed' \in BOOLEAN
      BY <1>0, <1>2, <1>4 DEF Epochs
    <3> QED  BY <1>2, <1>6, <1>7, <3>1 DEF Inv, Types, TypesDb
  <2>2. TypesNodes'  BY <1>2, <1>3 DEF Inv, Types, TypesNodes
  <2>3. TypesCoord'  BY <1>3 DEF Inv, Types, TypesCoord
  <2> QED  BY <2>1, <2>2, <2>3 DEF Types
<1>13. Unrecorded'
  <2>1. \A o \in Operations : status'[o] = "none" => owner'[o] = NoOne
    BY <1>2, <1>7 DEF Inv, Unrecorded
  <2>2. ASSUME NEW o \in Operations, o[2] > epoch'  PROVE status'[o] = "none"
    <3>1. o[2] \in Epochs  BY OperationForm
    <3>2. o[2] > epoch /\ o[2] # f  BY <1>0, <1>1, <1>2, <2>2, <3>1 DEF Epochs
    <3> QED  BY <3>2, <1>4, <1>7 DEF Inv, Unrecorded
  <2>3. \A e \in Epochs : status'[EntryOp(e)] = "none"
          => /\ step'[EntryOp(e)] = [n \in Nodes |-> NewStep(NoSnapshot)]
             /\ \A n \in Nodes : held'[e][n] = NoSnapshot
    BY <1>3, <1>6, <1>7, <1>8 DEF Inv, Unrecorded
  <2>4. \A c \in Coordinators : pass'[c] \in Operations => status'[pass'[c]] # "none"
    BY <1>3, <1>7 DEF Inv, Unrecorded
  <2> QED  BY <2>1, <2>2, <2>3, <2>4 DEF Unrecorded
<1>14. RestoreFollows'
  <2> SUFFICES ASSUME NEW e \in Epochs
               PROVE  /\ status'[EntryOp(e)] = "succeeded" =>
                           \A n \in Nodes : step'[EntryOp(e)][n].status = "done"
                      /\ asked' = RestoreOp(e) => Restorable(e)' /\ e <= epoch'
                      /\ status'[RestoreOp(e)] # "none" =>
                           /\ Restorable(e)'
                           /\ \A n \in Nodes :
                                /\ step'[RestoreOp(e)][n].snapshot = step'[EntryOp(e)][n].snapshot
                                /\ step'[RestoreOp(e)][n].probed \subseteq step'[RestoreOp(e)][n].snapshot
    BY DEF RestoreFollows
  <2>1. Restorable(e) => Restorable(e)' /\ e # f
    BY <1>5, <1>6, <1>8 DEF Restorable
  <2>2. status'[EntryOp(e)] = "succeeded" => status[EntryOp(e)] = "succeeded"
    BY <1>7, <1>8
  <2>3. e <= epoch => e <= epoch'  BY <1>0, <1>1, <1>2 DEF Epochs
  <2> QED  BY <1>2, <1>6, <1>8, <2>1, <2>2, <2>3 DEF Inv, RestoreFollows
<1>15. OwnCopy'  BY <1>3, <1>6, <1>10 DEF Inv, OwnCopy
<1>16. UnderHold'
  <2> SUFFICES ASSUME NEW c \in Coordinators, NEW m \in Nodes, Owns(c)',
                      at'[c][m] # "claimed" \/ unchecked'[c] # {}
               PROVE  FALSE
    BY DEF UnderHold
  <2>1. Held(pass[c][2])  BY <1>3, <1>10 DEF Inv, UnderHold
  <2> QED  BY <2>1, <1>2 DEF Held
<1>17. EntryRows'
  <2> SUFFICES ASSUME NEW e \in Epochs, NEW n \in Nodes
               PROVE  EntryRow(e, n, step[EntryOp(e)][n])'
    BY DEF EntryRows
  <2>1. EntryRow(e, n, step[EntryOp(e)][n])  BY DEF Inv, EntryRows
  <2>2. CASE e # f  BY <1>3, <1>6, <1>11, <2>1, <2>2 DEF EntryRow
  <2>3. CASE e = f
    <3>1. step[EntryOp(e)][n] = NewStep(NoSnapshot) /\ held[e][n] = NoSnapshot
      BY <1>5, <2>3 DEF Inv, Unrecorded
    <3>2. /\ step[EntryOp(e)][n].phase = "pending" /\ step[EntryOp(e)][n].status = "running"
          /\ step[EntryOp(e)][n].snapshot = NoSnapshot
      BY <3>1, NewStepIsRow
    <3>3. ~(NoSnapshot \subseteq Models)  BY Distinct
    <3> QED  BY <1>3, <1>6, <3>1, <3>2, <3>3 DEF EntryRow, EntryPhases
  <2> QED  BY <2>2, <2>3
<1>18. Receipts'
  <2> SUFFICES ASSUME NEW n \in Nodes, NEW call \in applied[n] \cup late[n]
               PROVE  Expected(n, call)'
    BY <1>3 DEF Inv, Receipts
  <2>1. Expected(n, call) /\ call.epoch \in Epochs
    BY DEF Inv, Receipts, Types, TypesNodes, Call
  <2> QED  BY <2>1, <1>3, <1>6, <1>8 DEF Expected, KnownReset
<1>19. Copies'
  BY <1>3, <1>6 DEF Inv, Copies, CopyOfEntry, CopyOfRestore, KnownReset
<1>20. Answers'
  <2> SUFFICES ASSUME NEW c \in Coordinators, NEW n \in Nodes, NEW e \in Epochs,
                      pass[c] = EntryOp(e), at[c][n] = "answered"
               PROVE  Told(c, n, e)'
    BY <1>3 DEF Answers
  <2>1. Told(c, n, e)  BY DEF Inv, Answers
  <2>2. e # f
    <3>1. EntryOp(e) \in Operations  BY OperationsOf
    <3> QED  BY <3>1, <1>9
  <2> QED  BY <1>3, <1>10, <1>11, <2>1, <2>2 DEF Told
<1>21. Looks'
  <2> SUFFICES ASSUME NEW c \in Coordinators
               PROVE  /\ unchecked[c] # {} => pass[c] \in Operations /\ pass[c][1] = "restore"
                      /\ \A n \in Nodes : at[c][n] \in {"closing", "checked"} =>
                           pass[c] \in Operations /\ pass[c][1] = "restore"
                      /\ \A n \in Nodes : ~(at[c][n] = "checked" /\ pass[c][2] = f)
    BY <1>3, <1>11 DEF Looks
  <2>1. /\ unchecked[c] # {} => pass[c] \in Operations /\ pass[c][1] = "restore"
        /\ \A n \in Nodes : at[c][n] \in {"closing", "checked"} =>
             pass[c] \in Operations /\ pass[c][1] = "restore"
    BY DEF Inv, Looks
  <2>2. ASSUME NEW n \in Nodes, at[c][n] = "checked", pass[c][2] = f  PROVE FALSE
    <3>1. pass[c] \in Operations  BY <2>1, <2>2
    <3>2. pass[c] = EntryOp(f) \/ pass[c] = RestoreOp(f)  BY <3>1, <2>2, OperationForm
    <3> QED  BY <3>1, <3>2, <1>9
  <2> QED  BY <2>1, <2>2
<1> QED  BY <1>12, <1>13, <1>14, <1>15, <1>16, <1>17, <1>18, <1>19, <1>20, <1>21 DEF Inv

\* restore(): the restore's rows take over the entry's snapshots.
LEMMA CreateRestoreKeeps ==
  ASSUME BoundAssumption, Inv, CreateRestore
  PROVE  Inv'
<1>1. PICK f \in Epochs : asked = RestoreOp(f)
  <2>1. asked \in Operations /\ asked[1] = "restore"
    BY DEF CreateRestore, Inv, Types, TypesDb
  <2> QED  BY <2>1, OperationForm DEF EntryOp, RestoreOp
<1>2. /\ status[RestoreOp(f)] = "none"
      /\ status' = [status EXCEPT ![RestoreOp(f)] = "running"]
      /\ step' = [step EXCEPT ![RestoreOp(f)] =
           [n \in Nodes |-> NewStep(step[EntryOp(f)][n].snapshot)]]
      /\ asked' = NoOp
      /\ UNCHANGED <<closed, epoch, owner, leased, nodeVars, nextId, coordVars, faults, history>>
  BY <1>1 DEF CreateRestore, create_restore, EntryOp, RestoreOp, AdminOnly
<1>3. UNCHANGED <<resident, quiet, applied, refused, late, held, lapsed, pass, mem, at, got, unchecked>>
  BY <1>2 DEF nodeVars, coordVars, history
<1>4. RestoreOp(f) \in Operations /\ RestoreOp(f)[2] = f /\ EntryOp(f) \in Operations
  BY OperationsOf
<1>5. Restorable(f) /\ f <= epoch  BY <1>1 DEF Inv, RestoreFollows
<1>6. ASSUME NEW n \in Nodes
      PROVE  /\ step'[RestoreOp(f)][n] = NewStep(step[EntryOp(f)][n].snapshot)
             /\ step'[RestoreOp(f)][n] \in Row
             /\ step'[RestoreOp(f)][n].resetId = 0 /\ step'[RestoreOp(f)][n].attempts = 0
             /\ step'[RestoreOp(f)][n].snapshot = step[EntryOp(f)][n].snapshot
             /\ step'[RestoreOp(f)][n].probed = {}
  <2>1. step[EntryOp(f)][n].snapshot \in (SUBSET Models) \cup {NoSnapshot, Unobserved}
    BY <1>5 DEF Restorable
  <2>2. step'[RestoreOp(f)][n] = NewStep(step[EntryOp(f)][n].snapshot)
    BY <1>2, <1>4 DEF Inv, Types, TypesDb
  <2> QED  BY <2>1, <2>2, NewStepIsRow
<1>7. /\ status'[RestoreOp(f)] = "running"
      /\ \A o \in Operations : o # RestoreOp(f) => status'[o] = status[o] /\ step'[o] = step[o]
      /\ status' \in [Operations -> Statuses]
  BY <1>2, <1>4 DEF Inv, Types, TypesDb, Statuses
<1>8. step' \in [Operations -> [Nodes -> Row]]
  <2>1. PICK rows : rows = [n \in Nodes |-> NewStep(step[EntryOp(f)][n].snapshot)]  OBVIOUS
  <2>2. rows \in [Nodes -> Row]
    <3>1. \A n \in Nodes : NewStep(step[EntryOp(f)][n].snapshot) \in Row  BY <1>6
    <3> QED  BY <2>1, <3>1
  <2>3. step' = [step EXCEPT ![RestoreOp(f)] = rows]  BY <1>2, <2>1
  <2> QED  BY <2>2, <2>3 DEF Inv, Types, TypesDb
<1>9. \A e \in Epochs : /\ status'[EntryOp(e)] = status[EntryOp(e)]
                        /\ step'[EntryOp(e)] = step[EntryOp(e)]
                        /\ e # f => /\ status'[RestoreOp(e)] = status[RestoreOp(e)]
                                    /\ step'[RestoreOp(e)] = step[RestoreOp(e)]
  BY <1>7, OperationsOf
<1>10. \A c \in Coordinators : pass[c] \in Operations => pass[c] # RestoreOp(f)
  BY <1>2 DEF Inv, Unrecorded
<1>11. \A c \in Coordinators : (Owns(c)' <=> Owns(c)) /\ (Owns(c) => step'[pass[c]] = step[pass[c]])
  <2> SUFFICES ASSUME NEW c \in Coordinators
               PROVE  (Owns(c)' <=> Owns(c)) /\ (Owns(c) => step'[pass[c]] = step[pass[c]])
    OBVIOUS
  <2>1. pass[c] \in Operations => status'[pass[c]] = status[pass[c]] /\ step'[pass[c]] = step[pass[c]]
    BY <1>7, <1>10
  <2> QED  BY <2>1, <1>2, <1>3 DEF Owns, Fenced
<1>12. \A e : Held(e)' <=> Held(e)  BY <1>2 DEF Held
<1>13. Types'
  <2>1. TypesDb'
    <3>1. MaxAttempts \in Nat \ {0} /\ nextId \in Nat
      BY DEF BoundAssumption, Inv, Types, TypesNodes
    <3>2. ASSUME NEW o \in Operations, NEW n \in Nodes
          PROVE  /\ step'[o][n].resetId <= nextId'
                 /\ step'[o][n].status = "running" => step'[o][n].attempts < MaxAttempts
      <4>1. CASE o = RestoreOp(f)  BY <1>2, <1>6, <3>1, <4>1
      <4>2. CASE o # RestoreOp(f)  BY <1>2, <1>7, <4>2 DEF Inv, Types, TypesDb
      <4> QED  BY <4>1, <4>2
    <3> QED  BY <1>2, <1>7, <1>8, <3>2 DEF Inv, Types, TypesDb
  <2>2. TypesNodes'  BY <1>2, <1>3 DEF Inv, Types, TypesNodes
  <2>3. TypesCoord'  BY <1>3 DEF Inv, Types, TypesCoord
  <2> QED  BY <2>1, <2>2, <2>3 DEF Types
<1>14. Unrecorded'
  <2>1. \A o \in Operations : status'[o] = "none" => owner'[o] = NoOne
    BY <1>2, <1>7 DEF Inv, Unrecorded
  <2>2. ASSUME NEW o \in Operations, o[2] > epoch'  PROVE status'[o] = "none"
    <3>1. o # RestoreOp(f)
      <4>1. epoch \in 0 .. MaxEpoch /\ MaxEpoch \in Nat
        BY DEF BoundAssumption, Inv, Types, TypesDb
      <4> QED  BY <1>2, <1>4, <1>5, <2>2, <4>1 DEF Epochs
    <3> QED  BY <1>2, <1>7, <2>2, <3>1 DEF Inv, Unrecorded
  <2>3. \A e \in Epochs : status'[EntryOp(e)] = "none"
          => /\ step'[EntryOp(e)] = [n \in Nodes |-> NewStep(NoSnapshot)]
             /\ \A n \in Nodes : held'[e][n] = NoSnapshot
    BY <1>3, <1>9 DEF Inv, Unrecorded
  <2>4. \A c \in Coordinators : pass'[c] \in Operations => status'[pass'[c]] # "none"
    BY <1>3, <1>7, <1>10 DEF Inv, Unrecorded
  <2> QED  BY <2>1, <2>2, <2>3, <2>4 DEF Unrecorded
<1>15. RestoreFollows'
  <2> SUFFICES ASSUME NEW e \in Epochs
               PROVE  /\ status'[EntryOp(e)] = "succeeded" =>
                           \A n \in Nodes : step'[EntryOp(e)][n].status = "done"
                      /\ asked' = RestoreOp(e) => Restorable(e)' /\ e <= epoch'
                      /\ status'[RestoreOp(e)] # "none" =>
                           /\ Restorable(e)'
                           /\ \A n \in Nodes :
                                /\ step'[RestoreOp(e)][n].snapshot = step'[EntryOp(e)][n].snapshot
                                /\ step'[RestoreOp(e)][n].probed \subseteq step'[RestoreOp(e)][n].snapshot
    BY DEF RestoreFollows
  <2>1. Restorable(e)' <=> Restorable(e)  BY <1>9 DEF Restorable
  <2>2. asked' # RestoreOp(e)
    <3>1. RestoreOp(e) \in Operations  BY OperationsOf
    <3> QED  BY <3>1, <1>2, OperationForm
  <2>3. status'[RestoreOp(e)] # "none" =>
           /\ Restorable(e)
           /\ \A n \in Nodes :
                /\ step'[RestoreOp(e)][n].snapshot = step'[EntryOp(e)][n].snapshot
                /\ step'[RestoreOp(e)][n].probed \subseteq step'[RestoreOp(e)][n].snapshot
    <3>1. CASE e = f  BY <1>5, <1>6, <1>9, <3>1
    <3>2. CASE e # f  BY <1>9, <3>2 DEF Inv, RestoreFollows
    <3> QED  BY <3>1, <3>2
  <2> QED  BY <1>9, <2>1, <2>2, <2>3 DEF Inv, RestoreFollows
<1>16. OwnCopy'  BY <1>3, <1>11 DEF Inv, OwnCopy
<1>17. UnderHold'
  <2> SUFFICES ASSUME NEW c \in Coordinators, NEW m \in Nodes, Owns(c)',
                      at'[c][m] # "claimed" \/ unchecked'[c] # {}
               PROVE  Held(pass[c][2])'
    BY <1>3 DEF UnderHold
  <2>1. Held(pass[c][2])  BY <1>3, <1>11 DEF Inv, UnderHold
  <2> QED  BY <2>1, <1>2, <1>3 DEF Held
<1>18. EntryRows'
  <2> SUFFICES ASSUME NEW e \in Epochs, NEW n \in Nodes
               PROVE  EntryRow(e, n, step[EntryOp(e)][n])'
    BY DEF EntryRows
  <2>1. EntryRow(e, n, step[EntryOp(e)][n])  BY DEF Inv, EntryRows
  <2>2. status'[RestoreOp(e)] = "none" => status[RestoreOp(e)] = "none"
    BY <1>7, <1>9
  <2> QED  BY <1>3, <1>9, <1>12, <2>1, <2>2 DEF EntryRow, WasReset
<1>19. Receipts'
  <2> SUFFICES ASSUME NEW n \in Nodes, NEW call \in applied[n] \cup late[n]
               PROVE  Expected(n, call)'
    BY <1>3 DEF Inv, Receipts
  <2>1. Expected(n, call) /\ call.epoch \in Epochs
    BY DEF Inv, Receipts, Types, TypesNodes, Call
  <2>2. call.kind = "load" => call.epoch # f  BY <1>2, <2>1 DEF Expected
  <2> QED  BY <1>3, <1>9, <2>1, <2>2 DEF Expected, KnownReset
<1>20. Copies'
  <2> SUFFICES ASSUME NEW c \in Coordinators, NEW n \in Nodes, NEW e \in Epochs
               PROVE  /\ pass[c] = EntryOp(e) => CopyOfEntry(e, n, mem[c][n])'
                      /\ pass[c] = RestoreOp(e) => CopyOfRestore(e, n, mem[c][n], at[c][n])'
    BY <1>3 DEF Copies
  <2>1. ASSUME pass[c] = EntryOp(e)  PROVE CopyOfEntry(e, n, mem[c][n])'
    <3>1. CopyOfEntry(e, n, mem[c][n])  BY <2>1 DEF Inv, Copies
    <3> QED  BY <3>1, <1>3, <1>9 DEF CopyOfEntry, KnownReset
  <2>2. ASSUME pass[c] = RestoreOp(e)  PROVE CopyOfRestore(e, n, mem[c][n], at[c][n])'
    <3>1. CopyOfRestore(e, n, mem[c][n], at[c][n])  BY <2>2 DEF Inv, Copies
    <3>2. e # f  BY <2>2, <1>4, <1>10
    <3> QED  BY <3>1, <3>2, <1>3, <1>9 DEF CopyOfRestore
  <2> QED  BY <2>1, <2>2
<1>21. Answers'
  <2> SUFFICES ASSUME NEW c \in Coordinators, NEW n \in Nodes, NEW e \in Epochs,
                      pass[c] = EntryOp(e), at[c][n] = "answered"
               PROVE  Told(c, n, e)'
    BY <1>3 DEF Answers
  <2>1. Told(c, n, e)  BY DEF Inv, Answers
  <2> QED  BY <1>3, <1>11, <1>12, <2>1 DEF Told, WasReset
<1>22. Looks'
  BY <1>2, <1>3 DEF Inv, Looks, Held
<1> QED  BY <1>13, <1>14, <1>15, <1>16, <1>17, <1>18, <1>19, <1>20, <1>21, <1>22 DEF Inv

-----------------------------------------------------------------------------
(* Every step.                                                             *)

LEMMA StutterKeeps ==
  ASSUME Inv, UNCHANGED vars
  PROVE  Inv'
<1>1. /\ UNCHANGED <<closed, epoch, status, owner, leased, step, asked>>
      /\ UNCHANGED <<resident, quiet, applied, refused, late, nextId>>
      /\ UNCHANGED <<pass, mem, at, got, unchecked, faults, held, lapsed>>
  BY DEF vars, db, nodeVars, coordVars, history
<1>2. Types'  BY <1>1 DEF Inv, Types, TypesDb, TypesNodes, TypesCoord
<1>3. Unrecorded' /\ RestoreFollows'
  BY <1>1 DEF Inv, Unrecorded, RestoreFollows, Restorable
<1>4. OwnCopy' /\ UnderHold'
  BY <1>1 DEF Inv, OwnCopy, UnderHold, Owns, Fenced, Held
<1>5. EntryRows'  BY <1>1 DEF Inv, EntryRows, EntryRow, Held, WasReset
<1>6. Receipts'  BY <1>1 DEF Inv, Receipts, Expected, KnownReset
<1>7. Copies'  BY <1>1 DEF Inv, Copies, CopyOfEntry, CopyOfRestore, KnownReset
<1>8. Answers'  BY <1>1 DEF Inv, Answers, Told, WasReset, Held, Owns, Fenced
<1>9. Looks'  BY <1>1 DEF Inv, Looks, Held
<1> QED  BY <1>2, <1>3, <1>4, <1>5, <1>6, <1>7, <1>8, <1>9 DEF Inv

LEMMA RenewKeeps ==
  ASSUME BoundAssumption, Inv, NEW c \in Coordinators, Renew(c)
  PROVE  Inv'
<1>1. PICK o \in Operations : o = pass[c]  BY DEF Renew
<1>2. leased' = [leased EXCEPT ![o] = TRUE] /\ (Fault \/ NoFault)  BY <1>1 DEF Renew
<1>3. UNCHANGED <<closed, epoch, status, owner, step, asked, nodeVars, nextId, coordVars, history>>
  BY DEF Renew
<1> QED  BY <1>2, <1>3, LeasedKeeps

LEMMA LeaseExpiresKeeps ==
  ASSUME BoundAssumption, Inv, NEW o \in Operations, LeaseExpires(o)
  PROVE  Inv'
<1>1. leased' = [leased EXCEPT ![o] = FALSE] /\ (Fault \/ NoFault)  BY DEF LeaseExpires
<1>2. UNCHANGED <<closed, epoch, status, owner, step, asked, nodeVars, nextId, coordVars, history>>
  BY DEF LeaseExpires
<1> QED  BY <1>1, <1>2, LeasedKeeps

LEMMA StepKeeps ==
  ASSUME BoundAssumption, Inv, [Next]_vars
  PROVE  Inv'
<1>1. CASE Admin
  BY <1>1, EnterKeeps, AskRestoreKeeps, CreateRestoreKeeps, AskRetryKeeps, RetryKeeps, ReopenKeeps
     DEF Admin
<1>2. ASSUME NEW n \in Nodes, Traffic(n) \/ Evict(n) \/ Late(n)
      PROVE  Inv'
  BY <1>2, TrafficKeeps, EvictKeeps, LateKeeps
<1>3. ASSUME NEW c \in Coordinators, Pass(c)
      PROVE  Inv'
  BY <1>3, ClaimKeeps, BeginKeeps, CloseKeeps, CloseCheckKeeps, ServingCommitKeeps, RenewKeeps
     DEF Pass
<1>4. ASSUME NEW c \in Coordinators, Dies(c)
      PROVE  Inv'
  BY <1>4, DiesKeeps
<1>5. ASSUME NEW c \in Coordinators, NEW n \in Nodes, Node(c, n)
      PROVE  Inv'
  BY <1>5, InterruptKeeps, ObserveKeeps, SetResetIdKeeps, ResetKeeps, EntryWriteKeeps,
     RestoreDecideKeeps, SendLoadKeeps, ProbeKeeps, RestoreWriteKeeps DEF Node
<1>6. ASSUME NEW c \in Coordinators, NEW n \in Nodes, NoControl(c, n)
      PROVE  Inv'
  BY <1>6, NoControlKeeps
<1>7. ASSUME NEW o \in Operations, LeaseExpires(o)
      PROVE  Inv'
  BY <1>7, LeaseExpiresKeeps
<1>8. CASE UNCHANGED vars  BY <1>8, StutterKeeps
<1> QED  BY <1>1, <1>2, <1>3, <1>4, <1>5, <1>6, <1>7, <1>8 DEF Next

-----------------------------------------------------------------------------
(* The theorems.                                                           *)

\* The inductive invariant: the owner of a running operation works on its rows as they are and
\* under its hold, and nothing an owner of before still holds or sent can undo what they say
\* (claim, _advance and the supervisor's receipts).
THEOREM MaintenanceInvariant ==
  ASSUME BoundAssumption
  PROVE  Spec => []Inv
<1>1. Init => Inv  BY InitInv
<1>2. Inv /\ [Next]_vars => Inv'  BY StepKeeps
<1> QED  BY <1>1, <1>2, PTL DEF Spec

\* The variables keep their types: no node's step runs past MAX_ATTEMPTS, none loads more than its
\* repair rounds allow, and a reset id is one that was minted (maintenance_node_steps).
THEOREM MaintenanceTypes ==
  ASSUME BoundAssumption
  PROVE  Spec => []TypeOK
<1>1. Inv => TypeOK
  <2> SUFFICES ASSUME Inv  PROVE TypeOK
    OBVIOUS
  <2>1. ASSUME NEW o \in Operations, NEW n \in Nodes
        PROVE  /\ step[o][n].phase \in Phases /\ step[o][n].status \in {"running", "failed", "done"}
               /\ step[o][n].attempts \in 0 .. MaxAttempts /\ step[o][n].resetId \in 0 .. nextId
               /\ \/ step[o][n].snapshot \subseteq Models
                  \/ step[o][n].snapshot \in {NoSnapshot, Unobserved}
               /\ step[o][n].loads <= NumModels * (1 + RepairRounds)
    <3>1. step[o][n] \in Row /\ step[o][n].resetId <= nextId /\ nextId \in Nat
      BY DEF Inv, Types, TypesDb, TypesNodes
    <3>2. NumModels * (1 + RepairRounds) \in Nat  BY DEF BoundAssumption
    <3>3. step[o][n].resetId \in 0 .. nextId  BY <3>1 DEF Row
    <3>4. step[o][n].loads <= NumModels * (1 + RepairRounds)
      <4>1. step[o][n].loads \in 0 .. LoadCap  BY <3>1 DEF Row
      <4> QED  BY <4>1, <3>2 DEF LoadCap
    <3> QED  BY <3>1, <3>3, <3>4 DEF Row
  <2>2. /\ closed \in BOOLEAN /\ epoch \in 0 .. MaxEpoch /\ asked \in Operations \cup {NoOp}
        /\ status \in [Operations -> {"none", "running", "failed", "succeeded", "abandoned"}]
        /\ owner \in [Operations -> Coordinators \cup {NoOne}] /\ leased \in [Operations -> BOOLEAN]
        /\ pass \in [Coordinators -> Operations \cup {NoOp, Dead}]
        /\ resident \in [Nodes -> SUBSET Models] /\ faults \in 0 .. MaxFaults
    BY DEF Inv, Types, TypesDb, TypesNodes, TypesCoord, Statuses
  <2> QED  BY <2>1, <2>2 DEF TypeOK
<1> QED  BY <1>1, MaintenanceInvariant, PTL

\* An entry that succeeded has emptied every runtime, for as long as its hold is closed and nothing
\* is restored, whatever a former owner, a call given up on or a sender does (_next's RESET, _close).
THEOREM ReleasedByEntry ==
  ASSUME BoundAssumption
  PROVE  Spec => []EntryReleased
<1>1. Inv => EntryReleased
  <2> SUFFICES ASSUME Inv, closed, status[EntryOp(epoch)] = "succeeded",
                      status[RestoreOp(epoch)] = "none", NEW n \in Nodes
               PROVE  resident[n] = {}
    BY DEF EntryReleased, EntryOp, RestoreOp
  <2>1. epoch \in Epochs /\ Held(epoch)
    BY DEF Inv, Types, TypesDb, Epochs, Held, BoundAssumption
  <2>2. step[EntryOp(epoch)][n].status = "done"  BY <2>1 DEF Inv, RestoreFollows
  <2>3. EntryRow(epoch, n, step[EntryOp(epoch)][n])  BY <2>1 DEF Inv, EntryRows
  <2> QED  BY <2>1, <2>2, <2>3 DEF EntryRow
<1> QED  BY <1>1, MaintenanceInvariant, PTL

\* A snapshot on record is what the runtime held when it was first quiet, never one that a reset has
\* already emptied, through takeovers, retries and crashes (advance keeps the first snapshot).
THEOREM SnapshotsAreOriginal ==
  ASSUME BoundAssumption
  PROVE  Spec => []SnapshotIsOriginal
<1>1. Inv => SnapshotIsOriginal
  <2> SUFFICES ASSUME Inv, NEW e \in Epochs, NEW n \in Nodes,
                      step[EntryOp(e)][n].snapshot \subseteq Models
               PROVE  step[EntryOp(e)][n].snapshot = held[e][n]
    BY DEF SnapshotIsOriginal, EntryOp
  <2>1. EntryRow(e, n, step[EntryOp(e)][n])  BY DEF Inv, EntryRows
  <2> QED  BY <2>1 DEF EntryRow
<1> QED  BY <1>1, MaintenanceInvariant, PTL

\* A node's runtime is restarted under one id per entry: a coordinator that takes over asks under the
\* id on record, and is answered from the restart already made (set_reset_id, the node's receipts).
THEOREM RestartsOnce ==
  ASSUME BoundAssumption
  PROVE  Spec => []RestartedOnce
<1>1. Inv => RestartedOnce
  <2> SUFFICES ASSUME Inv, NEW n \in Nodes, NEW call \in applied[n], NEW other \in applied[n],
                      call.kind = "reset", other.kind = "reset", call.epoch = other.epoch
               PROVE  call = other
    BY DEF RestartedOnce
  <2>1. Expected(n, call) /\ Expected(n, other) /\ call \notin refused[n] /\ other \notin refused[n]
    BY DEF Inv, Receipts
  <2>2. /\ call = ResetCall(call.epoch, call.id) /\ KnownReset(n, call.epoch, call.id)
        /\ other = ResetCall(call.epoch, other.id) /\ KnownReset(n, call.epoch, other.id)
    BY <2>1 DEF Expected
  <2>3. call.id = other.id  BY <2>1, <2>2 DEF KnownReset
  <2> QED  BY <2>2, <2>3
<1> QED  BY <1>1, MaintenanceInvariant, PTL

\* A restore lifts the hold only over nodes that hold their snapshots, but for a model lost after
\* that node's last look: no other step lifts it with the restore succeeding, and a coordinator that
\* lost the restore cannot commit (_close_restore, reopen_after).
THEOREM RestoreLeavesWhole ==
  ASSUME BoundAssumption
  PROVE  Spec => [][RestoreWhole]_vars
<1>1. Inv /\ [Next]_vars => [RestoreWhole]_vars
  <2> SUFFICES ASSUME Inv, [Next]_vars, closed, ~closed', status[RestoreOp(epoch)] = "running",
                      status'[RestoreOp(epoch)] = "succeeded", NEW n \in Nodes \ lapsed
               PROVE  resident[n] = step[RestoreOp(epoch)][n].snapshot
    BY DEF RestoreWhole, RestoreOp
  <2>1. epoch \in Epochs  BY DEF Inv, Types, TypesDb, Epochs, BoundAssumption
  <2>2. RestoreOp(epoch) \in Operations  BY <2>1, OperationsOf
  <2>3. ~Reopen
    BY <2>2 DEF Reopen, abandon_running
  <2>4. ~UNCHANGED closed  OBVIOUS
  <2>5. PICK c \in Coordinators : ServingCommit(c)
    <3>1. ASSUME Admin  PROVE FALSE
      BY <3>1, <2>3, <2>4 DEF Admin, Enter, close, AskRestore, CreateRestore, AskRetry, Retry
    <3>2. ASSUME NEW m \in Nodes, Traffic(m) \/ Evict(m) \/ Late(m)  PROVE FALSE
      BY <3>2, <2>4 DEF Traffic, Evict, Late, NodeOnly, db
    <3>3. ASSUME NEW d \in Coordinators, Pass(d), ~ServingCommit(d)  PROVE FALSE
      BY <3>3, <2>4 DEF Pass, Claim, Begin, Close, CloseCheck, Renew
    <3>4. ASSUME NEW d \in Coordinators, Dies(d)  PROVE FALSE
      BY <3>4, <2>4 DEF Dies, db
    <3>5. ASSUME NEW d \in Coordinators, NEW m \in Nodes, Node(d, m) \/ NoControl(d, m)  PROVE FALSE
      BY <3>5, <2>4 DEF Node, NoControl, Interrupt, Observe, SetResetId, Reset, EntryWrite,
         RestoreDecide, SendLoad, Probe, RestoreWrite, CallOnly, WriteOnly, db
    <3>6. ASSUME NEW o \in Operations, LeaseExpires(o)  PROVE FALSE
      BY <3>6, <2>4 DEF LeaseExpires
    <3>7. ASSUME UNCHANGED vars  PROVE FALSE
      BY <3>7, <2>4 DEF vars, db
    <3> QED  BY <3>1, <3>2, <3>3, <3>4, <3>5, <3>6, <3>7 DEF Next
  <2>6. /\ pass[c] \in Operations /\ at[c][n] = "checked" /\ Held(pass[c][2])
        /\ finish(c, pass[c], "succeeded") /\ Fenced(c, pass[c])
    BY <2>4, <2>5 DEF ServingCommit
  <2>7. pass[c] = RestoreOp(epoch)
    <3>1. pass[c][1] = "restore"  BY <2>6 DEF Inv, Looks
    <3>2. pass[c][2] = epoch  BY <2>6 DEF Held
    <3> QED  BY <2>6, <3>1, <3>2, OperationForm DEF EntryOp, RestoreOp
  <2>8. n \in lapsed \/ resident[n] = mem[c][n].snapshot  BY <2>6 DEF Inv, Looks
  <2>9. mem[c][n].snapshot = step[RestoreOp(epoch)][n].snapshot
    BY <2>1, <2>7 DEF Inv, Copies, CopyOfRestore
  <2> QED  BY <2>8, <2>9
<1> QED  BY <1>1, MaintenanceInvariant, PTL DEF Spec

=============================================================================
