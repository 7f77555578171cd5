---------------------------- MODULE MCMaintenance ----------------------------
(***************************************************************************)
(* A supervised restart of the runtime and the coordinator that asks for    *)
(* it: RuntimeReset and MaintenanceCoordinator.  They meet in the reset     *)
(* call, whose two ends each module has.  A behaviour is a scenario of the  *)
(* restart (calls outside it are never made, operations outside it never    *)
(* sent) or one of an instance of the coordinator.                          *)
(***************************************************************************)
EXTENDS RuntimeReset, TLC

CONSTANTS c1, c2, d1, d2, d3, r1, r2, r3, r4, o1, k1, k2, n1, n2, NoOne

VARIABLES
    part,  \* the scenario or the instance
    \* MaintenanceCoordinator: its hold and its nodes' interrupts, and the rest
    shut, entry, still,
    status, owner, leased, step, asked, resident, applied, late, nextId, pass, mem, at,
    got, unchecked, faults, held, refused, lapsed

coordinator == <<shut, entry, still, status, owner, leased, step, asked, resident, applied,
        late, nextId, pass, mem, at, got, unchecked, faults, held, refused, lapsed>>

\* The calls of one id play the same part, and so do coordinators and nodes.
Symmetry == Permutations({c1, c2}) \cup Permutations({k1, k2}) \cup Permutations({n1, n2})

\* c1 and c2 are one maintenance reset asked for twice under one id: the retry
\* of a call that timed out, lost its agent or its coordinator.  d1 is a single
\* operation's reset, d2 an operator's stop and d3 a maintenance reset asked for
\* once.
IdUsed == c1 :> r1 @@ c2 :> r1 @@ d1 :> r2 @@ d2 :> r3 @@ d3 :> r4
Kinds ==
    [c \in Calls |-> CASE c = d1 -> "operation" [] c = d2 -> "control" [] OTHER -> "maintenance"]
Targets == [c \in Calls |-> o1]
FirstEntry == [c \in Calls |-> 1]
Requests == [r \in Ids |-> IF r = r3 THEN "stop" ELSE "restart"]

Scenario(calls, ops, askers, alive, deaths, entries) ==
    [calls |-> calls, ops |-> ops, askers |-> askers, births |-> alive, crashes |-> deaths,
     epochs |-> entries]
Scenarios ==
    [named   |-> Scenario({c1, c2}, {}, {}, 2, 0, 1),
     dying   |-> Scenario({c1, c2}, {}, {}, 1, 1, 1),
     mixed   |-> Scenario({d1, d2}, {o1}, {}, 2, 0, 0),
     resumed |-> Scenario({d1}, {o1}, {"watchdog", "resume"}, 2, 0, 1),
     alone   |-> Scenario({d3}, {o1}, {"watchdog"}, 2, 0, 1),
     crashed |-> Scenario({d3}, {o1}, {}, 2, 1, 1),
     spawned |-> Scenario({d1}, {o1}, {}, 3, 0, 0)]

InPart ==
    LET s == Scenarios[part]
    IN /\ births <= s.births /\ crashes <= s.crashes /\ epoch <= s.epochs
       /\ \A c \in Calls \ s.calls : pc[c] = "idle"
       /\ \A o \in Ops \ s.ops : opState[o] = "none"
       /\ \A w \in Asker \ s.askers : quiet[w] = "idle"
       /\ drained => \/ "resume" \in s.askers
                     \/ \E c \in s.calls : pc[c] # "idle" /\ KindOf[c] # "maintenance"

Entry == INSTANCE MaintenanceCoordinator WITH closed <- shut, epoch <- entry, quiet <- still,
    Coordinators <- {k1, k2}, Nodes <- {n1}, NumModels <- 1, MaxAttempts <- 2, SnapshotTries <- 2,
    RepairRounds <- 1, MaxEpoch <- 1, MaxFaults <- 3, Restoring <- FALSE
Entries == INSTANCE MaintenanceCoordinator WITH closed <- shut, epoch <- entry, quiet <- still,
    Coordinators <- {k1, k2}, Nodes <- {n1}, NumModels <- 1, MaxAttempts <- 2, SnapshotTries <- 2,
    RepairRounds <- 1, MaxEpoch <- 2, MaxFaults <- 1, Restoring <- FALSE
Restore == INSTANCE MaintenanceCoordinator WITH closed <- shut, epoch <- entry, quiet <- still,
    Coordinators <- {k1, k2}, Nodes <- {n1}, NumModels <- 1, MaxAttempts <- 2, SnapshotTries <- 2,
    RepairRounds <- 1, MaxEpoch <- 1, MaxFaults <- 2, Restoring <- TRUE
TwoNodes == INSTANCE MaintenanceCoordinator WITH closed <- shut, epoch <- entry, quiet <- still,
    Coordinators <- {k1}, Nodes <- {n1, n2}, NumModels <- 1, MaxAttempts <- 2, SnapshotTries <- 2,
    RepairRounds <- 1, MaxEpoch <- 1, MaxFaults <- 2, Restoring <- TRUE

ASSUME CallAssumption /\ IdAssumption /\ BoundAssumption
ASSUME Entry!BoundAssumption /\ Entries!BoundAssumption
ASSUME Restore!BoundAssumption /\ TwoNodes!BoundAssumption

\* A component outside the part stays as it is.
NoCoordinator ==
    /\ shut = "none" /\ entry = "none" /\ still = "none"
    /\ status = "none" /\ owner = "none" /\ leased = "none" /\ step = "none"
    /\ asked = "none" /\ resident = "none" /\ applied = "none" /\ late = "none"
    /\ nextId = "none" /\ pass = "none" /\ mem = "none" /\ at = "none" /\ got = "none"
    /\ unchecked = "none" /\ faults = "none" /\ held = "none" /\ refused = "none"
    /\ lapsed = "none"

PartInit ==
    /\ Init
    /\ \/ part \in DOMAIN Scenarios /\ NoCoordinator
       \/ part = "entry" /\ Entry!Init
       \/ part = "entries" /\ Entries!Init
       \/ part = "restore" /\ Restore!Init
       \/ part = "nodes" /\ TwoNodes!Init

PartNext ==
    \/ part \in DOMAIN Scenarios /\ Next /\ UNCHANGED <<part, coordinator>> /\ InPart'
    \/ part = "entry" /\ Entry!Next /\ UNCHANGED <<part, vars>>
    \/ part = "entries" /\ Entries!Next /\ UNCHANGED <<part, vars>>
    \/ part = "restore" /\ Restore!Next /\ UNCHANGED <<part, vars>>
    \/ part = "nodes" /\ TwoNodes!Next /\ UNCHANGED <<part, vars>>

PartSpec == PartInit /\ [][PartNext]_<<part, vars, coordinator>>

\* An entry empties every runtime, from the snapshot it was found with, and
\* restarts each once: EntryReleased, SnapshotIsOriginal and RestartedOnce of
\* MaintenanceCoordinator.  Where a restart runs, what RuntimeReset's own
\* invariants are inductive with holds: TypeOK, OnceInv and GoneInv.
EntryKept ==
    /\ part \in DOMAIN Scenarios => TypeOK /\ OnceInv /\ GoneInv
    /\ part = "entry" =>
         Entry!TypeOK /\ Entry!EntryReleased /\ Entry!SnapshotIsOriginal /\ Entry!RestartedOnce
    /\ part = "entries" =>
         /\ Entries!TypeOK /\ Entries!EntryReleased
         /\ Entries!SnapshotIsOriginal /\ Entries!RestartedOnce

\* A restore that succeeds reopens a platform that is whole:
\* MaintenanceCoordinator's RestoreWhole, with two coordinators and two nodes.
RestoreWhole ==
    [][/\ part = "restore" => Restore!RestoreWhole
       /\ part = "nodes" => TwoNodes!RestoreWhole]_<<part, vars, coordinator>>
==============================================================================
