----------------------------- MODULE MCResidency -----------------------------
(***************************************************************************)
(* The models of one node and the registry the gateway routes by: Residency,*)
(* Catalogue and WeightPins.  They meet in the models table: Residency has  *)
(* the columns the lifecycle and the reconciler write, Catalogue those an   *)
(* administrator does, WeightPins the pin and what was measured of it.  A   *)
(* behaviour is one of an instance of one of them.                          *)
(***************************************************************************)
EXTENDS Integers, FiniteSets

CONSTANTS None, adm1, adm2, hb1

VARIABLES
    part,  \* the instance a behaviour is one of
    \* Residency
    row, disk, resident, load, unld, pull, probe, lock, rec, evidence, backoff, intents,
    node, spent, ghost,
    \* Catalogue (with node)
    model, policy, unused, unresolved, up, admin, sweep, gauge,
    \* WeightPins (with disk, row)
    pin, validated, gate, handler, space, made, op, call, capacity, late, ran, rewrites

all == <<part, row, disk, resident, load, unld, pull, probe, lock, rec, evidence, backoff,
        intents, node, spent, ghost, model, policy, unused, unresolved, up, admin, sweep,
        gauge, pin, validated, gate, handler, space, made, op, call, capacity, late, ran,
        rewrites>>

\* The pass of a reconciler whose runtime evicts, fails and is looked at late.
Troubles == {"evict", "loadFails", "unloadFails", "restart", "probeFails", "gap", "stale", "hold",
             "blocked", "commit"}
Even == [m \in 1..2 |-> 1]
Uneven == [m \in 1..2 |-> m]

Row(kinds, agent, status) == [runtimes |-> kinds, mem |-> 1, agent |-> agent, status |-> status]

Model(alias, kind, n, state, obs) ==
    [alias |-> alias, kind |-> kind, node |-> n, state |-> state, mem |-> 1, obs |-> obs,
     fresh |-> obs # None, desired |-> FALSE]

Anything == [states |-> {}, statuses |-> {}, memory |-> FALSE]
Loaded == [states |-> {"loaded"}, statuses |-> {}, memory |-> FALSE]
Healthy == [states |-> {}, statuses |-> {"online"}, memory |-> FALSE]
Roomy == [states |-> {}, statuses |-> {}, memory |-> TRUE]
AnyRequirement == {Anything, Loaded, Healthy, Roomy}

\* An empty installation: one node, nothing registered.
Fresh(nodes, models, agents) ==
    [node |-> [n \in nodes |-> IF n = "n1" THEN Row({"ollama"}, agents, "online") ELSE None],
     model |-> [m \in models |-> None],
     policy |-> [cap \in {"chat"} |-> None]]

\* One node and one downloaded model, no policy.
OneModel(nodes, models) ==
    [Fresh(nodes, models, TRUE) EXCEPT !.model["m1"] = Model("a", "ollama", "n1", "downloaded", None)]

\* A model on each of two nodes, of either kind, and every policy over them:
\* the nodes with and without an agent, online or not.
Routed ==
    LET kinds == {"ollama", "mlx"}
        rows == {Row(kinds, TRUE, "online"), Row(kinds, TRUE, "offline"), Row(kinds, FALSE, "online")}
    IN  {[node |-> [n \in {"n1", "n2"} |-> IF n = "n1" THEN r1 ELSE r2],
          model |-> [m \in {"m1", "m2"} |->
                       IF m = "m1" THEN Model("a", "ollama", "n1", "loaded", "loaded")
                                   ELSE Model("b", kind, "n2", "loaded", None)],
          policy |-> [cap \in {"chat"} |-> cs]] :
            r1, r2 \in rows, kind \in kinds,
            cs \in {<<[alias |-> "a", priority |-> p, require |-> q],
                      [alias |-> "b", priority |-> 1, require |-> w]>> :
                      p \in {0, 2}, q \in AnyRequirement, w \in {Anything, Loaded}}}

Pass == INSTANCE Residency WITH Models <- 1..2, Size <- Uneven, Budget <- 3,
    AbsenceFrees <- TRUE, WantedFirst <- {1, 2}, Operator <- {"intent"},
    Trouble <- Troubles, GiveUpAfter <- 2, MaxRepairRounds <- 1, MaxOps <- 1, MaxFaults <- 1
Wasted == INSTANCE Residency WITH Models <- 1..2, Size <- Uneven, Budget <- 3,
    AbsenceFrees <- TRUE, WantedFirst <- {1, 2}, Operator <- {},
    Trouble <- {"loadFails", "evict"}, GiveUpAfter <- 2, MaxRepairRounds <- 1, MaxOps <- 0,
    MaxFaults <- 3
Shared == INSTANCE Residency WITH Models <- 1..2, Size <- Even, Budget <- 1,
    AbsenceFrees <- TRUE, WantedFirst <- {2}, Operator <- {"load", "unload"},
    Trouble <- {"loadFails", "unloadFails", "restart", "commit", "crash"}, GiveUpAfter <- 2, MaxRepairRounds <- 1,
    MaxOps <- 2, MaxFaults <- 1
Tasks == INSTANCE Residency WITH Models <- 1..2, Size <- Even, Budget <- 2,
    AbsenceFrees <- TRUE, WantedFirst <- {}, Operator <- {"load", "unload", "download"},
    Trouble <- {"loadFails", "unloadFails", "pullFails", "crash", "commit", "online"},
    GiveUpAfter <- 2, MaxRepairRounds <- 1, MaxOps <- 2, MaxFaults <- 1
Rehearsed == INSTANCE Catalogue WITH Nodes <- {"n1", "n2"}, Models <- {"m1", "m2"},
    Aliases <- {"a", "b"}, Kinds <- {"ollama", "mlx"}, Capabilities <- {"chat"},
    AgentsEnabled <- TRUE, LocalNode <- "n1", Catalogues <- Routed, Admins <- {},
    Sweepers <- {}, Ops <- {"observe", "unresolve", "unpolicy"},
    Requirements <- AnyRequirement, Priorities <- {0, 1, 2}, MaxCandidates <- 2,
    Memories <- {1}
Beaten == INSTANCE Catalogue WITH Nodes <- {"n1"}, Models <- {"m1"}, Aliases <- {"a"},
    Kinds <- {"ollama", "mlx"}, Capabilities <- {"chat"}, AgentsEnabled <- FALSE,
    LocalNode <- "n1", Catalogues <- {Fresh({"n1"}, {"m1"}, FALSE)}, Admins <- {adm1},
    Sweepers <- {hb1}, Ops <- {"node", "check", "sweep", "health", "provision"},
    Requirements <- {Anything}, Priorities <- {1}, MaxCandidates <- 1, Memories <- {1}
Registry == INSTANCE Catalogue WITH Nodes <- {"n1", "n2"}, Models <- {"m1", "m2"},
    Aliases <- {"a", "b"}, Kinds <- {"ollama"}, Capabilities <- {"chat"},
    AgentsEnabled <- TRUE, LocalNode <- "n1",
    Catalogues <- {OneModel({"n1", "n2"}, {"m1", "m2"})}, Admins <- {adm1, adm2},
    Sweepers <- {}, Ops <- {"register", "update", "delete", "desire", "undeclare", "node"},
    Requirements <- {Anything}, Priorities <- {1}, MaxCandidates <- 1, Memories <- {1}
Pinned == INSTANCE WeightPins WITH Weights <- {"w1", "w2"}, Declares <- {"w1"},
    Unpinned <- None, Requests <- {"q"}, Documents <- {"d"}, MaxBatches <- 2,
    Pulls <- {"p"}, Repins <- {"r"}, Loads <- {}, Faults <- {}, MaxRewrites <- 0
Broken == INSTANCE WeightPins WITH Weights <- {"w1", "w2"}, Declares <- {"w1"},
    Unpinned <- None, Requests <- {"q"}, Documents <- {}, MaxBatches <- 2, Pulls <- {"p"},
    Repins <- {"r"}, Loads <- {}, Faults <- {"read", "write", "crash", "uncertain"},
    MaxRewrites <- 0
Rewritten == INSTANCE WeightPins WITH Weights <- {"w1", "w2"}, Declares <- {"w1"},
    Unpinned <- None, Requests <- {}, Documents <- {}, MaxBatches <- 2, Pulls <- {"p"},
    Repins <- {"r"}, Loads <- {"l"}, Faults <- {"read"}, MaxRewrites <- 1

ASSUME Pass!ResidencyAssumption /\ Wasted!ResidencyAssumption /\ Shared!ResidencyAssumption /\ Tasks!ResidencyAssumption
ASSUME Rehearsed!CatalogueAssumption /\ Beaten!CatalogueAssumption /\ Registry!CatalogueAssumption
ASSUME Pinned!WeightPinsAssumption /\ Broken!WeightPinsAssumption /\ Rewritten!WeightPinsAssumption

\* A component outside the part has no state, and nothing of it moves.
BesideResidency == <<model, policy, unused, unresolved, up, admin, sweep, gauge, pin,
        validated, gate, handler, space, made, op, call, capacity, late, ran, rewrites>>
OnlyResidency ==
    /\ model = "none" /\ policy = "none" /\ unused = "none" /\ unresolved = "none"
    /\ up = "none" /\ admin = "none" /\ sweep = "none" /\ gauge = "none" /\ pin = "none"
    /\ validated = "none" /\ gate = "none" /\ handler = "none" /\ space = "none"
    /\ made = "none" /\ op = "none" /\ call = "none" /\ capacity = "none" /\ late = "none"
    /\ ran = "none" /\ rewrites = "none"
BesideCatalogue == <<row, disk, resident, load, unld, pull, probe, lock, rec, evidence,
        backoff, intents, spent, ghost, pin, validated, gate, handler, space, made, op,
        call, capacity, late, ran, rewrites>>
OnlyCatalogue ==
    /\ row = "none" /\ disk = "none" /\ resident = "none" /\ load = "none" /\ unld = "none"
    /\ pull = "none" /\ probe = "none" /\ lock = "none" /\ rec = "none" /\ evidence = "none"
    /\ backoff = "none" /\ intents = "none" /\ spent = "none" /\ ghost = "none"
    /\ pin = "none" /\ validated = "none" /\ gate = "none" /\ handler = "none"
    /\ space = "none" /\ made = "none" /\ op = "none" /\ call = "none" /\ capacity = "none"
    /\ late = "none" /\ ran = "none" /\ rewrites = "none"
BesideWeightPins == <<resident, load, unld, pull, probe, lock, rec, evidence, backoff,
        intents, node, spent, ghost, model, policy, unused, unresolved, up, admin, sweep,
        gauge>>
OnlyWeightPins ==
    /\ resident = "none" /\ load = "none" /\ unld = "none" /\ pull = "none"
    /\ probe = "none" /\ lock = "none" /\ rec = "none" /\ evidence = "none"
    /\ backoff = "none" /\ intents = "none" /\ node = "none" /\ spent = "none"
    /\ ghost = "none" /\ model = "none" /\ policy = "none" /\ unused = "none"
    /\ unresolved = "none" /\ up = "none" /\ admin = "none" /\ sweep = "none"
    /\ gauge = "none"

Init ==
    \/ part = "pass" /\ Pass!Init /\ OnlyResidency
    \/ part = "wasted" /\ Wasted!Init /\ OnlyResidency
    \/ part = "budget" /\ Shared!Init /\ OnlyResidency
    \/ part = "tasks" /\ Tasks!Init /\ OnlyResidency
    \/ part = "rehearsal" /\ Rehearsed!Init /\ OnlyCatalogue
    \/ part = "nodes" /\ Beaten!Init /\ OnlyCatalogue
    \/ part = "registry" /\ Registry!Init /\ OnlyCatalogue
    \/ part = "pins" /\ Pinned!Init /\ OnlyWeightPins
    \/ part = "broken" /\ Broken!Init /\ OnlyWeightPins
    \/ part = "capacity" /\ Rewritten!Init /\ OnlyWeightPins

Next ==
    \/ part = "pass" /\ Pass!Next /\ UNCHANGED <<part, BesideResidency>>
    \/ part = "wasted" /\ Wasted!Next /\ UNCHANGED <<part, BesideResidency>>
    \/ part = "budget" /\ Shared!Next /\ UNCHANGED <<part, BesideResidency>>
    \/ part = "tasks" /\ Tasks!Next /\ UNCHANGED <<part, BesideResidency>>
    \/ part = "rehearsal" /\ Rehearsed!Next /\ UNCHANGED <<part, BesideCatalogue>>
    \/ part = "nodes" /\ Beaten!Next /\ UNCHANGED <<part, BesideCatalogue>>
    \/ part = "registry" /\ Registry!Next /\ UNCHANGED <<part, BesideCatalogue>>
    \/ part = "pins" /\ Pinned!Next /\ UNCHANGED <<part, BesideWeightPins>>
    \/ part = "broken" /\ Broken!Next /\ UNCHANGED <<part, BesideWeightPins>>
    \/ part = "capacity" /\ Rewritten!Next /\ UNCHANGED <<part, BesideWeightPins>>

Spec == Init /\ [][Next]_all

\* A pass honours a wish withdrawn under its load, sets out only on two answers
\* and stops for good after the configured number of wasted loads: WithdrawnGoes,
\* TwiceAbsent and GivesUp of Residency.
PassHonest ==
    /\ part = "pass" => Pass!TypeOK /\ Pass!WithdrawnGoes /\ Pass!TwiceAbsent
    /\ part = "wasted" => Wasted!GivesUp

\* Loads of operators and of the reconciler stay within the node's memory, but for
\* models the budget stopped counting, and every transient state has the task that
\* will end it, unless the process died or the write that ends it was refused:
\* RegisteredFits and TransientOwned of Residency.
LoadsAccounted ==
    /\ part = "budget" => Shared!RegisteredFits
    /\ part = "tasks" => Tasks!TransientOwned

\* The availability rehearsal says what a request would meet: Catalogue's
\* RehearsalHonest, for every policy over two models and two nodes.
RehearsalHonest == part = "rehearsal" => Rehearsed!TypeOK /\ Rehearsed!RehearsalHonest

\* No heartbeat undoes an administrator's edit of a node and no edit of a model
\* a residency intent: ConfigurationKept and IntentKept of Catalogue.
EditsKept ==
    [][/\ part = "nodes" => Beaten!TypeOK' /\ Beaten!ConfigurationKept
       /\ part = "registry" => Registry!TypeOK' /\ Registry!IntentKept]_all

\* What runs is what its prompt was counted against and what the registry pins,
\* whatever is pulled, re-pinned or rewritten beside it: RunsAsCounted, OneSpace,
\* ServesPinned, PinNamesServed and CapacityOfPinned of WeightPins.
WeightsPinned ==
    [][/\ part = "pins" => /\ Pinned!RunsAsCounted' /\ Pinned!OneSpace' /\ Pinned!ServesPinned'
                           /\ Pinned!PinNamesServed
       /\ part = "broken" => Broken!TypeOK' /\ Broken!RunsAsCounted' /\ Broken!PinNamesServed
       /\ part = "capacity" => Rewritten!PinNamesServed /\ Rewritten!CapacityOfPinned]_all
==============================================================================
