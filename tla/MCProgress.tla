----------------------------- MODULE MCProgress -----------------------------
(***************************************************************************)
(* What must eventually happen, in every component that promises it, under  *)
(* the fairness its own scheduling gives.  A behaviour is one of an instance *)
(* of one component; its variables are x1, x2, ... in the order the          *)
(* component's module declares them, and the others stay "none".            *)
(***************************************************************************)
EXTENDS Integers, FiniteSets

CONSTANTS None, NoRun, Absent

VARIABLES part, x1, x2, x3, x4, x5, x6, x7, x8, x9, x10, x11, x12, x13, x14, x15, x16, x17,
    x18, x19, x20, x21, x22, x23, x24, x25, x26, x27, x28

After22 == <<x23, x24, x25, x26, x27, x28>>
After21 == <<x22, After22>>
After15 == <<x16, x17, x18, x19, x20, x21, After21>>
After14 == <<x15, After15>>
After13 == <<x14, After14>>
After12 == <<x13, After13>>
After9 == <<x10, x11, x12, After12>>
After8 == <<x9, After9>>
After7 == <<x8, After8>>
all == <<part, x1, x2, x3, x4, x5, x6, x7, After7>>

Idle22 == x23 = "none" /\ x24 = "none" /\ x25 = "none" /\ x26 = "none" /\ x27 = "none"
    /\ x28 = "none"
Idle21 == x22 = "none" /\ Idle22
Idle15 == x16 = "none" /\ x17 = "none" /\ x18 = "none" /\ x19 = "none" /\ x20 = "none"
    /\ x21 = "none" /\ Idle21
Idle14 == x15 = "none" /\ Idle15
Idle13 == x14 = "none" /\ Idle14
Idle12 == x13 = "none" /\ Idle13
Idle9 == x10 = "none" /\ x11 = "none" /\ x12 = "none" /\ Idle12
Idle8 == x9 = "none" /\ Idle9
Idle7 == x8 = "none" /\ Idle8

\* Two conversations, one of them with three tokens to what looks like one.
Message(c, i, kind, tokens, est) ==
    [id |-> <<c, i>>, kind |-> kind, lines |-> <<<<c, i>>>>, tokens |-> tokens, est |-> est,
     floor |-> 1, bytes |-> tokens]
Mixed == [c \in {"a", "b"} |->
            IF c = "a" THEN [i \in 1..6 |-> IF i % 4 = 2 THEN Message(c, i, "tool", 3, 3)
                                                         ELSE Message(c, i, "user", 2, 2)]
            ELSE [i \in 1..4 |-> Message(c, i, IF i % 2 = 0 THEN "tool" ELSE "user", 3, 1)]]
Tool(name, tokens) == [name |-> name, tokens |-> tokens, est |-> tokens, floor |-> 0, bytes |-> tokens]
TwoTools == <<Tool("search", 1), Tool("read", 2), Tool("search", 2)>>

\* One node, with or without an agent, and a downloaded model on it.
Anything == [states |-> {}, statuses |-> {}, memory |-> FALSE]
Fresh == [node |-> [n \in {"n1"} |-> [runtimes |-> {"ollama"}, mem |-> 1, agent |-> FALSE, status |-> "online"]],
          model |-> [m \in {"m1"} |-> None], policy |-> [cap \in {"chat"} |-> None]]
OneModel ==
    [node |-> [n \in {"n1"} |-> [runtimes |-> {"ollama"}, mem |-> 1, agent |-> TRUE, status |-> "online"]],
     model |-> [m \in {"m1", "m2"} |->
                  IF m = "m2" THEN None
                  ELSE [alias |-> "a", kind |-> "ollama", node |-> "n1", state |-> "downloaded",
                        mem |-> 1, obs |-> None, fresh |-> FALSE, desired |-> FALSE]],
     policy |-> [cap \in {"chat"} |-> None]]

Agent == INSTANCE NodeAgent WITH Agents <- {"a1"}, Ops <- {"o1", "l1"},
    LifecycleOps <- {"l1"}, RestoreOps <- {}, SummaryOps <- {},
    KernelOf <- [p \in {"a1"} |-> "k1"], DomainOf <- [p \in {"a1"} |-> "d1"],
    NoAgent <- "no agent", NoOp <- "no op", MaxInflight <- 1, MaxQueued <- 1,
    MaxGeneration <- 2, MaxEpoch <- 0, DbFaults <- FALSE, MaxInstance <- 2,
    generation <- x1, owner <- x2, session <- x3, opState <- x4, opGen <- x5, closed <- x6,
    epoch <- x7, myGen <- x8, gate <- x9, frozenAt <- x10, exclusive <- x11,
    restoring <- x12, operatorHold <- x13, stopping <- x14, uncommitted <- x15,
    task <- x16, tick <- x17, baseline <- x18, instance <- x19, executing <- x20,
    delivered <- x21, quietAt <- x22
Drain == INSTANCE NodeAgent WITH Agents <- {"a1"}, Ops <- {"o1", "l1"},
    LifecycleOps <- {"l1"}, RestoreOps <- {}, SummaryOps <- {},
    KernelOf <- [p \in {"a1"} |-> "k1"], DomainOf <- [p \in {"a1"} |-> "d1"],
    NoAgent <- "no agent", NoOp <- "no op", MaxInflight <- 1, MaxQueued <- 1,
    MaxGeneration <- 2, MaxEpoch <- 0, DbFaults <- TRUE, MaxInstance <- 1,
    generation <- x1, owner <- x2, session <- x3, opState <- x4, opGen <- x5, closed <- x6,
    epoch <- x7, myGen <- x8, gate <- x9, frozenAt <- x10, exclusive <- x11,
    restoring <- x12, operatorHold <- x13, stopping <- x14, uncommitted <- x15,
    task <- x16, tick <- x17, baseline <- x18, instance <- x19, executing <- x20,
    delivered <- x21, quietAt <- x22
Coordinator == INSTANCE MaintenanceCoordinator WITH Coordinators <- {"c1", "c2"},
    Nodes <- {"n1"}, NumModels <- 1, NoOne <- "no one", MaxAttempts <- 2,
    SnapshotTries <- 2, RepairRounds <- 1, MaxEpoch <- 1, MaxFaults <- 1,
    Restoring <- TRUE, closed <- x1, epoch <- x2, status <- x3, owner <- x4, leased <- x5,
    step <- x6, asked <- x7, resident <- x8, quiet <- x9, applied <- x10, late <- x11,
    nextId <- x12, pass <- x13, mem <- x14, at <- x15, got <- x16, unchecked <- x17,
    faults <- x18, held <- x19, refused <- x20, lapsed <- x21
Reset == INSTANCE RuntimeReset WITH Calls <- {"c1", "c2"}, Ids <- {"r1", "r2"},
    Ops <- {"o1"}, IdOf <- [c \in {"c1", "c2"} |-> IF c = "c1" THEN "r1" ELSE "r2"],
    KindOf <- [c \in {"c1", "c2"} |-> "control"],
    TargetOf <- [c \in {"c1", "c2"} |-> "o1"], EpochOf <- [c \in {"c1", "c2"} |-> 1],
    ActionOf <- [r \in {"r1", "r2"} |-> IF r = "r1" THEN "start" ELSE "malformed"],
    Asker <- {}, NoId <- "no id", MaxBirths <- 2, MaxCrashes <- 1, MaxEpoch <- 0,
    filed <- x1, claimed <- x2, receipt <- x3, spc <- x4, batch <- x5, cur <- x6,
    before <- x7, result <- x8, ran <- x9, crashes <- x10, loaded <- x11, daemon <- x12,
    procs <- x13, births <- x14, incarnation <- x15, closed <- x16, epoch <- x17,
    frozenAt <- x18, drained <- x19, quiet <- x20, opState <- x21, carriers <- x22,
    baseline <- x23, cohort <- x24, done <- x25, pc <- x26, seen <- x27, sure <- x28
Admission == INSTANCE ChatAdmission WITH Requests <- {"r1", "r2"}, Script <- Mixed,
    Tools <- TwoTools, Runtimes <- {"ollama", "mlx"}, Window <- 24, Registered <- 24,
    Output <- 2, MaxContext <- 20, MaxPayload <- 60,
    Slots <- 1, QueueWait <- TRUE, RECENT_MESSAGE_WINDOW <- 2, KEEP_RECENT <- 1,
    PREFIX_STEP <- 4, SummarySize <- 1, Tolerance <- 2, Exact <- {TRUE, FALSE},
    Disturbed <- {"target", "capacity", "validated", "cache"}, MaxTurns <- 2, len <- x1, req <- x2,
    waiting <- x3, cache <- x4, summary <- x5, servable_now <- x6, turns <- x7, paid <- x8
Stream == INSTANCE ChatStream WITH MaxChunks <- 1, EventBuffer <- 1, WireSize <- 1,
    Ceiling <- 1, DrainLimit <- 1, Vias <- {"agent"}, Consumers <- {"chat"}, via <- x1,
    made <- x2, rt <- x3, attempt <- x4, op <- x5, sender <- x6, conn <- x7, wire <- x8,
    dec <- x9, gen <- x10, con <- x11, out <- x12, client <- x13
Documents == INSTANCE KnowledgeBase WITH Docs <- {"d1"}, Tasks <- {"t1", "t2"},
    Readers <- {}, Identities <- {"i1"}, Legacy <- {},
    Kinds <- {"upload", "reindex", "delete"}, Faults <- {"crash", "vectors", "commit", "deploy"},
    MaxEpoch <- 5, row <- x1, stored <- x2, points <- x3, fence <- x4, coll <- x5,
    serving <- x6, task <- x7, late <- x8, up <- x9, rebuild <- x10, reader <- x11,
    records <- x12, suspect <- x13, stranded <- x14
Backup == INSTANCE HostBackup WITH Runs <- {"nightly"}, Overlap <- FALSE, Docs <- {},
    KeepDaily <- 4, WarnDays <- 1, FailDays <- 2,
    Faults <- {"fails", "cut", "power", "term"}, MaxDay <- 2, MaxRuns <- 3, day <- x1,
    due <- x2, runs <- x3, run <- x4, state <- x5, repo <- x6, doc <- x7
Boot == INSTANCE HostRepair WITH Services <- {"db", "gateway", "admin"},
    Published <- {"gateway", "admin"}, Enforcing <- {}, Deadline <- 5, ReadBack <- 2,
    Settled <- 3, Faults <- {"unrestored"}, MaxVersion <- 0, address <- x1, docker <- x2,
    restoring <- x3, running <- x4, bound <- x5, rec <- x6, clock <- x7, lost <- x8,
    upstream <- x9, database <- x10, loaded <- x11, refresh <- x12, owed <- x13
Residents == INSTANCE Residency WITH Models <- 1..2, Size <- [m \in 1..2 |-> m],
    Budget <- 3, AbsenceFrees <- TRUE, WantedFirst <- {1, 2}, Operator <- {"intent"},
    Trouble <- {"evict", "loadFails", "restart", "probeFails", "stale", "hold", "online"},
    GiveUpAfter <- 2, MaxRepairRounds <- 1, MaxOps <- 0, MaxFaults <- 1, row <- x1,
    disk <- x2, resident <- x3, load <- x4, unld <- x5, pull <- x6, probe <- x7,
    lock <- x8, rec <- x9, evidence <- x10, backoff <- x11, intents <- x12, node <- x13,
    spent <- x14, ghost <- x15
Outages == INSTANCE Catalogue WITH Nodes <- {"n1"}, Models <- {"m1", "m2"},
    Aliases <- {"a", "b"}, Kinds <- {"ollama"}, Capabilities <- {"chat"},
    AgentsEnabled <- TRUE, LocalNode <- "n1", Catalogues <- {OneModel}, Admins <- {"adm"},
    Sweepers <- {},
    Ops <- {"publish", "observe", "policy", "unpolicy", "unresolve", "lifecycle"},
    Requirements <- {Anything}, Priorities <- {1, 2}, MaxCandidates <- 1, Memories <- {1},
    node <- x1, model <- x2, policy <- x3, unused <- x4, unresolved <- x5, up <- x6,
    admin <- x7, sweep <- x8, gauge <- x9
Heartbeats == INSTANCE Catalogue WITH Nodes <- {"n1"}, Models <- {"m1"}, Aliases <- {"a"},
    Kinds <- {"ollama", "mlx"}, Capabilities <- {"chat"}, AgentsEnabled <- FALSE,
    LocalNode <- "n1", Catalogues <- {Fresh}, Admins <- {"adm"}, Sweepers <- {"hb1"},
    Ops <- {"node", "sweep", "health"}, Requirements <- {Anything}, Priorities <- {1},
    MaxCandidates <- 1, Memories <- {1}, node <- x1, model <- x2, policy <- x3,
    unused <- x4, unresolved <- x5, up <- x6, admin <- x7, sweep <- x8, gauge <- x9
Mails == INSTANCE HostWatch WITH Services <- {"s1"}, Alerts <- {"unavailable"},
    Expected <- {"unavailable"}, Happenings <- {"docker", "alert", "maintenance", "smtp"},
    MaxRestarts <- 0, late <- x1, grace <- x2, world <- x3, path <- x4, file <- x5,
    pass <- x6, mailbox <- x7, past <- x8

ASSUME Coordinator!BoundAssumption
ASSUME Reset!CallAssumption /\ Reset!BoundAssumption
ASSUME Admission!ChatAdmissionAssumption
ASSUME Documents!KnowledgeBaseAssumption
ASSUME Backup!HostBackupAssumption
ASSUME Boot!HostRepairAssumption
ASSUME Residents!ResidencyAssumption
ASSUME Outages!CatalogueAssumption
ASSUME Heartbeats!CatalogueAssumption
ASSUME Mails!HostWatchAssumption

Init ==
    \/ part = "agent" /\ Agent!Init /\ Idle22
    \/ part = "drain" /\ Drain!Init /\ Idle22
    \/ part = "coordinator" /\ Coordinator!Init /\ Idle21
    \/ part = "reset" /\ Reset!Init
    \/ part = "admission" /\ Admission!Init /\ Idle8
    \/ part = "stream" /\ Stream!Init /\ Idle13
    \/ part = "documents" /\ Documents!Init /\ Idle14
    \/ part = "backup" /\ Backup!Init /\ Idle7
    \/ part = "boot" /\ Boot!Init /\ Idle13
    \/ part = "residency" /\ Residents!Init /\ Idle15
    \/ part = "outages" /\ Outages!Init /\ Idle9
    \/ part = "heartbeats" /\ Heartbeats!Init /\ Idle9
    \/ part = "mails" /\ Mails!Init /\ Idle8

Next ==
    \/ part = "agent" /\ Agent!Next /\ UNCHANGED <<part, After22>>
    \/ part = "drain" /\ Drain!Next /\ UNCHANGED <<part, After22>>
    \/ part = "coordinator" /\ Coordinator!Next /\ UNCHANGED <<part, After21>>
    \/ part = "reset" /\ Reset!Next /\ UNCHANGED part
    \/ part = "admission" /\ Admission!Next /\ UNCHANGED <<part, After8>>
    \/ part = "stream" /\ Stream!Next /\ UNCHANGED <<part, After13>>
    \/ part = "documents" /\ Documents!Next /\ UNCHANGED <<part, After14>>
    \/ part = "backup" /\ Backup!Next /\ UNCHANGED <<part, After7>>
    \/ part = "boot" /\ Boot!Next /\ UNCHANGED <<part, After13>>
    \/ part = "residency" /\ Residents!Next /\ UNCHANGED <<part, After15>>
    \/ part = "outages" /\ Outages!Next /\ UNCHANGED <<part, After9>>
    \/ part = "heartbeats" /\ Heartbeats!Next /\ UNCHANGED <<part, After9>>
    \/ part = "mails" /\ Mails!Next /\ UNCHANGED <<part, After8>>

\* The event loop runs what is ready, a relay ends (answer, error or timeout), a
\* database call that keeps being retried succeeds, the watchdog ticks, the container is
\* restarted and PostgreSQL notices a dead session.
AgentTurn(k) == \/ k = 1 /\ Agent!OpenGate("a1")
                \/ k = 2 /\ Agent!WatchLost("a1")
                \/ k = 3 /\ Agent!Exit("a1")
                \/ k = 4 /\ Agent!RecheckDrain("a1")
                \/ k = 5 /\ Agent!OwnStep("a1", "o1")
                \/ k = 6 /\ Agent!OwnStep("a1", "l1")
                \/ k = 7 /\ Agent!Claim("a1")
                \/ k = 8 /\ Agent!DeadSessionEnds
DrainTurn(k) == \/ k = 1 /\ Drain!OpenGate("a1")
                \/ k = 2 /\ Drain!WatchLost("a1")
                \/ k = 3 /\ Drain!Exit("a1")
                \/ k = 4 /\ Drain!RecheckDrain("a1")
                \/ k = 5 /\ Drain!OwnStep("a1", "o1")
                \/ k = 6 /\ Drain!OwnStep("a1", "l1")
                \/ k = 7 /\ Drain!Claim("a1")
                \/ k = 8 /\ Drain!DeadSessionEnds
\* The coordinator polls and the loop runs on; the lease of a dead one runs out.
CoordinatorTurn(k) == \/ k = 1 /\ Coordinator!Pass("c1")
                      \/ k = 2 /\ Coordinator!Pass("c2")
                      \/ k = 3 /\ Coordinator!Node("c1", "n1")
                      \/ k = 4 /\ Coordinator!Node("c2", "n1")
                      \/ k = 5 /\ Coordinator!DeadLeaseExpires(<<"enter", 1>>)
                      \/ k = 6 /\ Coordinator!DeadLeaseExpires(<<"restore", 1>>)
\* Launchd keeps the supervisor running; its waits have deadlines of their own.
ResetTurn(k) == k = 1 /\ Reset!Supervise
\* The semaphore is first come first served, and a summary and a generation are bounded
\* by their deadlines.
AdmissionTurn(k) == \/ k = 1 /\ Admission!Serve("r1")
                    \/ k = 2 /\ Admission!Serve("r2")
\* The agent's event loop and the server's run, a client that stays connected keeps
\* reading; nothing is assumed of the runtime, and no timeout is counted on.
StreamTurn(k) == \/ k = 1 /\ Stream!Agent
                 \/ k = 2 /\ Stream!Client
                 \/ k = 3 /\ Stream!TearDown
                 \/ k = 4 /\ Stream!CloseDropped
\* Detached tasks are held on to, and a stopped gateway is started again; a deploy is owed by
\* nobody.
DocumentsTurn(k) == \/ k = 1 /\ Documents!Restart
                    \/ k = 2 /\ Documents!Operator
                    \/ k = 3 /\ Documents!Ingestion("t1")
                    \/ k = 4 /\ Documents!Ingestion("t2")
\* Launchd fires what is due, the shell goes on, the watchdog's clock runs and every
\* command returns.
BackupTurn(k) == \/ k = 1 /\ Backup!Fire
                 \/ k = 2 /\ Backup!on_exit("nightly")
                 \/ k = 3 /\ Backup!Watchdog("nightly")
                 \/ k = 4 /\ Backup!Command("nightly")
\* Launchd runs the reconciler, colima and tailscaled come up, docker restores what it
\* is going to.
BootTurn(k) == \/ k = 1 /\ Boot!Reconcile
               \/ k = 2 /\ Boot!AddressUp
               \/ k = 3 /\ Boot!DockerUp
               \/ k = 4 /\ Boot!Restore("db")
               \/ k = 5 /\ Boot!Restore("gateway")
               \/ k = 6 /\ Boot!Restore("admin")
\* The loops of the admin process run on, a request that was sent is answered, and
\* time passes; operators and faults owe nothing.
ResidentsTurn(k) == \/ k = 1 /\ Residents!Loop
                    \/ k = 2 /\ Residents!BackoffExpires
                    \/ k = 3 /\ Residents!Loading("reconciler")
                    \/ k = 4 /\ Residents!Loading("operator")
                    \/ k = 5 /\ Residents!Unloading("reconciler")
                    \/ k = 6 /\ Residents!Unloading("operator")
                    \/ k = 7 /\ Residents!Downloading(1)
                    \/ k = 8 /\ Residents!Downloading(2)
                    \/ k = 9 /\ Residents!Probing("heartbeat")
                    \/ k = 10 /\ Residents!Probing("reconciler")
\* A request in hand ends, the availability loop and the heartbeats run on.
OutagesTurn(k) == \/ k = 1 /\ Outages!Publish
                  \/ k = 2 /\ Outages!Commit("adm")
HeartbeatsTurn(k) == \/ k = 1 /\ Heartbeats!Commit("adm")
                     \/ k = 2 /\ Heartbeats!Heartbeat("hb1")
\* Launchd runs a pass every five minutes, every command of it has a deadline, the grace
\* ends, days go by, and passes begin after DIGEST_HOUR on days without end.
MailsTurn(k) == \/ k = 1 /\ Mails!Step
                \/ k = 2 /\ Mails!GraceOver
                \/ k = 3 /\ Mails!Morning
                \/ k = 4 /\ Mails!Midnight

Turn(k) ==
    \/ part = "agent" /\ AgentTurn(k) /\ UNCHANGED <<part, After22>>
    \/ part = "drain" /\ DrainTurn(k) /\ UNCHANGED <<part, After22>>
    \/ part = "coordinator" /\ CoordinatorTurn(k) /\ UNCHANGED <<part, After21>>
    \/ part = "reset" /\ ResetTurn(k) /\ UNCHANGED part
    \/ part = "admission" /\ AdmissionTurn(k) /\ UNCHANGED <<part, After8>>
    \/ part = "stream" /\ StreamTurn(k) /\ UNCHANGED <<part, After13>>
    \/ part = "documents" /\ DocumentsTurn(k) /\ UNCHANGED <<part, After14>>
    \/ part = "backup" /\ BackupTurn(k) /\ UNCHANGED <<part, After7>>
    \/ part = "boot" /\ BootTurn(k) /\ UNCHANGED <<part, After13>>
    \/ part = "residency" /\ ResidentsTurn(k) /\ UNCHANGED <<part, After15>>
    \/ part = "outages" /\ OutagesTurn(k) /\ UNCHANGED <<part, After9>>
    \/ part = "heartbeats" /\ HeartbeatsTurn(k) /\ UNCHANGED <<part, After9>>
    \/ part = "mails" /\ MailsTurn(k) /\ UNCHANGED <<part, After8>>

\* A behaviour has one part, so the k-th turns of all parts share one condition.
Fairness ==
    /\ \A k \in 1..10 : WF_all(Turn(k))
    /\ SF_all(part = "mails" /\ Mails!BeginLate /\ UNCHANGED <<part, After8>>)

Spec == Init /\ [][Next]_all /\ Fairness

\* What may not last on a node: a process that lost its role, an operation
\* neither finished, cancelled nor declared unknown, a drain nobody holds, an
\* entry into maintenance or a restore under way, and a request no supervisor
\* takes or that stays in its hands.  One a supervisor died with stays claimed and
\* unanswered for good, whatever node_agent/supervisor.py says of receipts.
Working(i) ==
    \/ part = "agent" /\ <<Agent!RoleLost("a1"), Agent!Unfinished("o1"), Agent!Unfinished("l1")>>[i]
    \/ part = "drain" /\ <<Drain!StrandedDrain("a1"), FALSE, FALSE>>[i]
    \/ part = "coordinator" /\ <<Coordinator!Running(<<"enter", 1>>), Coordinator!Running(<<"restore", 1>>), FALSE>>[i]
    \/ part = "reset" /\ <<Reset!Unanswered("r1"), Reset!Unanswered("r2"), FALSE>>[i]

\* The node's work ends, by its own process or by the one that takes over:
\* nothing waits for ever on a lost role, a failed read, a dead coordinator, a
\* hold that was lifted or a supervisor that died with the request before it.
WorkEnds == \A i \in 1..3 : []<>~Working(i)

\* What somebody waits for: an answer or a refusal, the end of a response whose
\* attempt ended, the slot of a stream whose client left, a document being
\* extracted or indexed by a task that lives, the night's backup, the boot.
Waiting(i) ==
    \/ part = "admission" /\ <<Admission!UnderWay("r1"), Admission!UnderWay("r2")>>[i]
    \/ part = "stream" /\ <<Stream!EndUnsent, Stream!Abandoned>>[i]
    \/ part = "documents" /\ <<Documents!Transient("d1"), FALSE>>[i]
    \/ part = "backup" /\ <<Backup!Owed, FALSE>>[i]
    \/ part = "boot" /\ <<Boot!ComingUp, FALSE>>[i]

\* A request is answered or refused, a response ends and a client that leaves
\* gives its slot back whatever the runtime does; a document reaches a resting
\* status, except one whose task died, or could not read or write its row, until
\* a deploy gives it one; a night's backup is not held up for ever by the one
\* before; the stack comes up after a boot.
RequestsEnd == \A i \in 1..2 : []<>~Waiting(i)

\* What has stopped changing, and what it then has to come to.
Calm(s) ==
    \/ part = "residency" /\ Residents!Open
    \/ part = "outages" /\ ~Outages!Served("chat")
    \/ part = "heartbeats" /\ Heartbeats!Probed("n1", s)
    \/ part = "mails" /\ Mails!Deliverable
Reached(s) ==
    \/ part = "residency" /\ Residents!DesiredResident
    \/ part = "outages" /\ ~Outages!Announced("chat")
    \/ part = "heartbeats" /\ Heartbeats!Says("n1", s)
    \/ part = "mails" /\ Mails!Known

\* Once the world is calm the platform comes to agree with it and stays so: a
\* node that stays open holds the models wanted resident, or its reconciler gave
\* up; the gauge of a capability that stays unservable does not say available;
\* a node's status says what a probe of it says; the last mail names what is
\* wrong with a platform that no longer changes.
Converges ==
    \A s \in {"online", "degraded", "offline"} :
       <>[][part = "mails" => Mails!Steady]_all /\ <>[]Calm(s) => <>[]Reached(s)
==============================================================================
