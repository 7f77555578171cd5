------------------------------- MODULE MCHost -------------------------------
(***************************************************************************)
(* The jobs of the host: the nightly backup and the check of its state      *)
(* file (HostBackup), the health daemon and its mails (HostWatch), the boot *)
(* reconciler and the country refresh (HostRepair), and the deploy of a     *)
(* release over another (Deployment).  They share the host and no state; a  *)
(* behaviour is one of an instance of one of them.                          *)
(***************************************************************************)
EXTENDS Integers, FiniteSets

CONSTANTS NoRun, Absent, None

VARIABLES
    part,  \* the instance a behaviour is one of
    \* HostBackup
    day, due, runs, run, state, repo, doc,
    \* HostWatch
    late, grace, world, path, file, pass, mailbox, past,
    \* HostRepair
    address, docker, restoring, running, bound, rec, clock, lost, upstream, database,
    loaded, refresh, owed,
    \* Deployment
    rev, db, grants, defaults, code, job, alone, refused

all == <<part, day, due, runs, run, state, repo, doc, late, grace, world, path, file, pass,
        mailbox, past, address, docker, restoring, running, bound, rec, clock, lost,
        upstream, database, loaded, refresh, owed, rev, db, grants, defaults, code, job, alone,
        refused>>

Nights == INSTANCE HostBackup WITH Runs <- {"nightly", "byhand"}, Overlap <- FALSE,
    Docs <- {}, KeepDaily <- 3, WarnDays <- 1, FailDays <- 1,
    Faults <- {"fails", "cut", "power"}, MaxDay <- 2, MaxRuns <- 3
Stopped == INSTANCE HostBackup WITH Runs <- {"nightly", "byhand"}, Overlap <- FALSE,
    Docs <- {}, KeepDaily <- 2, WarnDays <- 0, FailDays <- 0,
    Faults <- {"fails", "power", "term"}, MaxDay <- 2, MaxRuns <- 3
Overlapping == INSTANCE HostBackup WITH Runs <- {"nightly", "byhand"}, Overlap <- TRUE,
    Docs <- {"d1"}, KeepDaily <- 2, WarnDays <- 0, FailDays <- 0,
    Faults <- {"cut"}, MaxDay <- 0, MaxRuns <- 2
Window == INSTANCE HostBackup WITH Runs <- {"nightly"}, Overlap <- FALSE,
    Docs <- {"d1", "d2"}, KeepDaily <- 4, WarnDays <- 1, FailDays <- 2, Faults <- {"cut"},
    MaxDay <- 1, MaxRuns <- 2
Mail == INSTANCE HostWatch WITH Services <- {"s1"}, Alerts <- {}, Expected <- {},
    Happenings <- {"service", "probe", "smtp", "late ack", "credentials", "power"},
    MaxRestarts <- 0
Restarts == INSTANCE HostWatch WITH Services <- {"s1"}, Alerts <- {}, Expected <- {},
    Happenings <- {"service", "docker", "restart", "power"}, MaxRestarts <- 2
Listings == INSTANCE HostWatch WITH Services <- {"s1", "s2"}, Alerts <- {}, Expected <- {},
    Happenings <- {"service", "restart"}, MaxRestarts <- 1
Boot == INSTANCE HostRepair WITH Services <- {"db", "gateway", "admin"},
    Published <- {"gateway", "admin"}, Enforcing <- {"gateway"}, Deadline <- 5,
    ReadBack <- 2, Settled <- 3,
    Faults <- {"unrestored", "dies", "up fails", "recreate fails", "port taken", "no docker"},
    MaxVersion <- 1
Country == INSTANCE HostRepair WITH Services <- {"gateway", "admin"},
    Published <- {"gateway", "admin"}, Enforcing <- {"gateway", "admin"}, Deadline <- 1,
    ReadBack <- 1, Settled <- 1, Faults <- {"download", "dies", "no docker", "restart fails"},
    MaxVersion <- 2
Unrestarted == INSTANCE HostRepair WITH Services <- {"gateway", "admin"},
    Published <- {"gateway", "admin"}, Enforcing <- {"gateway", "admin"}, Deadline <- 1,
    ReadBack <- 1, Settled <- 1, Faults <- {"restart fails", "no docker", "up fails"},
    MaxVersion <- 2
First == INSTANCE Deployment WITH Stops <- {1, 5}, Watched <- {"users", "api_keys"},
    Leftover <- {}, MaxRows <- 2
Upgrade == INSTANCE Deployment WITH Stops <- {5, 26},
    Watched <- {"tenants", "knowledge_documents"}, Leftover <- {}, MaxRows <- 3
Kinds == INSTANCE Deployment WITH Stops <- {21, 32},
    Watched <- {"models", "node_operations", "attempt_results", "maintenance_operations", "maintenance_node_steps"},
    Leftover <- {<<"insert", "api_keys">>, <<"select", "prompt_logs">>}, MaxRows <- 2

ASSUME Nights!HostBackupAssumption /\ Stopped!HostBackupAssumption
ASSUME Overlapping!HostBackupAssumption /\ Window!HostBackupAssumption
ASSUME Mail!HostWatchAssumption /\ Restarts!HostWatchAssumption /\ Listings!HostWatchAssumption
ASSUME Boot!HostRepairAssumption /\ Country!HostRepairAssumption /\ Unrestarted!HostRepairAssumption

\* A component outside the part has no state, and nothing of it moves.
BesideHostBackup == <<late, grace, world, path, file, pass, mailbox, past, address, docker,
        restoring, running, bound, rec, clock, lost, upstream, database, loaded, refresh, owed,
        rev, db, grants, defaults, code, job, alone, refused>>
OnlyHostBackup ==
    /\ late = "none" /\ grace = "none" /\ world = "none" /\ path = "none" /\ file = "none"
    /\ pass = "none" /\ mailbox = "none" /\ past = "none" /\ address = "none"
    /\ docker = "none" /\ restoring = "none" /\ running = "none" /\ bound = "none"
    /\ rec = "none" /\ clock = "none" /\ lost = "none" /\ upstream = "none"
    /\ database = "none" /\ loaded = "none" /\ refresh = "none" /\ owed = "none" /\ rev = "none"
    /\ db = "none" /\ grants = "none" /\ defaults = "none" /\ code = "none" /\ job = "none"
    /\ alone = "none" /\ refused = "none"
BesideHostWatch == <<day, due, runs, run, state, repo, doc, address, docker, restoring,
        running, bound, rec, clock, lost, upstream, database, loaded, refresh, owed, rev, db,
        grants, defaults, code, job, alone, refused>>
OnlyHostWatch ==
    /\ day = "none" /\ due = "none" /\ runs = "none" /\ run = "none" /\ state = "none"
    /\ repo = "none" /\ doc = "none" /\ address = "none" /\ docker = "none"
    /\ restoring = "none" /\ running = "none" /\ bound = "none" /\ rec = "none"
    /\ clock = "none" /\ lost = "none" /\ upstream = "none" /\ database = "none"
    /\ loaded = "none" /\ refresh = "none" /\ owed = "none" /\ rev = "none"
    /\ db = "none" /\ grants = "none"
    /\ defaults = "none" /\ code = "none" /\ job = "none" /\ alone = "none"
    /\ refused = "none"
BesideHostRepair == <<day, due, runs, run, state, repo, doc, late, grace, world, path,
        file, pass, mailbox, past, rev, db, grants, defaults, code, job, alone, refused>>
OnlyHostRepair ==
    /\ day = "none" /\ due = "none" /\ runs = "none" /\ run = "none" /\ state = "none"
    /\ repo = "none" /\ doc = "none" /\ late = "none" /\ grace = "none" /\ world = "none"
    /\ path = "none" /\ file = "none" /\ pass = "none" /\ mailbox = "none" /\ past = "none"
    /\ rev = "none" /\ db = "none" /\ grants = "none" /\ defaults = "none" /\ code = "none"
    /\ job = "none" /\ alone = "none" /\ refused = "none"
BesideDeployment == <<day, due, runs, run, state, repo, doc, late, grace, world, path,
        file, pass, mailbox, past, address, docker, restoring, running, bound, rec, clock,
        lost, upstream, database, loaded, refresh, owed>>
OnlyDeployment ==
    /\ day = "none" /\ due = "none" /\ runs = "none" /\ run = "none" /\ state = "none"
    /\ repo = "none" /\ doc = "none" /\ late = "none" /\ grace = "none" /\ world = "none"
    /\ path = "none" /\ file = "none" /\ pass = "none" /\ mailbox = "none" /\ past = "none"
    /\ address = "none" /\ docker = "none" /\ restoring = "none" /\ running = "none"
    /\ bound = "none" /\ rec = "none" /\ clock = "none" /\ lost = "none"
    /\ upstream = "none" /\ database = "none" /\ loaded = "none" /\ refresh = "none"
    /\ owed = "none"

Init ==
    \/ part = "nights" /\ Nights!Init /\ OnlyHostBackup
    \/ part = "stopped" /\ Stopped!Init /\ OnlyHostBackup
    \/ part = "overlap" /\ Overlapping!Init /\ OnlyHostBackup
    \/ part = "window" /\ Window!Init /\ OnlyHostBackup
    \/ part = "mail" /\ Mail!Init /\ OnlyHostWatch
    \/ part = "restarts" /\ Restarts!Init /\ OnlyHostWatch
    \/ part = "listings" /\ Listings!Init /\ OnlyHostWatch
    \/ part = "boot" /\ Boot!Init /\ OnlyHostRepair
    \/ part = "country" /\ Country!Init /\ OnlyHostRepair
    \/ part = "unrestarted" /\ Unrestarted!Init /\ OnlyHostRepair
    \/ part = "first" /\ First!Init /\ OnlyDeployment
    \/ part = "upgrade" /\ Upgrade!Init /\ OnlyDeployment
    \/ part = "kinds" /\ Kinds!Init /\ OnlyDeployment

Next ==
    \/ part = "nights" /\ Nights!Next /\ UNCHANGED <<part, BesideHostBackup>>
    \/ part = "stopped" /\ Stopped!Next /\ UNCHANGED <<part, BesideHostBackup>>
    \/ part = "overlap" /\ Overlapping!Next /\ UNCHANGED <<part, BesideHostBackup>>
    \/ part = "window" /\ Window!Next /\ UNCHANGED <<part, BesideHostBackup>>
    \/ part = "mail" /\ Mail!Next /\ UNCHANGED <<part, BesideHostWatch>>
    \/ part = "restarts" /\ Restarts!Next /\ UNCHANGED <<part, BesideHostWatch>>
    \/ part = "listings" /\ Listings!Next /\ UNCHANGED <<part, BesideHostWatch>>
    \/ part = "boot" /\ Boot!Next /\ UNCHANGED <<part, BesideHostRepair>>
    \/ part = "country" /\ Country!Next /\ UNCHANGED <<part, BesideHostRepair>>
    \/ part = "unrestarted" /\ Unrestarted!Next /\ UNCHANGED <<part, BesideHostRepair>>
    \/ part = "first" /\ First!Next /\ UNCHANGED <<part, BesideDeployment>>
    \/ part = "upgrade" /\ Upgrade!Next /\ UNCHANGED <<part, BesideDeployment>>
    \/ part = "kinds" /\ Kinds!Next /\ UNCHANGED <<part, BesideDeployment>>

Spec == Init /\ [][Next]_all

\* A quiet backup check means there is something to restore, runs by hand between
\* the nightly ones and hung commands included; and a set of captures lacks only
\* files being deleted, also when two runs overlap: QuietMeansRestorable and
\* OnlyDeletionsDangle of HostBackup.
BackupsRestore ==
    /\ part = "nights" => Nights!TypeOK /\ Nights!QuietMeansRestorable
    /\ part = "stopped" => Stopped!QuietMeansRestorable
    /\ part = "overlap" => Overlapping!OnlyDeletionsDangle
    /\ part = "window" => Window!OnlyDeletionsDangle

\* What is on record stays and is told: no failed run erases a success, unless
\* it was stopped after recording its own or ran beside another (SuccessKept of
\* HostBackup); a restart is reported, a change mailed once, a working day gets
\* its digest and one only (RestartReported, NoAlertStorm, DigestArrives and
\* OneDigest of HostWatch); an upgrade loses no row (UpgradeKeeps of Deployment).
RecordsKept ==
    [][/\ part = "nights" => Nights!SuccessKept
       /\ part = "stopped" => Stopped!SuccessKept
       /\ part = "overlap" => Overlapping!SuccessKept
       /\ part = "first" => First!UpgradeKeeps
       /\ part = "upgrade" => Upgrade!UpgradeKeeps
       /\ part = "kinds" => Kinds!UpgradeKeeps
       /\ part = "restarts" => Restarts!RestartReported
       /\ part = "listings" => Listings!RestartReported
       /\ part = "mail" => /\ Mail!NoAlertStorm
                           /\ (Mail!TypeOK /\ Mail!DigestArrives /\ Mail!OneDigest)']_all

\* A job that reports success leaves the platform whole: SuccessIsWhole and
\* EnforcedIsStored of HostRepair, with the service a recreate left down and the
\* one that waits for a restart as the exceptions they name; SchemaFits,
\* AccountsShut and NothingStranded of Deployment, with nothing refused on the
\* way that should have passed (NothingInTheWay).
SuccessIsWhole ==
    /\ part = "boot" => Boot!TypeOK /\ Boot!SuccessIsWhole
    /\ part = "country" => Country!EnforcedIsStored
    /\ part = "unrestarted" => Unrestarted!SuccessIsWhole /\ Unrestarted!EnforcedIsStored
    /\ part = "first" => /\ First!TypeOK /\ First!SchemaFits /\ First!AccountsShut
                         /\ First!NothingInTheWay /\ First!NothingStranded
    /\ part = "upgrade" => /\ Upgrade!TypeOK /\ Upgrade!SchemaFits /\ Upgrade!AccountsShut
                           /\ Upgrade!NothingInTheWay /\ Upgrade!NothingStranded
    /\ part = "kinds" => /\ Kinds!TypeOK /\ Kinds!SchemaFits /\ Kinds!AccountsShut
                         /\ Kinds!NothingInTheWay /\ Kinds!NothingStranded
==============================================================================
