------------------------------ MODULE HostRepair ------------------------------
(***************************************************************************)
(* Two host jobs that act on the running stack: the reconciler that makes   *)
(* it run and be reachable after a boot, and the weekly refresh of the      *)
(* country database that two of its services hold open.                     *)
(*                                                                         *)
(* The reconciler samples: it waits for the tailnet address and for docker, *)
(* waits for the set of missing services to stop moving, brings up what is  *)
(* missing, reads the result back, then recreates the containers that asked *)
(* for a host port and did not get it.  Docker restores containers on its   *)
(* own meanwhile, one at a time, or never; one restored before the address  *)
(* was there has no binding.  Time is counted in samples.                   *)
(***************************************************************************)
EXTENDS Integers, FiniteSets

CONSTANTS
    Services,    \* EXPECTED_SERVICES
    Published,   \* the services that request a host port
    Enforcing,   \* ENFORCING_SERVICES: they open the country database at start
    Deadline,    \* 600 s, in samples
    ReadBack,    \* the 120 s of the read-back, in samples
    Settled,     \* 3, the matching samples after which the set has settled
    Faults,      \* bound: what goes wrong in this instance, of AllFaults
    MaxVersion   \* bound: databases published upstream

\* A container docker never restores, one that dies on its own, one that up -d
\* does not bring up, one a recreate leaves down, one it leaves without its
\* port; a download that fails, docker away or a restart that fails after the
\* new database is in place.
AllFaults == {"unrestored", "dies", "up fails", "recreate fails", "port taken",
              "download", "no docker", "restart fails"}

HostRepairAssumption ==
    /\ Published \subseteq Services /\ Enforcing \subseteq Services
    /\ Deadline \in Nat /\ ReadBack \in Nat /\ Settled \in Nat \ {0}
    /\ Faults \subseteq AllFaults
    /\ MaxVersion \in Nat

VARIABLES
    address,    \* the tailnet address is on an interface
    docker,     \* the daemon answers
    restoring,  \* containers docker is still going to restore
    running,    \* running containers
    bound,      \* those of Published that have the port they asked for
    rec,        \* the reconciler: where it is and what it has sampled
    clock,      \* samples since the reconciler started
    lost,       \* a service went down after the reconciler last looked
    upstream, database,  \* the country database: published, and on disk
    loaded,     \* the one each enforcing service has open
    refresh,    \* the refresh job
    owed        \* (history) services that wait for the restart a refresh could not do

stack == <<address, docker, restoring, running, bound, loaded, owed>>
vars == <<stack, rec, clock, lost, upstream, database, refresh>>

Missing == Services \ running

\* A container that starts binds if the address is there, and opens the
\* database that is on disk.
Starts(S) ==
    /\ running' = running \cup S
    /\ bound' = (bound \ S) \cup (IF address THEN S \cap Published ELSE {})
    /\ loaded' = [s \in Enforcing |-> IF s \in S THEN database ELSE loaded[s]]
    /\ owed' = owed \ S

Init ==
    /\ address = FALSE /\ docker = FALSE
    /\ restoring \in IF "unrestored" \in Faults THEN SUBSET Services ELSE {Services}
    /\ running = {} /\ bound = {}
    /\ rec = [pc |-> "address", missing |-> {}, stable |-> {}, first |-> TRUE, settle |-> 0,
              deadline |-> Deadline, incomplete |-> FALSE, broken |-> {}]
    /\ clock = 0 /\ lost = FALSE
    /\ upstream = 0 /\ database = 0
    /\ loaded = [s \in Enforcing |-> 0]
    /\ refresh = "idle" /\ owed = {}

(***************************************************************************)
(* The reconciler                                                          *)
(***************************************************************************)

Late == clock >= rec.deadline
Sleep == clock' = IF Late THEN clock ELSE clock + 1
Go(pc) == rec' = [rec EXCEPT !.pc = pc]

\* Preconditions 1 and 2: wait, or give up at the deadline.
Await(pc, ready, then) ==
    /\ rec.pc = pc
    /\ \/ ready /\ Go(then) /\ UNCHANGED clock
       \/ ~ready /\ Late /\ Go("exit 1") /\ UNCHANGED clock
       \/ ~ready /\ ~Late /\ Sleep /\ UNCHANGED rec
    /\ UNCHANGED <<stack, lost, upstream, database, refresh>>

AwaitAddress == Await("address", address, "docker")
AwaitDocker == Await("docker", docker, "settle")

\* Precondition 3: sample until the missing set is the same Settled times in a
\* row, or the deadline passes.
SettleSample ==
    /\ rec.pc = "settle"
    /\ LET same == ~rec.first /\ Missing = rec.stable
           settle == IF same THEN rec.settle + 1 ELSE 0
           sampled == [rec EXCEPT !.missing = Missing, !.stable = Missing, !.first = FALSE,
                                  !.settle = settle]
           act == IF Missing = {} THEN "sweep" ELSE "up"
       IN \/ /\ settle >= Settled \/ Late
             /\ rec' = [sampled EXCEPT !.pc = act] /\ UNCHANGED clock
          \/ /\ settle < Settled /\ ~Late
             /\ rec' = sampled /\ Sleep
    /\ lost' = FALSE
    /\ UNCHANGED <<stack, upstream, database, refresh>>

\* docker compose up -d: what is missing is started, or some of it; a service
\* already running is left alone.  The read-back gets a budget of its own.
Up ==
    /\ rec.pc = "up"
    /\ \E S \in SUBSET (rec.missing \ running) :
         /\ "up fails" \in Faults \/ S = rec.missing \ running
         /\ Starts(S)
    /\ rec' = [rec EXCEPT !.pc = "read back", !.deadline = clock + ReadBack]
    /\ UNCHANGED <<address, docker, restoring, clock, lost, upstream, database, refresh>>

ReadBackSample ==
    /\ rec.pc = "read back"
    /\ \/ /\ Missing = {} \/ Late
          /\ rec' = [rec EXCEPT !.pc = "sweep", !.missing = Missing] /\ UNCHANGED clock
       \/ /\ Missing # {} /\ ~Late
          /\ rec' = [rec EXCEPT !.missing = Missing] /\ Sleep
    /\ lost' = FALSE
    /\ UNCHANGED <<stack, upstream, database, refresh>>

\* The running containers that asked for a port and did not get one.
broken_services == (running \cap Published) \ bound

\* Mutant: the missing services are not carried to the end.
SweepForgets ==
    /\ rec.pc = "sweep"
    /\ rec' = [rec EXCEPT !.broken = broken_services,
                          !.pc = IF broken_services # {} THEN "recreate" ELSE "exit 0"]
    /\ UNCHANGED <<stack, clock, lost, upstream, database, refresh>>

Verdict(incomplete) == IF incomplete THEN "exit 1" ELSE "exit 0"

Sweep ==
    /\ rec.pc = "sweep"
    /\ rec' = [rec EXCEPT !.incomplete = rec.missing # {},
                          !.broken = broken_services,
                          !.pc = IF broken_services # {} THEN "recreate"
                                 ELSE Verdict(rec.missing # {})]
    /\ UNCHANGED <<stack, clock, lost, upstream, database, refresh>>

\* up -d --force-recreate: the old container is removed and a new one started,
\* unless starting it fails; its port may be taken.
Recreate ==
    /\ rec.pc = "recreate"
    /\ \E S \in SUBSET rec.broken, taken \in SUBSET rec.broken :
         /\ "recreate fails" \in Faults \/ S = rec.broken
         /\ "port taken" \in Faults \/ taken = {}
         /\ running' = (running \ rec.broken) \cup S
         /\ bound' = (bound \ rec.broken) \cup (IF address THEN S \ taken ELSE {})
         /\ loaded' = [s \in Enforcing |-> IF s \in S THEN database ELSE loaded[s]]
         /\ owed' = owed \ S
    /\ Go("verify")
    /\ UNCHANGED <<address, docker, restoring, clock, lost, upstream, database, refresh>>

\* Verified once.
VerifyOnce ==
    /\ rec.pc = "verify"
    /\ Go(IF broken_services # {} THEN "exit 1" ELSE Verdict(rec.incomplete))
    /\ UNCHANGED <<stack, clock, lost, upstream, database, refresh>>

Reconcile ==
    \/ AwaitAddress \/ AwaitDocker \/ SettleSample \/ Up \/ ReadBackSample \/ Sweep
    \/ Recreate \/ VerifyOnce

(***************************************************************************)
(* The refresh of the country database                                     *)
(***************************************************************************)

\* Downloaded, unpacked and checked; the same bytes end the job there.
Download ==
    /\ refresh \in {"idle", "exit 0", "exit 1"} /\ Enforcing # {}
    /\ rec.pc \in {"exit 0", "exit 1"}
    /\ \/ "download" \in Faults /\ refresh' = "exit 1"
       \/ refresh' = IF upstream = database THEN "exit 0" ELSE "replace"
    /\ UNCHANGED <<stack, rec, clock, lost, upstream, database>>

\* mv: a rename, so no reader sees half of it.
Replace ==
    /\ refresh = "replace"
    /\ refresh' = "restart" /\ database' = upstream
    /\ UNCHANGED <<stack, rec, clock, lost, upstream>>

\* docker compose restart: a running container is reused with its bindings, a
\* stopped one starts like any other.  One that does not come back is down; with
\* docker away, or after a restart that failed, the job ends and the services it
\* did not restart keep what they have open.
RestartEnforcing ==
    /\ refresh = "restart"
    /\ \E S \in SUBSET Enforcing, down \in SUBSET Enforcing :
         /\ \/ S = Enforcing /\ down = {}
            \/ "no docker" \in Faults /\ S = {} /\ down = {}
            \/ "restart fails" \in Faults /\ down \subseteq Enforcing \ S /\ S # Enforcing
         /\ running' = (running \ down) \cup S
         /\ bound' = bound \cup (IF address THEN (S \ running) \cap Published ELSE {})
         /\ loaded' = [s \in Enforcing |-> IF s \in S THEN database ELSE loaded[s]]
         /\ owed' = Enforcing \ S
         /\ refresh' = IF S = Enforcing THEN "exit 0" ELSE "exit 1"
         /\ lost' = (lost \/ down # {})
    /\ UNCHANGED <<address, docker, restoring, rec, clock, upstream, database>>

Publish ==
    /\ upstream < MaxVersion
    /\ upstream' = upstream + 1
    /\ UNCHANGED <<stack, rec, clock, lost, database, refresh>>

(***************************************************************************)
(* The machine                                                             *)
(***************************************************************************)

AddressUp ==
    /\ ~address /\ address' = TRUE
    /\ UNCHANGED <<docker, restoring, running, bound, loaded, owed, rec, clock, lost,
                   upstream, database, refresh>>

DockerUp ==
    /\ ~docker /\ docker' = TRUE
    /\ UNCHANGED <<address, restoring, running, bound, loaded, owed, rec, clock, lost,
                   upstream, database, refresh>>

Restore(s) ==
    /\ docker /\ s \in restoring
    /\ restoring' = restoring \ {s}
    /\ IF s \in running THEN UNCHANGED <<running, bound, loaded, owed>> ELSE Starts({s})
    /\ UNCHANGED <<address, docker, rec, clock, lost, upstream, database, refresh>>

Dies(s) ==
    /\ "dies" \in Faults /\ s \in running
    /\ running' = running \ {s}
    /\ lost' = TRUE
    /\ UNCHANGED <<address, docker, restoring, bound, loaded, owed, rec, clock, upstream,
                   database, refresh>>

Next ==
    \/ Reconcile
    \/ Download \/ Replace \/ RestartEnforcing \/ Publish
    \/ AddressUp \/ DockerUp
    \/ \E s \in Services : Restore(s) \/ Dies(s)

Spec == Init /\ [][Next]_vars

(***************************************************************************)
(* Properties                                                              *)
(***************************************************************************)

TypeOK ==
    /\ running \subseteq Services /\ bound \subseteq Published /\ restoring \subseteq Services
    /\ rec.pc \in {"address", "docker", "settle", "up", "read back", "sweep", "recreate",
                   "verify", "exit 0", "exit 1"}
    /\ rec.settle \in 0..Settled /\ rec.missing \subseteq Services
    /\ rec.broken \subseteq Published
    /\ clock \in 0..(Deadline + ReadBack)
    /\ refresh \in {"idle", "replace", "restart", "exit 0", "exit 1"}
    /\ loaded \in [Enforcing -> 0..MaxVersion] /\ owed \subseteq Enforcing

\* The reconciler reports success only for a platform that is reachable: when it
\* has exited 0 and nothing went down since it last looked, every expected service
\* runs and every running one has the port it asked for (INCOMPLETE, carried to
\* the end; the read-back; the verification after a recreate).  The one exception
\* is a service that its own recreate left down: the verification looks at the
\* bindings of running containers, so one that is gone passes it.
SuccessIsWhole ==
    rec.pc = "exit 0" /\ ~lost
    => /\ Missing \subseteq rec.broken
       /\ Published \cap running \subseteq bound

\* What may not last after a boot: a reconciler that has not ended, and a stack
\* not whole once docker was there in time.
Whole == Missing = {} /\ Published \subseteq bound
ComingUp == rec.pc \notin {"exit 0", "exit 1"} \/ (~rec.first /\ ~Whole)

\* A refresh that ends well leaves every running enforcing service on the
\* database that is on disk, services that died and came back meanwhile included.
\* The exception is one that still waits for the restart an earlier refresh could
\* not do: the next refresh finds the same bytes on disk, restarts nothing and
\* ends well, and the service stays on the old database until something else
\* restarts it.
EnforcedIsStored ==
    refresh = "exit 0"
    => \A s \in Enforcing \cap running : s \notin owed => loaded[s] = database
==============================================================================
