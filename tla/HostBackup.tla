----------------------------- MODULE HostBackup -----------------------------
(***************************************************************************)
(* The nightly encrypted backup of the host: the stages of backup.sh, its   *)
(* watchdog and exit trap, the state file it leaves for the health daemon,  *)
(* the snapshots in the restic repository, and the documents that come and  *)
(* go while two of the captures are taken.                                  *)
(*                                                                         *)
(* launchd fires one run a night and never two at once; the runbook also    *)
(* has an operator run the same script by hand.  A run is a sequence of     *)
(* foreground commands: each may fail, may never return, and may leave a     *)
(* snapshot behind even though it failed (restic stores what reached its    *)
(* input before the other end of the pipe died).  The machine may lose      *)
(* power anywhere, also between truncating the state file and filling it.   *)
(***************************************************************************)
EXTENDS Integers, FiniteSets, FiniteSetsExt, Sequences, SequencesExt

CONSTANTS
    NoRun,       \* no run in progress
    Absent,      \* the state file does not exist
    Runs,        \* who starts runs: "nightly" (launchd), "byhand" (the runbook)
    Overlap,     \* whether a run may start while the other one is in progress
    Docs,        \* knowledge documents
    KeepDaily,   \* KEEP_DAILY
    WarnDays,    \* BACKUP_WARN_HOURS, in days
    FailDays,    \* BACKUP_FAIL_HOURS, in days
    Faults,      \* bound: the faults that happen, of AllFaults
    MaxDay,      \* bound: nights
    MaxRuns      \* bound: runs

\* A command failing having written nothing, a stream cut short, the machine
\* losing power, the watchdog's TERM.
AllFaults == {"fails", "cut", "power", "term"}

Tags == {"database", "documents", "secrets", "manifest"}

\* The captures in the order they are taken, each with the STAGE it runs under.
Order == <<"database", "documents", "secrets", "manifest">>

Stages == Tags \cup {"preflight", "retention", "verify", "state"}

\* Absent is no state file.
HostBackupAssumption ==
    /\ Runs \subseteq {"nightly", "byhand"}
    /\ Overlap \in BOOLEAN
    /\ Faults \subseteq AllFaults
    /\ KeepDaily \in Nat /\ WarnDays \in Nat /\ FailDays \in Nat
    /\ WarnDays <= FailDays /\ FailDays + 1 < KeepDaily
    /\ MaxDay \in Nat /\ MaxRuns \in Nat
    /\ Absent \notin [ok: [run: Nat, day: Nat], outcome: Stages \cup {"ok", "none"}]

VARIABLES
    day,    \* the calendar
    due,    \* launchd owes the night its run
    runs,   \* runs started so far; a run is known by its number
    run,    \* the run each starter has in progress
    state,  \* nexus-backup.state
    repo,   \* the snapshots of the repository
    doc     \* where each document is in its life

vars == <<day, due, runs, run, state, repo, doc>>

Never == [run |-> 0, day |-> 0]
Torn == [ok |-> Never, outcome |-> "none"]

Snapshot == [tag: Tags, run: 1..MaxRuns, day: 0..MaxDay, at: Nat, whole: BOOLEAN,
             docs: SUBSET Docs]
Active == {r \in Runs : run[r] # NoRun}

Rows == {d \in Docs : doc[d] \in {"stored", "bytes gone"}}
Files == {d \in Docs : doc[d] \in {"bytes", "stored"}}

Init ==
    /\ day = 0 /\ due = FALSE /\ runs = 0
    /\ run = [r \in Runs |-> NoRun]
    /\ state = Absent
    /\ repo = {}
    /\ doc \in [Docs -> {"new", "stored"}]

(***************************************************************************)
(* A run                                                                   *)
(***************************************************************************)

\* The script's first lines: the last success is read once, before anything
\* else, and the exit trap is armed.
Start(r) ==
    /\ run[r] = NoRun /\ runs < MaxRuns
    /\ Overlap \/ Active = {}
    /\ runs' = runs + 1
    /\ run' = [run EXCEPT ![r] =
                 [stage |-> "preflight", pc |-> "works", id |-> runs + 1, term |-> FALSE,
                  began |-> day, beside |-> Active # {},
                  prev |-> IF state = Absent THEN Never ELSE state.ok]]

\* launchd fires the night's run; a night missed while one runs is fired after.
Fire ==
    /\ "nightly" \in Runs /\ due
    /\ Start("nightly") /\ due' = FALSE
    /\ UNCHANGED <<day, state, repo, doc>>

ByHand ==
    /\ "byhand" \in Runs
    /\ Start("byhand")
    /\ UNCHANGED <<day, due, state, repo, doc>>

Works(r, stages) == run[r] # NoRun /\ run[r].pc = "works" /\ run[r].stage \in stages

\* The command returned.  The shell runs a pending TERM trap only now, between
\* two commands, still under the stage of the command that just ended.
Return(r, after) ==
    run' = [run EXCEPT ![r] =
              IF @.term THEN [@ EXCEPT !.pc = "exit"] ELSE [@ EXCEPT !.stage = after]]

die(r) == run' = [run EXCEPT ![r].pc = "exit"]

Fails(r) ==
    /\ "fails" \in Faults
    /\ Works(r, Stages \ {"state"})
    /\ die(r)
    /\ UNCHANGED <<day, due, runs, state, repo, doc>>

\* The checks, and the manifest built in a work directory.
Preflight(r) ==
    /\ Works(r, {"preflight"})
    /\ Return(r, Head(Order))
    /\ UNCHANGED <<day, due, runs, state, repo, doc>>

After(tag) == IF tag = Last(Order) THEN "retention"
              ELSE Order[(CHOOSE i \in DOMAIN Order : Order[i] = tag) + 1]

Take(r, tag, whole) ==
    repo \cup {[tag |-> tag, run |-> run[r].id, day |-> day, whole |-> whole,
                at |-> 1 + Max({0} \cup {s.at : s \in repo}),
                docs |-> CASE whole /\ tag = "database" -> Rows
                           [] whole /\ tag = "documents" -> Files
                           [] OTHER -> {}]}

Capture(r) ==
    /\ Works(r, Tags)
    /\ repo' = Take(r, run[r].stage, TRUE)
    /\ Return(r, After(run[r].stage))
    /\ UNCHANGED <<day, due, runs, state, doc>>

\* pipefail: pg_dump or docker cp died part way, restic stored what it had read
\* and the pipeline failed.  (The manifest is a file: it is stored or it is not.)
CaptureCut(r) ==
    /\ "cut" \in Faults
    /\ Works(r, Tags \ {"manifest"})
    /\ repo' = Take(r, run[r].stage, FALSE)
    /\ die(r)
    /\ UNCHANGED <<day, due, runs, state, doc>>

\* restic forget: per tag (one host, one path), the newest snapshot of each of
\* the last KeepDaily days that have one, and the oldest of the group.
Group(tag) == {s \in repo : s.tag = tag}
Newest(S) == CHOOSE s \in S : \A t \in S : t.at <= s.at
Oldest(S) == CHOOSE s \in S : \A t \in S : t.at >= s.at
DaysOf(S) == {s.day : s \in S}
RecentDays(S) == {d \in DaysOf(S) : Cardinality({e \in DaysOf(S) : e > d}) < KeepDaily}
Kept(tag) ==
    IF Group(tag) = {} THEN {}
    ELSE {Oldest(Group(tag))}
         \cup {Newest({s \in Group(tag) : s.day = d}) : d \in RecentDays(Group(tag))}

Retention(r) ==
    /\ Works(r, {"retention"})
    /\ repo' = UNION {Kept(tag) : tag \in Tags}
    /\ Return(r, "verify")
    /\ UNCHANGED <<day, due, runs, state, doc>>

\* restic check: the structure of the repository, not what a stream held.
Verify(r) ==
    /\ Works(r, {"verify"})
    /\ Return(r, "state")
    /\ UNCHANGED <<day, due, runs, state, repo, doc>>

\* write_state "$NOW" ok; the work directory is removed and only then is STAGE
\* "done".
RecordSuccess(r) ==
    /\ Works(r, {"state"})
    /\ state' = [ok |-> [run |-> run[r].id, day |-> day], outcome |-> "ok"]
    /\ run' = [run EXCEPT ![r].pc = "cleanup"]
    /\ UNCHANGED <<day, due, runs, repo, doc>>

Done(r) ==
    /\ run[r] # NoRun /\ run[r].pc = "cleanup"
    /\ run' = [run EXCEPT ![r] = IF @.term THEN [@ EXCEPT !.pc = "exit"] ELSE NoRun]
    /\ UNCHANGED <<day, due, runs, state, repo, doc>>

\* Mutant: any run that ends counts as a success.
AnyEndSucceeds(r) ==
    /\ run[r] # NoRun /\ run[r].pc = "exit"
    /\ state' = [ok |-> [run |-> run[r].id, day |-> day], outcome |-> run[r].stage]
    /\ run' = [run EXCEPT ![r] = NoRun]
    /\ UNCHANGED <<day, due, runs, repo, doc>>

\* The exit trap: the last success this run read at its start, and the stage.
on_exit(r) ==
    /\ run[r] # NoRun /\ run[r].pc = "exit"
    /\ state' = [ok |-> run[r].prev, outcome |-> run[r].stage]
    /\ run' = [run EXCEPT ![r] = NoRun]
    /\ UNCHANGED <<day, due, runs, repo, doc>>

\* The watchdog: MAX_RUN_SECONDS have passed.  It signals the shell, not the
\* command the shell is waiting for.
Watchdog(r) ==
    /\ "term" \in Faults
    /\ run[r] # NoRun /\ run[r].pc # "exit" /\ ~run[r].term
    /\ run' = [run EXCEPT ![r].term = TRUE]
    /\ UNCHANGED <<day, due, runs, state, repo, doc>>

(***************************************************************************)
(* The world                                                               *)
(***************************************************************************)

\* A run takes minutes: it sees at most one midnight, unless a command hangs.
NewDay ==
    /\ day < MaxDay
    /\ \A r \in Active : run[r].began = day
    /\ day' = day + 1 /\ due' = ("nightly" \in Runs)
    /\ UNCHANGED <<runs, run, state, repo, doc>>

\* Nothing is trapped; a state file being written may be left empty.
PowerLoss ==
    /\ "power" \in Faults
    /\ Active # {}
    /\ run' = [r \in Runs |-> NoRun]
    /\ \/ UNCHANGED state
       \/ /\ \E r \in Active : run[r].pc \in {"cleanup", "exit"}
          /\ state' = Torn
    /\ UNCHANGED <<day, due, runs, repo, doc>>

\* upload_document: the bytes, then the row.
PutOriginal(d) ==
    /\ doc[d] = "new"
    /\ doc' = [doc EXCEPT ![d] = "bytes"]
    /\ UNCHANGED <<day, due, runs, run, state, repo>>

SaveDocument(d) ==
    /\ doc[d] = "bytes"
    /\ doc' = [doc EXCEPT ![d] = "stored"]
    /\ UNCHANGED <<day, due, runs, run, state, repo>>

\* _forget_document: the bytes, then the row.
DeleteBytes(d) ==
    /\ doc[d] = "stored"
    /\ doc' = [doc EXCEPT ![d] = "bytes gone"]
    /\ UNCHANGED <<day, due, runs, run, state, repo>>

DeleteRow(d) ==
    /\ doc[d] = "bytes gone"
    /\ doc' = [doc EXCEPT ![d] = "gone"]
    /\ UNCHANGED <<day, due, runs, run, state, repo>>

Command(r) ==
    \/ Preflight(r) \/ Capture(r) \/ Retention(r) \/ Verify(r) \/ RecordSuccess(r)
    \/ Done(r)

Next ==
    \/ Fire \/ ByHand \/ NewDay \/ PowerLoss
    \/ \E r \in Runs : Command(r) \/ Fails(r) \/ CaptureCut(r) \/ on_exit(r) \/ Watchdog(r)
    \/ \E d \in Docs : PutOriginal(d) \/ SaveDocument(d) \/ DeleteBytes(d) \/ DeleteRow(d)

Spec == Init /\ [][Next]_vars

(***************************************************************************)
(* What the health daemon makes of the state file                          *)
(***************************************************************************)

Verdict ==
    IF state = Absent THEN "never run"
    ELSE IF state.ok = Never THEN "no success"
    ELSE IF day - state.ok.day > FailDays THEN "stale"
    ELSE IF day - state.ok.day > WarnDays THEN "warn: old"
    ELSE IF state.outcome # "ok" THEN "warn: failed"
    ELSE "note"

Alarming == {"never run", "no success", "stale"}

(***************************************************************************)
(* Properties                                                              *)
(***************************************************************************)

TypeOK ==
    /\ day \in 0..MaxDay /\ due \in BOOLEAN /\ runs \in 0..MaxRuns
    /\ \A r \in Active :
         run[r] \in [stage: Stages, pc: {"works", "cleanup", "exit"}, id: 1..MaxRuns,
                     term: BOOLEAN, began: 0..MaxDay, beside: BOOLEAN,
                     prev: [run: 0..MaxRuns, day: 0..MaxDay]]
    /\ state # Absent
       => state \in [ok: [run: 0..MaxRuns, day: 0..MaxDay],
                     outcome: Stages \cup {"ok", "none"}]
    /\ repo \subseteq Snapshot
    /\ doc \in [Docs -> {"new", "bytes", "stored", "bytes gone", "gone"}]

Complete(id) == \A tag \in Tags : \E s \in repo : s.tag = tag /\ s.run = id /\ s.whole

\* While the health daemon does not fail the backup check, a set of four whole
\* captures of one run is in the repository, young enough for its limit (and for
\* the midnight the run may have crossed): no failed stage, no rerun of the same
\* night, no pruning and no power loss leaves the check quiet with nothing to
\* restore (check 15, backup_check.sh).  That is for runs one after the other:
\* when two overlap, the retention of either keeps the newest capture of each
\* tag, which may be of both, and no run has all four left.
QuietMeansRestorable ==
    Verdict \notin Alarming
    =>
    \E id \in 1..runs :
        /\ Complete(id)
        /\ \E s \in repo : s.run = id /\ day - s.day <= FailDays + 1

\* The only rows of a complete set whose file is not in it are those of
\* documents whose deletion has begun: an upload in the window between the two
\* captures never leaves a row without its file (backup.sh's header on the two
\* captures).
OnlyDeletionsDangle ==
    \A id \in 1..runs :
        Complete(id)
        =>
        \A s, f \in repo :
            /\ s.run = id /\ s.tag = "database" /\ s.whole
            /\ f.run = id /\ f.tag = "documents" /\ f.whole
            =>
            \A d \in s.docs \ f.docs : doc[d] \in {"bytes gone", "gone"}

\* The run that ends with this step.
Ending == {r \in Runs : run[r] # NoRun /\ run'[r] = NoRun}

\* A run that fails does not erase the success before it (backup.sh on the first
\* two lines of the state file): a run that ends without succeeding never puts
\* another success on record than the one that is there.  It does in two cases.
\* The watchdog's TERM (or an operator's) reaches a run whose success is recorded
\* but which has not got to its last line: the exit trap then takes its own
\* success back.  And of two runs that overlap, each may have read the record
\* before the other one wrote to it.
SuccessKept ==
    (/\ state # Absent /\ state' \notin {state, Torn}
     /\ state'.outcome # "ok" /\ state'.ok # state.ok)
    => \E r \in Ending : \/ (run[r].term /\ state.ok.run = run[r].id)
                          \/ run[r].beside
                          \/ state.ok.run > run[r].id

\* What may not last: a night without its run.
Owed == due /\ runs < MaxRuns
=============================================================================
