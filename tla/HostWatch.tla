------------------------------ MODULE HostWatch ------------------------------
(***************************************************************************)
(* The health daemon of the host: every five minutes launchd runs one pass  *)
(* of checks, compares what fails with the signature the last pass left in  *)
(* its state file, and mails the change; once a day, from DIGEST_HOUR on,   *)
(* it also mails a digest.                                                 *)
(*                                                                         *)
(* A pass is several steps: it reads the state file and the clock, samples  *)
(* the containers, samples everything else, records and decides, mails the  *)
(* event, mails the digest and records its date.  The platform changes      *)
(* between any two of them, midnight passes, the mail path fails or         *)
(* delivers without saying so, and the machine loses power.  Dates are kept *)
(* as what the comparisons tell apart: today, an earlier day, none.         *)
(***************************************************************************)
EXTENDS Integers, FiniteSets

CONSTANTS
    NoRun,         \* no pass in progress
    None,         \* no signature recorded: no state file, or an empty one
    Services,     \* EXPECTED_SERVICES
    Alerts,       \* the availability alerts the daemon asks Prometheus for
    Expected,     \* EXPECTED_DURING_MAINTENANCE
    Happenings,   \* bound: what changes in this instance, of AllHappenings
    MaxRestarts   \* bound: restarts of one container

AllHappenings == {"service", "docker", "restart", "alert", "maintenance", "probe",
                  "smtp", "late ack", "credentials", "power"}

HostWatchAssumption ==
    /\ Expected \subseteq Alerts
    /\ Happenings \subseteq AllHappenings
    /\ MaxRestarts \in Nat

VARIABLES
    late,      \* it is DIGEST_HOUR or later
    grace,     \* the machine booted less than BOOT_GRACE ago
    world,     \* the platform: containers, docker, alerts, the hold, probes
    path,      \* the mail path: SMTP, the credential files
    file,      \* nexus-health.state
    pass,      \* the pass in progress
    mailbox,   \* what the recipients got: the last signature, digests of today
    past       \* what happened: the changes told, the baseline of restarts

vars == <<late, grace, world, path, file, pass, mailbox, past>>

OK == {}
Dates == {"none", "earlier", "today"}
Counts == [Services -> -1..MaxRestarts]      \* -1: no row for the service
NoCounts == [s \in Services |-> -1]
Empty == [sig |-> None, date |-> "none", restarts |-> NoCounts]
Failures == {"docker", "services", "restarts", "probe"} \cup Alerts

Init ==
    /\ late = FALSE /\ grace = TRUE
    /\ world = [docker |-> TRUE, down |-> {}, restarts |-> [s \in Services |-> 0],
                alerts |-> {}, closed |-> FALSE, probe |-> FALSE]
    /\ path = [smtp |-> TRUE, credentials |-> TRUE]
    /\ file = Empty
    /\ pass = NoRun
    /\ mailbox = [last |-> None, digests |-> 0]
    /\ past = [told |-> None, base |-> NoCounts, covered |-> FALSE, excused |-> 0]

At(pc) == pass # NoRun /\ pass.pc = pc

(***************************************************************************)
(* A pass                                                                  *)
(***************************************************************************)

\* Mutant: the boot-time pass writes two of the three lines.
TwoLines ==
    /\ pass = NoRun /\ grace
    /\ file' = [file EXCEPT !.restarts = NoCounts]
    /\ UNCHANGED <<late, grace, world, path, pass, mailbox, past>>

\* Boot grace: the file is rewritten as it was read and nothing is checked.
BootPass ==
    /\ pass = NoRun /\ grace
    /\ file' = file
    /\ UNCHANGED <<late, grace, world, path, pass, mailbox, past>>

\* state.sh and the clock: a digest is owed when the date read is not today's.
\* The pass is sound while nothing goes wrong with it.
Begin ==
    /\ pass = NoRun /\ ~grace
    /\ pass' = [pc |-> "services", prev |-> file, date |-> "today", late |-> late,
                owed |-> file.date # "today",
                fails |-> OK, restarts |-> file.restarts, prom |-> FALSE,
                event |-> FALSE, digest |-> FALSE, sound |-> late]
    /\ UNCHANGED <<late, grace, world, path, file, mailbox, past>>

\* Checks 3 to 5: the daemon, the named services, the restart counts against
\* the previous pass.  A stopped container has no row; without docker the
\* previous snapshot is carried on.
Listed == IF world.docker THEN Services \ world.down ELSE {}
Rose == {s \in Listed : pass.prev.restarts[s] >= 0 /\ world.restarts[s] > pass.prev.restarts[s]}

ServiceChecks ==
    /\ At("services")
    /\ pass' = [pass EXCEPT
                  !.pc = "rest",
                  !.prom = world.docker,
                  !.restarts = IF Listed = {} THEN @
                               ELSE [s \in Services |-> IF s \in Listed THEN world.restarts[s]
                                                                         ELSE -1],
                  !.fails = (IF world.docker THEN {} ELSE {"docker"})
                            \cup (IF world.docker /\ world.down # {} THEN {"services"} ELSE {})
                            \cup (IF Rose # {} THEN {"restarts"} ELSE {})]
    /\ UNCHANGED <<late, grace, world, path, file, mailbox, past>>

\* The entrances, Ollama, the host figures, the disks, the backup and the
\* availability alerts: those a hold explains are notes while it is closed.
OtherChecks ==
    /\ At("rest")
    /\ pass' = [pass EXCEPT
                  !.pc = "decide",
                  !.fails = @ \cup (IF world.probe THEN {"probe"} ELSE {})
                              \cup (IF pass.prom THEN world.alerts
                                                      \ (IF world.closed THEN Expected ELSE {})
                                    ELSE {})]
    /\ UNCHANGED <<late, grace, world, path, file, mailbox, past>>

Due(changed) == pass.owed /\ pass.late

\* Three lines, always.
Recorded(sig, date) == [sig |-> sig, date |-> date, restarts |-> pass.restarts]

\* What the decision leaves for the next pass.
Decision(changed, recorded) ==
    /\ file' = recorded
    /\ past' = [past EXCEPT !.told = pass.fails,
                            !.base = pass.restarts,
                            !.covered = @ \/ (pass.sound /\ ~(changed \/ Due(changed)))]
    /\ pass' = IF ~(changed \/ Due(changed)) \/ ~path.credentials THEN NoRun
               ELSE [pass EXCEPT !.pc = IF changed THEN "event" ELSE "digest",
                                 !.event = changed, !.digest = Due(changed)]
    /\ UNCHANGED <<late, grace, world, path, mailbox>>

\* transitions.sh: compare, record the signature before any mail is attempted
\* and the digest date as it was, stop when the credentials cannot be read.
Decide ==
    /\ At("decide")
    /\ Decision(pass.fails # pass.prev.sig, Recorded(pass.fails, pass.prev.date))

\* What an attempt may come to: delivered and said so, refused, or (the answer
\* lost) delivered and reported as failed.
Outcomes ==
    (IF path.smtp THEN {"sent"} ELSE {"failed"})
    \cup (IF path.smtp /\ "late ack" \in Happenings THEN {"unsure"} ELSE {})

SendEvent ==
    /\ At("event")
    /\ \E o \in Outcomes :
         /\ mailbox' = IF o = "failed" THEN mailbox ELSE [mailbox EXCEPT !.last = pass.fails]
         /\ pass' = IF pass.digest THEN [pass EXCEPT !.pc = "digest", !.sound = @ /\ o = "sent"]
                                   ELSE NoRun
         /\ past' = [past EXCEPT !.covered = @ \/ (pass.sound /\ o = "sent" /\ ~pass.digest)]
    /\ UNCHANGED <<late, grace, world, path, file>>

SendDigest ==
    /\ At("digest")
    /\ \E o \in Outcomes :
         /\ mailbox' = IF o = "failed" THEN mailbox
                       ELSE [last |-> pass.fails,
                             digests |-> mailbox.digests + (IF pass.date = "today" THEN 1 ELSE 0)]
         /\ pass' = IF o = "sent" THEN [pass EXCEPT !.pc = "record"] ELSE NoRun
         /\ past' = [past EXCEPT !.excused = @ + (IF o = "unsure" /\ @ < 2 THEN 1 ELSE 0)]
    /\ mailbox.digests < 3
    /\ UNCHANGED <<late, grace, world, path, file>>

\* Only now is the day spent.
RecordDigest ==
    /\ At("record")
    /\ file' = Recorded(pass.fails, pass.date)
    /\ pass' = NoRun
    /\ past' = [past EXCEPT !.covered = @ \/ (pass.sound /\ pass.date = "today")]
    /\ UNCHANGED <<late, grace, world, path, mailbox>>

(***************************************************************************)
(* The machine and the platform                                            *)
(***************************************************************************)

Morning ==
    /\ ~late
    /\ late' = TRUE
    /\ UNCHANGED <<grace, world, path, file, pass, mailbox, past>>

Older(d) == IF d = "today" THEN "earlier" ELSE d

\* A pass takes minutes (every command has a deadline): none runs from before
\* DIGEST_HOUR until midnight.
Midnight ==
    /\ late
    /\ pass # NoRun => pass.late
    /\ late' = FALSE
    /\ file' = [file EXCEPT !.date = Older(@)]
    /\ pass' = IF pass = NoRun THEN NoRun
               ELSE [pass EXCEPT !.date = Older(@), !.prev.date = Older(@), !.sound = FALSE]
    /\ mailbox' = [mailbox EXCEPT !.digests = 0]
    /\ past' = [past EXCEPT !.covered = FALSE, !.excused = 0]
    /\ UNCHANGED <<grace, world, path>>

\* The file is truncated and filled: power lost in between leaves it empty.
Writing == pass # NoRun /\ pass.pc \in {"decide", "record"}

PowerLoss ==
    /\ "power" \in Happenings
    /\ grace' = TRUE /\ pass' = NoRun
    /\ \/ UNCHANGED file /\ past' = [past EXCEPT !.excused =
                                        IF At("record") /\ @ < 2 THEN @ + 1 ELSE @]
       \/ /\ Writing \/ (pass = NoRun /\ grace)
          /\ file' = Empty
          /\ past' = [told |-> None, base |-> NoCounts, covered |-> past.covered,
                      excused |-> IF past.excused < 2 THEN past.excused + 1 ELSE past.excused]
    /\ UNCHANGED <<late, world, path, mailbox>>

GraceOver ==
    /\ grace
    /\ grace' = FALSE
    /\ UNCHANGED <<late, world, path, file, pass, mailbox, past>>

Changes ==
    \/ \E s \in Services :
         \/ /\ "service" \in Happenings
            /\ world' = [world EXCEPT !.down = IF s \in @ THEN @ \ {s} ELSE @ \cup {s}]
         \/ /\ "restart" \in Happenings
            /\ world.restarts[s] < MaxRestarts
            /\ world' = [world EXCEPT !.restarts[s] = @ + 1]
    \/ "docker" \in Happenings /\ world' = [world EXCEPT !.docker = ~@]
    \/ "maintenance" \in Happenings /\ world' = [world EXCEPT !.closed = ~@]
    \/ "probe" \in Happenings /\ world' = [world EXCEPT !.probe = ~@]
    \/ \E a \in Alerts :
         /\ "alert" \in Happenings
         /\ world' = [world EXCEPT !.alerts = IF a \in @ THEN @ \ {a} ELSE @ \cup {a}]

PlatformChanges == Changes /\ UNCHANGED <<late, grace, path, file, pass, mailbox, past>>

PathChanges ==
    /\ \/ "smtp" \in Happenings /\ path' = [path EXCEPT !.smtp = ~@]
       \/ "credentials" \in Happenings /\ path' = [path EXCEPT !.credentials = ~@]
    /\ pass' = IF pass = NoRun THEN NoRun ELSE [pass EXCEPT !.sound = FALSE]
    /\ UNCHANGED <<late, grace, world, file, mailbox, past>>

Step == Begin \/ ServiceChecks \/ OtherChecks \/ Decide \/ SendEvent \/ SendDigest \/ RecordDigest

Next ==
    \/ BootPass \/ Step
    \/ Morning \/ Midnight \/ PowerLoss \/ GraceOver
    \/ PlatformChanges \/ PathChanges

Spec == Init /\ [][Next]_vars

(***************************************************************************)
(* Properties                                                              *)
(***************************************************************************)

TypeOK ==
    /\ late \in BOOLEAN /\ grace \in BOOLEAN
    /\ file.sig = None \/ file.sig \subseteq Failures
    /\ file.date \in Dates /\ file.restarts \in Counts
    /\ pass # NoRun
       => /\ pass.pc \in {"services", "rest", "decide", "event", "digest", "record"}
          /\ pass.date \in {"earlier", "today"} /\ pass.prev.date \in Dates
          /\ pass.fails \subseteq Failures /\ pass.restarts \in Counts
    /\ mailbox.digests \in 0..3
    /\ past.base \in Counts /\ past.excused \in 0..2

\* One mail per change: a pass decides to send an event only when what fails
\* differs from what the last decision told, however long the mail path has been
\* broken (transitions.sh: a broken mail path cannot turn one state change into
\* an alert on every interval).
NoAlertStorm == At("decide") /\ At("event")' => pass.fails # past.told

\* A working day gets its digest: once a pass begun after DIGEST_HOUR has run to
\* its end with the mail path working throughout, today's digest is in the
\* mailbox, even when passes before it tried and failed.
DigestArrives == past.covered => mailbox.digests > 0

\* And it gets one: a second digest of the day is sent only when the answer to
\* the first was lost, or the machine lost power before recording it.
OneDigest == mailbox.digests <= 1 + past.excused

\* A container that restarted between two passes in a row that listed it is
\* reported by the second, whatever ran or failed in between: the boot-time pass,
\* a docker outage, a pass killed half way (check 5d).  A pass that lists other
\* containers and not this one drops its count, and the next that lists it starts
\* anew: what restarted while it was not listed is not reported.
RestartReported ==
    At("decide") /\ ~At("decide")' /\ ~grace'
    => \A s \in Services :
         past.base[s] >= 0 /\ pass.restarts[s] > past.base[s]
         => "restarts" \in file'.sig

\* A platform and a mail path that have stopped changing, and what a mail would
\* then have to name.
Steady == UNCHANGED world /\ (grace' => grace)
Deliverable == path.smtp /\ path.credentials
Ends == LET base == {f \in {"docker", "services", "probe"} :
                       \/ f = "docker" /\ ~world.docker
                       \/ f = "services" /\ world.docker /\ world.down # {}
                       \/ f = "probe" /\ world.probe}
        IN  base \cup (IF world.docker
                       THEN world.alerts \ (IF world.closed THEN Expected ELSE {})
                       ELSE {})
Known == mailbox.last = Ends

\* A pass that finds the digest's hour gone by.
BeginLate == Begin /\ late
==============================================================================
