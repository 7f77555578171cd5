------------------------------ MODULE HostProofs ------------------------------
(***************************************************************************)
(* Machine-checked proofs about the jobs of the host, which share it and   *)
(* no state: the nightly backup (HostBackup), the boot reconciler with the *)
(* country refresh (HostRepair) and the health daemon (HostWatch).  The    *)
(* last two are instances here.                                            *)
(***************************************************************************)
EXTENDS HostBackup, FiniteSetTheorems, WellFoundedInduction, TLAPS

-----------------------------------------------------------------------------
(* Least and greatest numbers.                                             *)

\* A set of numbers that is not empty has a least one.
LEMMA LeastNumber ==
  ASSUME NEW S \in SUBSET Nat, S # {}
  PROVE  \E x \in S : \A y \in S : x <= y
<1>1. PICK x \in S : \A y \in S : ~ (<<y, x>> \in OpToRel(<, Nat))
  BY WFMin, NatLessThanWellFounded
<1>2. \A y \in S : ~(y < x)
  BY <1>1 DEF OpToRel
<1> QED BY <1>2

\* A bounded set of numbers that is not empty has a greatest one.
LEMMA GreatestNumber ==
  ASSUME NEW S \in SUBSET Nat, S # {}, NEW n \in Nat, \A y \in S : y <= n
  PROVE  \E x \in S : \A y \in S : y <= x
<1> DEFINE T == {n - y : y \in S}
<1>1. T \in SUBSET Nat /\ T # {}
  <2>1. PICK y \in S : TRUE
    OBVIOUS
  <2>2. n - y \in T
    OBVIOUS
  <2>3. \A u \in S : n - u \in Nat
    OBVIOUS
  <2> QED BY <2>2, <2>3
<1>2. PICK z \in T : \A w \in T : z <= w
  BY <1>1, LeastNumber
<1>3. PICK x \in S : z = n - x
  OBVIOUS
<1>4. \A y \in S : n - x <= n - y
  BY <1>2, <1>3
<1> QED BY <1>4


-----------------------------------------------------------------------------
(* The nightly backup: types, and what taking and dropping snapshots does. *)

Success == [run : 0..MaxRuns, day : 0..MaxDay]
Run == [stage : Stages, pc : {"works", "cleanup", "exit"}, id : 1..MaxRuns,
        term : BOOLEAN, began : 0..MaxDay, beside : BOOLEAN, prev : Success]

BackupTypes ==
  /\ TypeOK
  /\ run \in [Runs -> Run \cup {NoRun}]
  /\ \E n \in Nat : \A s \in repo : s.at <= n

\* What a run has captured when it reaches a stage.
Behind(stage) ==
  CASE stage \in {"preflight", "database"} -> {}
    [] stage = "documents" -> {"database"}
    [] stage = "secrets" -> {"database", "documents"}
    [] stage = "manifest" -> {"database", "documents", "secrets"}
    [] OTHER -> Tags

\* The captures follow each other in the order of the script.
LEMMA InOrder ==
  /\ Head(Order) = "database"
  /\ After("database") = "documents" /\ After("documents") = "secrets"
  /\ After("secrets") = "manifest" /\ After("manifest") = "retention"
<1>1. Order = <<"database", "documents", "secrets", "manifest">> /\ Len(Order) = 4
      /\ DOMAIN Order = 1..4
  BY DEF Order
<1>2. Order[1] = "database" /\ Order[2] = "documents" /\ Order[3] = "secrets"
      /\ Order[4] = "manifest" /\ Last(Order) = "manifest" /\ Head(Order) = "database"
  BY <1>1 DEF Last
<1>3. ASSUME NEW k \in 1..3, NEW tag, tag = Order[k]
      PROVE  After(tag) = Order[k + 1]
  <2>1. \A i \in DOMAIN Order : Order[i] = tag <=> i = k
    BY <1>1, <1>2, <1>3
  <2>2. (CHOOSE i \in DOMAIN Order : Order[i] = tag) = k
    BY <2>1, <1>1
  <2>3. tag # Last(Order)
    BY <1>2, <1>3
  <2> QED BY <2>2, <2>3 DEF After
<1>4. After("manifest") = "retention"
  BY <1>2 DEF After
<1> QED BY <1>2, <1>3, <1>4

\* A capture adds one snapshot, newer than all there are.
LEMMA CaptureAdds ==
  ASSUME HostBackupAssumption, BackupTypes, NEW r \in Runs, run[r] # NoRun,
         NEW tag \in Tags, NEW whole \in BOOLEAN
  PROVE  \E x \in Snapshot :
           /\ Take(r, tag, whole) = repo \cup {x}
           /\ x.tag = tag /\ x.run = run[r].id /\ x.day = day /\ x.whole = whole
           /\ \A s \in repo : s.at < x.at
           /\ tag = "database" /\ whole => x.docs = Rows
           /\ tag = "documents" /\ whole => x.docs = Files
<1> DEFINE S == {0} \cup {s.at : s \in repo}
           held == CASE whole /\ tag = "database" -> Rows
                     [] whole /\ tag = "documents" -> Files
                     [] OTHER -> {}
           x == [tag |-> tag, run |-> run[r].id, day |-> day, whole |-> whole,
                 at |-> 1 + Max(S), docs |-> held]
<1>1. \A s \in repo : s.at \in Nat
  BY DEF BackupTypes, TypeOK, Snapshot
<1>2. PICK n \in Nat : \A s \in repo : s.at <= n
  BY DEF BackupTypes
<1>3. S \in SUBSET Nat /\ S # {} /\ \A y \in S : y <= n
  BY <1>1, <1>2
<1>4. PICK m \in S : \A y \in S : y <= m
  BY <1>3, GreatestNumber
<1>5. Max(S) \in S /\ \A y \in S : Max(S) >= y
  <2> HIDE DEF S
  <2>1. \E z \in S : \A y \in S : z >= y
    BY <1>3, <1>4
  <2> QED BY <2>1 DEF Max
<1>6. Max(S) \in Nat
  BY <1>3, <1>5
<1>7. /\ held \in SUBSET Docs
      /\ tag = "database" /\ whole => held = Rows
      /\ tag = "documents" /\ whole => held = Files
  BY DEF Rows, Files
<1>8. x \in Snapshot
  <2>1. run[r].id \in 1..MaxRuns
    BY DEF BackupTypes, Run
  <2>2. day \in 0..MaxDay
    BY DEF BackupTypes, TypeOK
  <2>3. 1 + Max(S) \in Nat
    BY <1>6
  <2> HIDE DEF S, held
  <2> QED BY <2>1, <2>2, <2>3, <1>7 DEF Snapshot
<1>9. \A s \in repo : s.at < 1 + Max(S)
  <2>1. \A s \in repo : s.at \in S
    OBVIOUS
  <2> HIDE DEF S
  <2> QED BY <2>1, <1>1, <1>5, <1>6
<1>10. Take(r, tag, whole) = repo \cup {x}
  BY DEF Take
<1> HIDE DEF S, held
<1> QED BY <1>7, <1>8, <1>9, <1>10

\* Pruning only drops, and never the newest of a tag.
LEMMA PruningKeepsNewest ==
  ASSUME HostBackupAssumption, BackupTypes,
         \A s, t \in repo : s.at <= t.at => s.day <= t.day,
         NEW S, S = UNION {Kept(tag) : tag \in Tags}
  PROVE  /\ S \subseteq repo
         /\ \A x \in repo : (\A t \in repo : t.tag = x.tag /\ t # x => t.at < x.at) => x \in S
<1>1. \A s \in repo : s \in Snapshot /\ s.at \in Nat /\ s.day \in Nat
  <2>1. repo \subseteq Snapshot /\ MaxDay \in Nat
    BY DEF BackupTypes, TypeOK, HostBackupAssumption
  <2> QED BY <2>1 DEF Snapshot
<1>2. PICK n \in Nat : \A s \in repo : s.at <= n
  BY DEF BackupTypes
<1>3. ASSUME NEW G \in SUBSET repo, G # {}
      PROVE  Oldest(G) \in G /\ Newest(G) \in G /\ \A t \in G : t.at <= Newest(G).at
  <2> DEFINE T == {s.at : s \in G}
  <2>1. T \in SUBSET Nat /\ T # {} /\ \A y \in T : y <= n
    BY <1>1, <1>2, <1>3
  <2>2. PICK least \in T : \A y \in T : least <= y
    BY <2>1, LeastNumber
  <2>3. PICK most \in T : \A y \in T : y <= most
    BY <2>1, GreatestNumber
  <2>4. PICK a \in G : a.at = least
    OBVIOUS
  <2>5. PICK b \in G : b.at = most
    OBVIOUS
  <2>6. \A t \in G : t.at >= a.at /\ t.at <= b.at
    BY <2>1, <2>2, <2>3, <2>4, <2>5
  <2> QED BY <2>6 DEF Oldest, Newest
<1>4. ASSUME NEW tag \in Tags
      PROVE  Kept(tag) \subseteq repo
  <2>1. CASE Group(tag) = {}
    BY <2>1 DEF Kept
  <2>2. CASE Group(tag) # {}
    <3>1. Group(tag) \in SUBSET repo
      BY DEF Group
    <3>2. Oldest(Group(tag)) \in repo
      BY <3>1, <2>2, <1>3
    <3>3. ASSUME NEW d \in RecentDays(Group(tag))
          PROVE  Newest({s \in Group(tag) : s.day = d}) \in repo
      <4>1. {s \in Group(tag) : s.day = d} \in SUBSET repo
            /\ {s \in Group(tag) : s.day = d} # {}
        BY <3>1 DEF RecentDays, DaysOf
      <4> QED BY <4>1, <1>3
    <3> QED BY <2>2, <3>2, <3>3 DEF Kept
  <2> QED BY <2>1, <2>2
<1>5. ASSUME NEW tag \in Tags, NEW x \in Group(tag),
             \A t \in Group(tag) : t # x => t.at < x.at
      PROVE  x \in Kept(tag)
  <2> DEFINE G == Group(tag)
  <2>0. \A t \in G : t.day <= x.day
    BY <1>1, <1>5 DEF Group
  <2>1. {e \in DaysOf(G) : e > x.day} = {}
    BY <1>1, <2>0 DEF DaysOf, Group
  <2>2. x.day \in RecentDays(G)
    <3>1. KeepDaily \in Nat /\ 0 < KeepDaily
      BY DEF HostBackupAssumption
    <3>2. Cardinality({e \in DaysOf(G) : e > x.day}) < KeepDaily
      BY <2>1, <3>1, FS_EmptySet
    <3>3. x.day \in DaysOf(G)
      BY DEF DaysOf
    <3> QED BY <3>2, <3>3 DEF RecentDays
  <2>3. {s \in G : s.day = x.day} \in SUBSET repo /\ x \in {s \in G : s.day = x.day}
    BY DEF Group
  <2>4. Newest({s \in G : s.day = x.day}) \in G
        /\ x.at <= Newest({s \in G : s.day = x.day}).at
    BY <2>3, <1>3
  <2>5. Newest({s \in G : s.day = x.day}) = x
    BY <2>4, <1>1, <1>5 DEF Group
  <2> QED BY <2>2, <2>5 DEF Kept
<1>6. ASSUME NEW x \in repo, \A t \in repo : t.tag = x.tag /\ t # x => t.at < x.at
      PROVE  x \in S
  <2>1. x.tag \in Tags /\ x \in Group(x.tag)
    BY <1>1 DEF Group, Snapshot
  <2> QED BY <2>1, <1>5, <1>6 DEF Group
<1> QED BY <1>4, <1>6

\* The stages of a run, as its commands return.
LEMMA StageNext ==
  ASSUME NEW stage \in Stages, stage # "state"
  PROVE  /\ stage \in Tags => After(stage) \in Stages /\ Behind(After(stage)) = Behind(stage) \cup {stage}
                              /\ stage \notin Behind(stage)
         /\ Head(Order) \in Stages /\ Behind(Head(Order)) = Behind("preflight")
BY InOrder DEF Stages, Tags, Behind

\* What a step does to the one run it is about.
Becomes(r, x) == run' = [run EXCEPT ![r] = x]

\* A run moved to a typed state leaves the table of runs typed.
LEMMA RunTyped ==
  ASSUME BackupTypes, NEW r \in Runs, NEW x \in Run \cup {NoRun}, Becomes(r, x)
  PROVE  run' \in [Runs -> Run \cup {NoRun}]
BY DEF BackupTypes, Becomes

\* The ways a run moves on its own: where it then is, and the rest untouched.
Moved(r, x) ==
  /\ x.id = run[r].id /\ x.began = run[r].began /\ x.prev = run[r].prev
  /\ x.beside = run[r].beside

\* A command that returns goes on, or to the trap of a pending TERM.
LEMMA Returns ==
  ASSUME BackupTypes, NEW r \in Runs, run[r] # NoRun, NEW stage \in Stages, Return(r, stage)
  PROVE  \E x \in Run :
           /\ Becomes(r, x)
           /\ Moved(r, x) /\ x.term = run[r].term
           /\ \/ ~run[r].term /\ x.pc = run[r].pc /\ x.stage = stage
              \/ run[r].term /\ x.pc = "exit" /\ x.stage = run[r].stage
<1>1. run[r] \in Run
  BY DEF BackupTypes
<1>2. CASE run[r].term
  <2>1. [run[r] EXCEPT !.pc = "exit"] \in Run
    BY <1>1 DEF Run
  <2>2. Becomes(r, [run[r] EXCEPT !.pc = "exit"])
    BY <1>2 DEF Return, Becomes
  <2> QED BY <1>1, <1>2, <2>1, <2>2 DEF Run, Moved
<1>3. CASE ~run[r].term
  <2>1. [run[r] EXCEPT !.stage = stage] \in Run
    BY <1>1 DEF Run
  <2>2. Becomes(r, [run[r] EXCEPT !.stage = stage])
    BY <1>3 DEF Return, Becomes
  <2> QED BY <1>1, <1>3, <2>1, <2>2 DEF Run, Moved
<1> QED BY <1>2, <1>3

\* A run that starts.
LEMMA Starts ==
  ASSUME HostBackupAssumption, BackupTypes, NEW r \in Runs, Start(r)
  PROVE  \E x \in Run :
           /\ Becomes(r, x) /\ run[r] = NoRun /\ runs' = runs + 1 /\ runs' \in 1..MaxRuns
           /\ x.stage = "preflight" /\ x.pc = "works" /\ x.id = runs + 1 /\ ~x.term
           /\ x.began = day /\ x.prev = (IF state = Absent THEN Never ELSE state.ok)
           /\ x.beside = (Active # {})
<1> DEFINE x == [stage |-> "preflight", pc |-> "works", id |-> runs + 1, term |-> FALSE,
                 began |-> day, beside |-> Active # {}, prev |-> IF state = Absent THEN Never ELSE state.ok]
<1>1. runs \in 0..MaxRuns /\ runs < MaxRuns /\ MaxRuns \in Nat /\ MaxDay \in Nat /\ day \in 0..MaxDay
  BY DEF HostBackupAssumption, BackupTypes, TypeOK, Start
<1>2. Never \in Success
  BY <1>1 DEF Never, Success
<1>3. state # Absent => state.ok \in Success
  BY DEF BackupTypes, TypeOK, Success
<1>4. x \in Run
  BY <1>1, <1>2, <1>3 DEF Run, Stages
<1>5. Becomes(r, x) /\ run[r] = NoRun /\ runs' = runs + 1
  BY DEF Start, Becomes
<1> QED BY <1>1, <1>4, <1>5

\* A run that dies has its state or its trap left to leave behind, and keeps its id
\* and its start.
LEMMA Dies ==
  ASSUME BackupTypes, NEW r \in Runs, run[r] # NoRun, die(r)
  PROVE  \E x \in Run : Becomes(r, x) /\ Moved(r, x) /\ x.pc = "exit" /\ x.term = run[r].term
<1> DEFINE x == [run[r] EXCEPT !.pc = "exit"]
<1>1. run[r] \in Run
  BY DEF BackupTypes
<1>2. x \in Run /\ Moved(r, x) /\ x.pc = "exit" /\ x.term = run[r].term
  BY <1>1 DEF Run, Moved
<1>3. Becomes(r, x)
  BY DEF die, Becomes
<1> QED BY <1>2, <1>3

-----------------------------------------------------------------------------
(* The shapes of a step.                                                   *)

\* A run in progress goes on or ends.
Acts(r, x) ==
  /\ run[r] # NoRun /\ x \in Run \cup {NoRun} /\ Becomes(r, x)
  /\ x # NoRun => /\ Moved(r, x)
                  /\ x.term => run[r].term \/ "term" \in Faults
                  /\ run[r].term => x.term
                  /\ run[r].pc = "exit" => x.pc = "exit"
                  /\ run[r].pc = "cleanup" => x.pc = "cleanup" \/ (x.pc = "exit" /\ x.term)
  /\ UNCHANGED <<day, due, runs, doc>>

\* It waits, checks, fails, is stopped or is done: nothing it wrote changes.
Idles(r, x) ==
  /\ Acts(r, x) /\ UNCHANGED <<repo, state>>
  /\ x # NoRun /\ x.pc = "works" => run[r].pc = "works" /\ Behind(x.stage) = Behind(run[r].stage)

Captures(r, x, whole) ==
  /\ Acts(r, x) /\ UNCHANGED state
  /\ run[r].pc = "works" /\ run[r].stage \in Tags
  /\ repo' = Take(r, run[r].stage, whole)
  /\ run[r].stage \notin Behind(run[r].stage)
  /\ x.pc = "works" => whole /\ Behind(x.stage) = Behind(run[r].stage) \cup {run[r].stage}

Prunes(r, x) ==
  /\ Acts(r, x) /\ UNCHANGED state
  /\ run[r].pc = "works" /\ Behind(run[r].stage) = Tags
  /\ repo' = UNION {Kept(tag) : tag \in Tags}
  /\ x.pc = "works" => Behind(x.stage) = Tags

Succeeds(r, x) ==
  /\ Acts(r, x) /\ UNCHANGED repo
  /\ run[r].pc = "works" /\ Behind(run[r].stage) = Tags /\ x.pc = "cleanup"
  /\ state'.ok = [run |-> run[r].id, day |-> day] /\ state'.outcome = "ok"
  /\ state' = [ok |-> state'.ok, outcome |-> state'.outcome]

Traps(r, x) ==
  /\ Acts(r, x) /\ UNCHANGED repo
  /\ run[r].pc = "exit" /\ x = NoRun
  /\ state'.ok = run[r].prev /\ state'.outcome \in Stages
  /\ state' = [ok |-> state'.ok, outcome |-> state'.outcome]

Begins(r, x) ==
  /\ run[r] = NoRun /\ x \in Run /\ Becomes(r, x) /\ runs' = runs + 1 /\ runs' \in 1..MaxRuns
  /\ x.stage = "preflight" /\ x.pc = "works" /\ x.id = runs + 1 /\ ~x.term
  /\ x.began = day /\ x.prev = (IF state = Absent THEN Never ELSE state.ok)
  /\ Overlap \/ \A q \in Runs : run[q] = NoRun
  /\ x.beside \/ \A q \in Runs : run[q] = NoRun
  /\ due' \in {due, FALSE} /\ UNCHANGED <<day, state, repo, doc>>

\* A document moves on in its life.
Lives(d) ==
  /\ doc' \in [Docs -> {"new", "bytes", "stored", "bytes gone", "gone"}]
  /\ \A e \in Docs : e # d => doc'[e] = doc[e]
  /\ doc[d] \in {"stored", "bytes gone", "gone"} => doc'[d] \in {"bytes gone", "gone"}
  /\ UNCHANGED <<day, due, runs, run, state, repo>>

Shape ==
  \/ \E r \in Runs : \E x \in Run \cup {NoRun} :
       \/ Begins(r, x) \/ Idles(r, x) \/ Prunes(r, x) \/ Succeeds(r, x) \/ Traps(r, x)
       \/ \E whole \in BOOLEAN : Captures(r, x, whole)
  \/ NewDay \/ PowerLoss \/ (\E d \in Docs : Lives(d)) \/ UNCHANGED vars

\* Every step of the specification has one of the shapes above.
LEMMA StepHasShape ==
  ASSUME HostBackupAssumption, BackupTypes, [Next]_vars
  PROVE  Shape
<1>1. ASSUME NEW r \in Runs, Start(r), due' \in {due, FALSE}, UNCHANGED <<day, state, repo, doc>>
      PROVE  Shape
  <2>1. PICK x \in Run :
           /\ Becomes(r, x) /\ run[r] = NoRun /\ runs' = runs + 1 /\ runs' \in 1..MaxRuns
           /\ x.stage = "preflight" /\ x.pc = "works" /\ x.id = runs + 1 /\ ~x.term
           /\ x.began = day /\ x.prev = (IF state = Absent THEN Never ELSE state.ok)
           /\ x.beside = (Active # {})
    BY <1>1, Starts
  <2>2. /\ Overlap \/ \A q \in Runs : run[q] = NoRun
        /\ x.beside \/ \A q \in Runs : run[q] = NoRun
    BY <1>1, <2>1 DEF Start, Active
  <2>3. Begins(r, x)
    BY <1>1, <2>1, <2>2 DEF Begins
  <2> QED BY <2>3 DEF Shape
<1>2. ASSUME NEW r \in Runs, run[r] # NoRun,
             Command(r) \/ Fails(r) \/ CaptureCut(r) \/ on_exit(r) \/ Watchdog(r)
      PROVE  Shape
  <2>1. run[r] \in Run /\ run[r].stage \in Stages
    BY <1>2 DEF BackupTypes, Run
  <2>2. CASE Preflight(r)
    <3>1. Head(Order) \in Stages /\ Behind(Head(Order)) = Behind("preflight")
      BY StageNext DEF Stages
    <3>2. PICK x \in Run :
             /\ Becomes(r, x)
             /\ Moved(r, x) /\ x.term = run[r].term
             /\ \/ ~run[r].term /\ x.pc = run[r].pc /\ x.stage = Head(Order)
                \/ run[r].term /\ x.pc = "exit" /\ x.stage = run[r].stage
      BY <1>2, <2>2, <3>1, Returns DEF Preflight
    <3>3. run[r].stage = "preflight" /\ run[r].pc = "works"
      BY <2>2 DEF Preflight, Works
    <3>4. Idles(r, x)
      BY <1>2, <2>2, <3>1, <3>2, <3>3 DEF Idles, Acts, Moved, Preflight
    <3> QED BY <3>4 DEF Shape
  <2>3. CASE Capture(r)
    <3>1. run[r].stage \in Tags /\ run[r].pc = "works"
      BY <2>3 DEF Capture, Works
    <3>2. /\ After(run[r].stage) \in Stages /\ run[r].stage \notin Behind(run[r].stage)
          /\ Behind(After(run[r].stage)) = Behind(run[r].stage) \cup {run[r].stage}
      BY <3>1, StageNext DEF Stages, Tags
    <3>3. PICK x \in Run :
             /\ Becomes(r, x)
             /\ Moved(r, x) /\ x.term = run[r].term
             /\ \/ ~run[r].term /\ x.pc = run[r].pc /\ x.stage = After(run[r].stage)
                \/ run[r].term /\ x.pc = "exit" /\ x.stage = run[r].stage
      BY <1>2, <2>3, <3>2, Returns DEF Capture
    <3>4. Captures(r, x, TRUE)
      BY <1>2, <2>3, <3>1, <3>2, <3>3 DEF Captures, Acts, Moved, Capture
    <3> QED BY <3>4 DEF Shape
  <2>4. CASE Retention(r) \/ Verify(r)
    <3> DEFINE next == IF Retention(r) THEN "verify" ELSE "state"
    <3>1. /\ run[r].stage \in {"retention", "verify"} /\ run[r].pc = "works"
          /\ next \in Stages /\ Return(r, next) /\ Behind(next) = Tags /\ Behind(run[r].stage) = Tags
      BY <2>4 DEF Retention, Verify, Works, Stages, Behind
    <3> HIDE DEF next
    <3>2. PICK x \in Run :
             /\ Becomes(r, x)
             /\ Moved(r, x) /\ x.term = run[r].term
             /\ \/ ~run[r].term /\ x.pc = run[r].pc /\ x.stage = next
                \/ run[r].term /\ x.pc = "exit" /\ x.stage = run[r].stage
      BY <1>2, <3>1, Returns
    <3>3. Acts(r, x) /\ UNCHANGED state /\ (x.pc = "works" => Behind(x.stage) = Tags)
      BY <1>2, <2>4, <3>1, <3>2 DEF Acts, Moved, Retention, Verify
    <3>4. Prunes(r, x) \/ Idles(r, x)
      BY <2>4, <3>1, <3>3 DEF Prunes, Idles, Retention, Verify
    <3> QED BY <3>4 DEF Shape
  <2>5. CASE RecordSuccess(r)
    <3> DEFINE x == [run[r] EXCEPT !.pc = "cleanup"]
    <3>1. x \in Run /\ Moved(r, x) /\ x.pc = "cleanup" /\ x.term = run[r].term
      BY <2>1 DEF Run, Moved
    <3>2. Becomes(r, x) /\ run[r].pc = "works" /\ Behind(run[r].stage) = Tags
      BY <2>5 DEF RecordSuccess, Becomes, Works, Behind
    <3> HIDE DEF x
    <3>3. Succeeds(r, x)
      BY <1>2, <2>5, <3>1, <3>2 DEF RecordSuccess, Succeeds, Acts
    <3> QED BY <3>1, <3>3 DEF Shape
  <2>6. CASE Done(r) /\ run[r].term
    <3> DEFINE x == [run[r] EXCEPT !.pc = "exit"]
    <3>1. x \in Run /\ Moved(r, x) /\ x.pc = "exit" /\ x.term = run[r].term
      BY <2>1 DEF Run, Moved
    <3>2. Becomes(r, x)
      BY <2>6 DEF Done, Becomes
    <3> HIDE DEF x
    <3>3. Idles(r, x)
      BY <1>2, <2>6, <3>1, <3>2 DEF Done, Idles, Acts
    <3> QED BY <3>1, <3>3 DEF Shape
  <2>7. CASE Done(r) /\ ~run[r].term
    <3>1. Becomes(r, NoRun)
      BY <2>7 DEF Done, Becomes
    <3>2. Idles(r, NoRun)
      BY <1>2, <2>7, <3>1 DEF Done, Idles, Acts
    <3> QED BY <3>2 DEF Shape
  <2>8. CASE Fails(r)
    <3>1. PICK x \in Run : Becomes(r, x) /\ Moved(r, x) /\ x.pc = "exit" /\ x.term = run[r].term
      BY <1>2, <2>8, Dies DEF Fails
    <3>2. run[r].pc = "works"
      BY <2>8 DEF Fails, Works
    <3>3. Idles(r, x)
      BY <1>2, <2>8, <3>1, <3>2 DEF Fails, Idles, Acts
    <3> QED BY <3>3 DEF Shape
  <2>9. CASE CaptureCut(r)
    <3>1. PICK x \in Run : Becomes(r, x) /\ Moved(r, x) /\ x.pc = "exit" /\ x.term = run[r].term
      BY <1>2, <2>9, Dies DEF CaptureCut
    <3>2. run[r].pc = "works" /\ run[r].stage \in Tags
      BY <2>9 DEF CaptureCut, Works
    <3>3. run[r].stage \notin Behind(run[r].stage)
      BY <3>2, StageNext DEF Stages, Tags
    <3>4. Captures(r, x, FALSE)
      BY <1>2, <2>9, <3>1, <3>2, <3>3 DEF CaptureCut, Captures, Acts
    <3> QED BY <3>4 DEF Shape
  <2>10. CASE on_exit(r)
    <3>1. Becomes(r, NoRun) /\ run[r].pc = "exit"
      BY <2>10 DEF on_exit, Becomes
    <3>2. Traps(r, NoRun)
      BY <1>2, <2>1, <2>10, <3>1 DEF on_exit, Traps, Acts
    <3> QED BY <3>2 DEF Shape
  <2>11. CASE Watchdog(r)
    <3> DEFINE x == [run[r] EXCEPT !.term = TRUE]
    <3>1. /\ x \in Run /\ Moved(r, x) /\ x.pc = run[r].pc /\ x.stage = run[r].stage
      BY <2>1 DEF Run, Moved
    <3>2. Becomes(r, x) /\ "term" \in Faults
      BY <2>11 DEF Watchdog, Becomes
    <3> HIDE DEF x
    <3>3. Idles(r, x)
      BY <1>2, <2>11, <3>1, <3>2 DEF Watchdog, Idles, Acts
    <3> QED BY <3>1, <3>3 DEF Shape
  <2> QED BY <1>2, <2>2, <2>3, <2>4, <2>5, <2>6, <2>7, <2>8, <2>9, <2>10, <2>11 DEF Command
<1>3. ASSUME NEW d \in Docs, PutOriginal(d) \/ SaveDocument(d) \/ DeleteBytes(d) \/ DeleteRow(d)
      PROVE  Shape
  <2>1. doc \in [Docs -> {"new", "bytes", "stored", "bytes gone", "gone"}]
    BY DEF BackupTypes, TypeOK
  <2>2. Lives(d)
    BY <1>3, <2>1 DEF PutOriginal, SaveDocument, DeleteBytes, DeleteRow, Lives
  <2> QED BY <2>2 DEF Shape
<1>4. ASSUME NEW r \in Runs, Command(r) \/ Fails(r) \/ CaptureCut(r) \/ on_exit(r) \/ Watchdog(r)
      PROVE  run[r] # NoRun
  BY <1>4 DEF Command, Preflight, Capture, Retention, Verify, RecordSuccess, Done, Fails,
     CaptureCut, on_exit, Watchdog, Works
<1>5. CASE Next
  <2>1. CASE Fire \/ ByHand
    BY <1>1, <2>1 DEF Fire, ByHand
  <2>2. CASE NewDay \/ PowerLoss
    BY <2>2 DEF Shape
  <2> QED BY <1>2, <1>3, <1>4, <1>5, <2>1, <2>2 DEF Next
<1>6. CASE UNCHANGED vars
  BY <1>6 DEF Shape
<1> QED BY <1>5, <1>6

-----------------------------------------------------------------------------
(* What holds also when runs overlap: runs are told apart by their number, *)
(* snapshots are stamped in time, and a set lacks only what is going.      *)

InProgress == {r \in Runs : run[r] # NoRun}

Numbered ==
  \A r \in InProgress :
    /\ run[r].id <= runs /\ run[r].began <= day /\ day <= run[r].began + 1
    /\ \A q \in InProgress : run[q].id = run[r].id => q = r

Stamped ==
  \A s \in repo :
    /\ s.run <= runs /\ s.day <= day
    /\ \A t \in repo : s.at <= t.at => s.day <= t.day

\* A run has snapshots of the stages behind it only.
Ahead ==
  \A r \in InProgress : run[r].pc = "works" =>
    \A s \in repo : s.run = run[r].id => s.tag \in Behind(run[r].stage)

Going == {"bytes gone", "gone"}

\* A captured row stays or goes, and its file is in the set unless it goes.
Dangling ==
  \A s \in repo : s.tag = "database" /\ s.whole =>
    /\ s.docs \subseteq Docs
    /\ \A d \in s.docs : doc[d] \in Going \cup {"stored"}
    /\ \A f \in repo : f.tag = "documents" /\ f.whole /\ f.run = s.run =>
         \A d \in s.docs \ f.docs : doc[d] \in Going

BackupInv == BackupTypes /\ Numbered /\ Stamped /\ Ahead /\ Dangling

\* A step of one run leaves the others where they are.
LEMMA OthersStay ==
  ASSUME BackupTypes, NEW r \in Runs, NEW x, Becomes(r, x)
  PROVE  /\ run'[r] = x
         /\ \A q \in Runs : q # r => run'[q] = run[q]
BY DEF BackupTypes, Becomes

\* Numbers, days and records have the types the code gives them.
LEMMA Facts ==
  ASSUME HostBackupAssumption, BackupTypes
  PROVE  /\ day \in Nat /\ runs \in Nat /\ MaxDay \in Nat /\ MaxRuns \in Nat
         /\ day <= MaxDay /\ runs <= MaxRuns
         /\ run \in [Runs -> Run \cup {NoRun}]
         /\ \A r \in Runs : run[r] # NoRun => run[r] \in Run
         /\ \A x \in Run : x.id \in Nat /\ x.id >= 1 /\ x.began \in Nat /\ x.prev \in Success
         /\ \A x \in Success : x.run \in Nat /\ x.day \in Nat
         /\ \A s \in Snapshot : /\ s.tag \in Tags /\ s.run \in Nat /\ s.day \in Nat /\ s.at \in Nat
                                /\ s.run >= 1 /\ s.whole \in BOOLEAN /\ s.docs \subseteq Docs
         /\ repo \subseteq Snapshot
         /\ doc \in [Docs -> {"new", "bytes", "stored", "bytes gone", "gone"}]
         /\ state # Absent => state.ok \in Success
<1>a. MaxDay \in Nat /\ MaxRuns \in Nat /\ day \in 0..MaxDay /\ runs \in 0..MaxRuns
  BY DEF BackupTypes, TypeOK, HostBackupAssumption
<1>1. /\ run \in [Runs -> Run \cup {NoRun}] /\ repo \subseteq Snapshot
      /\ doc \in [Docs -> {"new", "bytes", "stored", "bytes gone", "gone"}]
      /\ state # Absent => state.ok \in Success
  BY DEF BackupTypes, TypeOK, HostBackupAssumption, Success
<1>b. (\A n \in 0..MaxDay : n \in Nat) /\ (\A n \in 0..MaxRuns : n \in Nat)
      /\ (\A n \in 1..MaxRuns : n \in Nat /\ n >= 1)
  BY <1>a
<1>2. ASSUME NEW x \in Run
      PROVE  x.id \in Nat /\ x.id >= 1 /\ x.began \in Nat /\ x.prev \in Success
  <2>1. x.id \in 1..MaxRuns /\ x.began \in 0..MaxDay /\ x.prev \in Success
    BY DEF Run
  <2> QED BY <2>1, <1>b
<1>3. ASSUME NEW x \in Success
      PROVE  x.run \in Nat /\ x.day \in Nat
  <2>1. x.run \in 0..MaxRuns /\ x.day \in 0..MaxDay
    BY DEF Success
  <2> QED BY <2>1, <1>b
<1>4. ASSUME NEW s \in Snapshot
      PROVE  /\ s.tag \in Tags /\ s.run \in Nat /\ s.day \in Nat /\ s.at \in Nat
             /\ s.run >= 1 /\ s.whole \in BOOLEAN /\ s.docs \subseteq Docs
  <2>1. /\ s.tag \in Tags /\ s.run \in 1..MaxRuns /\ s.day \in 0..MaxDay /\ s.at \in Nat
        /\ s.whole \in BOOLEAN /\ s.docs \in SUBSET Docs
    BY DEF Snapshot
  <2> QED BY <2>1, <1>b
<1>5. day \in Nat /\ runs \in Nat /\ day <= MaxDay /\ runs <= MaxRuns
  BY <1>a
<1>6. \A r \in Runs : run[r] # NoRun => run[r] \in Run
  BY <1>1
<1> QED BY <1>a, <1>1, <1>2, <1>3, <1>4, <1>5, <1>6

\* Every step keeps the types.
LEMMA BackupTypesKept ==
  ASSUME HostBackupAssumption, BackupTypes, Stamped, Shape
  PROVE  BackupTypes'
<1> DEFINE Kind == [ok : Success, outcome : Stages \cup {"ok", "none"}]
           Bounded(S) == \E n \in Nat : \A s \in S : s.at <= n
           Typed == /\ day' \in 0..MaxDay /\ due' \in BOOLEAN /\ runs' \in 0..MaxRuns
                    /\ run' \in [Runs -> Run \cup {NoRun}]
                    /\ state' # Absent => state' \in Kind
                    /\ repo' \subseteq Snapshot /\ Bounded(repo')
                    /\ doc' \in [Docs -> {"new", "bytes", "stored", "bytes gone", "gone"}]
<1>a. MaxDay \in Nat /\ MaxRuns \in Nat /\ day \in 0..MaxDay /\ runs \in 0..MaxRuns
  BY DEF BackupTypes, TypeOK, HostBackupAssumption
<1>0. /\ day \in 0..MaxDay /\ due \in BOOLEAN /\ runs \in 0..MaxRuns
      /\ run \in [Runs -> Run \cup {NoRun}] /\ repo \subseteq Snapshot
      /\ doc \in [Docs -> {"new", "bytes", "stored", "bytes gone", "gone"}]
      /\ \A r \in Runs : run[r] # NoRun => run[r] \in Run
      /\ state # Absent => state \in Kind
      /\ Bounded(repo)
  BY DEF BackupTypes, TypeOK, HostBackupAssumption, Success
<1>1. Typed => BackupTypes'
  <2> SUFFICES ASSUME Typed PROVE BackupTypes'
    OBVIOUS
  <2>1. \A r \in Runs : run'[r] # NoRun => run'[r] \in Run
    OBVIOUS
  <2> QED BY <2>1 DEF BackupTypes, TypeOK, Active, Success, Run
<1> SUFFICES Typed
  BY <1>1
<1> HIDE DEF Kind
<1>2. ASSUME NEW r \in Runs, NEW x \in Run \cup {NoRun}, Becomes(r, x)
      PROVE  run' \in [Runs -> Run \cup {NoRun}]
  BY <1>2, RunTyped
<1>3. ASSUME NEW r \in Runs, NEW x \in Run \cup {NoRun},
             Begins(r, x) \/ Idles(r, x) \/ Prunes(r, x) \/ Succeeds(r, x) \/ Traps(r, x)
             \/ \E whole \in BOOLEAN : Captures(r, x, whole)
      PROVE  Typed
  <2>1. run' \in [Runs -> Run \cup {NoRun}] /\ day' = day /\ doc' = doc /\ due' \in {due, FALSE}
    BY <1>2, <1>3 DEF Begins, Idles, Prunes, Succeeds, Traps, Captures, Acts
  <2>2. runs' \in 0..MaxRuns
    <3>1. runs' = runs \/ runs' \in 1..MaxRuns
      BY <1>3 DEF Begins, Idles, Prunes, Succeeds, Traps, Captures, Acts
    <3> QED BY <3>1, <1>a
  <2>3. state' # Absent => state' \in Kind
    <3>1. CASE Succeeds(r, x)
      <4>1. run[r] \in Run /\ run[r].id \in 1..MaxRuns
        BY <3>1, <1>0 DEF Succeeds, Acts, Run
      <4>2. [run |-> run[r].id, day |-> day] \in Success
        <5>1. /\ [run |-> run[r].id, day |-> day].run \in 0..MaxRuns
              /\ [run |-> run[r].id, day |-> day].day \in 0..MaxDay
          BY <4>1, <1>a
        <5> QED BY <5>1 DEF Success
      <4>3. [ok |-> state'.ok, outcome |-> state'.outcome] \in Kind
        BY <3>1, <4>2 DEF Succeeds, Kind
      <4> QED BY <3>1, <4>3 DEF Succeeds
    <3>2. CASE Traps(r, x)
      <4>1. run[r].prev \in Success
        BY <3>2, <1>0 DEF Traps, Acts, Run
      <4>2. [ok |-> state'.ok, outcome |-> state'.outcome] \in Kind
        BY <3>2, <4>1 DEF Traps, Kind
      <4> QED BY <3>2, <4>2 DEF Traps
    <3>3. CASE ~Succeeds(r, x) /\ ~Traps(r, x)
      BY <3>3, <1>0, <1>3 DEF Begins, Idles, Prunes, Captures
    <3> QED BY <3>1, <3>2, <3>3
  <2>4. repo' \subseteq Snapshot /\ Bounded(repo')
    <3>1. CASE \E whole \in BOOLEAN : Captures(r, x, whole)
      <4>1. PICK whole \in BOOLEAN : Captures(r, x, whole)
        BY <3>1
      <4>2. PICK y \in Snapshot : repo' = repo \cup {y} /\ \A s \in repo : s.at < y.at
        BY <4>1, CaptureAdds DEF Captures, Acts
      <4>3. y.at \in Nat /\ \A s \in repo : s.at \in Nat
        BY <1>0 DEF Snapshot
      <4>4. \A s \in repo' : s.at <= y.at
        BY <4>2, <4>3
      <4> QED BY <1>0, <4>2, <4>3, <4>4
    <3>2. CASE Prunes(r, x)
      <4>1. repo' \subseteq repo
        BY <3>2, PruningKeepsNewest DEF Prunes, Stamped
      <4> QED BY <1>0, <4>1
    <3>3. CASE repo' = repo
      BY <3>3, <1>0
    <3> QED BY <3>1, <3>2, <3>3, <1>3 DEF Begins, Idles, Succeeds, Traps
  <2> QED BY <1>0, <2>1, <2>2, <2>3, <2>4
<1>4. CASE NewDay
  <2>1. day' \in 0..MaxDay /\ due' \in BOOLEAN
    BY <1>a, <1>4 DEF NewDay
  <2> QED BY <1>0, <1>4, <2>1 DEF NewDay
<1>5. CASE PowerLoss
  <2>1. run' \in [Runs -> Run \cup {NoRun}]
    BY <1>5 DEF PowerLoss
  <2>2. Torn \in Kind
    <3>1. [run |-> 0, day |-> 0] \in Success
      BY <1>a DEF Success
    <3> QED BY <3>1 DEF Torn, Never, Kind
  <2> QED BY <1>0, <1>5, <2>1, <2>2 DEF PowerLoss
<1>6. CASE \E d \in Docs : Lives(d)
  BY <1>0, <1>6 DEF Lives
<1>7. CASE UNCHANGED vars
  BY <1>0, <1>7 DEF vars
<1> QED BY <1>3, <1>4, <1>5, <1>6, <1>7 DEF Shape

\* A run that goes on keeps its number, its day and what it read at its start.
LEMMA GoesOn ==
  ASSUME BackupTypes, NEW r \in Runs, NEW x \in Run \cup {NoRun}, Acts(r, x)
  PROVE  \A q \in InProgress' :
           /\ q \in InProgress /\ run'[q].id = run[q].id /\ run'[q].began = run[q].began
           /\ run'[q].prev = run[q].prev
           /\ q # r => run'[q] = run[q]
           /\ q = r => run'[q] = x /\ x # NoRun
<1>1. Becomes(r, x) /\ run[r] # NoRun /\ (x # NoRun => Moved(r, x))
  BY DEF Acts
<1>2. run'[r] = x /\ \A q \in Runs : q # r => run'[q] = run[q]
  BY <1>1, OthersStay
<1> QED BY <1>1, <1>2 DEF InProgress, Moved

\* The same for a run that has begun: it is the new one, the others go on.
LEMMA BegunOrBefore ==
  ASSUME BackupTypes, NEW r \in Runs, NEW x \in Run, Begins(r, x)
  PROVE  \A q \in InProgress' :
           \/ q = r /\ run'[q] = x /\ q \notin InProgress
           \/ q # r /\ q \in InProgress /\ run'[q] = run[q]
<1>1. Becomes(r, x) /\ run[r] = NoRun
  BY DEF Begins
<1>2. run'[r] = x /\ \A q \in Runs : q # r => run'[q] = run[q]
  BY <1>1, OthersStay
<1> QED BY <1>1, <1>2 DEF InProgress

\* A run of the machine in progress acts: what Shape lists, without the details.
Working(r, x) ==
  Idles(r, x) \/ Prunes(r, x) \/ Succeeds(r, x) \/ Traps(r, x)
  \/ \E whole \in BOOLEAN : Captures(r, x, whole)

\* The shapes of a step, one by one.
LEMMA ShapeCases ==
  ASSUME Shape
  PROVE  \/ \E r \in Runs : \E x \in Run : Begins(r, x)
         \/ \E r \in Runs : \E x \in Run \cup {NoRun} : Working(r, x)
         \/ NewDay \/ PowerLoss \/ (\E d \in Docs : Lives(d)) \/ UNCHANGED vars
BY DEF Shape, Working, Begins

\* A working step is an act of one run in progress; days, deadlines and rows rest.
LEMMA WorkingActs ==
  ASSUME NEW r, NEW x, Working(r, x)
  PROVE  Acts(r, x) /\ run[r] # NoRun /\ UNCHANGED <<day, due, runs, doc>>
BY DEF Working, Idles, Prunes, Succeeds, Traps, Captures, Acts

\* After the power is back nothing is in progress.
LEMMA PowerEndsAll ==
  ASSUME PowerLoss
  PROVE  InProgress' = {}
BY DEF PowerLoss, InProgress

\* Runs keep apart.
LEMMA NumberedKept ==
  ASSUME HostBackupAssumption, BackupTypes, Numbered, Shape
  PROVE  Numbered'
<1>0. day \in Nat /\ runs \in Nat /\ \A q \in InProgress : run[q].id \in Nat /\ run[q].began \in Nat
  BY Facts DEF InProgress
<1> SUFFICES ASSUME NEW q \in InProgress'
             PROVE  /\ run'[q].id <= runs' /\ run'[q].began <= day' /\ day' <= run'[q].began + 1
                    /\ \A p \in InProgress' : run'[p].id = run'[q].id => p = q
  BY DEF Numbered
<1>1. ASSUME NEW r \in Runs, NEW x \in Run, Begins(r, x)
      PROVE  /\ run'[q].id <= runs' /\ run'[q].began <= day' /\ day' <= run'[q].began + 1
             /\ \A p \in InProgress' : run'[p].id = run'[q].id => p = q
  <2>1. \A p \in InProgress' :
          \/ p = r /\ run'[p] = x /\ p \notin InProgress
          \/ p # r /\ p \in InProgress /\ run'[p] = run[p]
    BY <1>1, BegunOrBefore
  <2>2. x.id = runs + 1 /\ x.began = day /\ runs' = runs + 1 /\ day' = day
    BY <1>1 DEF Begins
  <2>3. \A p \in InProgress : run[p].id <= runs /\ run[p].id # runs + 1
    BY <1>0 DEF Numbered
  <2>4. /\ run'[q].id <= runs' /\ run'[q].began <= day' /\ day' <= run'[q].began + 1
    BY <2>1, <2>2, <1>0 DEF Numbered
  <2>5. \A p \in InProgress' : run'[p].id = run'[q].id => p = q
    BY <2>1, <2>2, <2>3 DEF Numbered
  <2> QED BY <2>4, <2>5
<1>2. ASSUME NEW r \in Runs, NEW x \in Run \cup {NoRun}, Working(r, x)
      PROVE  /\ run'[q].id <= runs' /\ run'[q].began <= day' /\ day' <= run'[q].began + 1
             /\ \A p \in InProgress' : run'[p].id = run'[q].id => p = q
  <2>1. \A p \in InProgress' : /\ p \in InProgress /\ run'[p].id = run[p].id
                               /\ run'[p].began = run[p].began
    BY <1>2, WorkingActs, GoesOn
  <2>2. runs' = runs /\ day' = day
    BY <1>2, WorkingActs
  <2> QED BY <2>1, <2>2 DEF Numbered
<1>3. CASE NewDay
  <2>1. run' = run /\ runs' = runs /\ day' = day + 1 /\ InProgress' = InProgress
        /\ \A p \in InProgress : run[p].began = day
    BY <1>3 DEF NewDay, Active, InProgress
  <2> QED BY <2>1, <1>0 DEF Numbered
<1>4. CASE PowerLoss
  BY <1>4, PowerEndsAll
<1>5. CASE (\E d \in Docs : Lives(d)) \/ UNCHANGED vars
  BY <1>5 DEF Lives, vars, Numbered, InProgress
<1> QED BY <1>1, <1>2, <1>3, <1>4, <1>5, ShapeCases

\* What a capture adds bears the number and the day of its run, and is the newest.
LEMMA CaptureShape ==
  ASSUME HostBackupAssumption, BackupTypes, NEW r \in Runs, NEW x, NEW whole \in BOOLEAN,
         Captures(r, x, whole)
  PROVE  \E y \in Snapshot :
           /\ repo' = repo \cup {y}
           /\ y.tag = run[r].stage /\ y.run = run[r].id /\ y.day = day /\ y.whole = whole
           /\ \A s \in repo : s.at < y.at
           /\ y.tag = "database" /\ whole => y.docs = Rows
           /\ y.tag = "documents" /\ whole => y.docs = Files
<1>1. run[r] # NoRun /\ run[r].stage \in Tags /\ repo' = Take(r, run[r].stage, whole)
  BY DEF Captures, Acts
<1> QED BY <1>1, CaptureAdds

\* The repository loses snapshots to a pruning and gains one by a capture only.
LEMMA RepoMoves ==
  ASSUME HostBackupAssumption, BackupTypes, Stamped, Shape
  PROVE  \/ repo' \subseteq repo
         \/ \E r \in Runs : \E x \in Run \cup {NoRun} : \E whole \in BOOLEAN : Captures(r, x, whole)
<1>1. ASSUME NEW r, NEW x, Prunes(r, x) PROVE repo' \subseteq repo
  BY <1>1, PruningKeepsNewest DEF Prunes, Stamped
<1> QED BY <1>1 DEF Shape, Begins, Idles, Succeeds, Traps, NewDay, PowerLoss, Lives, vars

\* Days and run numbers only grow.
LEMMA TimeGrows ==
  ASSUME HostBackupAssumption, BackupTypes, Shape
  PROVE  day' \in Nat /\ day <= day' /\ runs' \in Nat /\ runs <= runs'
<1>0. day \in Nat /\ runs \in Nat
  BY Facts
<1>1. day' \in {day, day + 1} /\ runs' \in {runs, runs + 1}
  BY ShapeCases, WorkingActs DEF Begins, NewDay, PowerLoss, Lives, vars
<1> QED BY <1>0, <1>1

\* Stamps stay in time.
LEMMA StampedKept ==
  ASSUME HostBackupAssumption, BackupTypes, Numbered, Stamped, Shape
  PROVE  Stamped'
<1>0. day \in Nat /\ runs \in Nat /\ day' \in Nat /\ day <= day' /\ runs' \in Nat /\ runs <= runs'
  BY Facts, TimeGrows
<1>a. \A s \in repo : s.run \in Nat /\ s.day \in Nat /\ s.at \in Nat
  BY Facts
<1>b. \A s \in repo : s.run <= runs' /\ s.day <= day'
  BY <1>0, <1>a DEF Stamped
<1>1. CASE repo' \subseteq repo
  BY <1>1, <1>b DEF Stamped
<1>2. ASSUME NEW r \in Runs, NEW x \in Run \cup {NoRun}, NEW whole \in BOOLEAN, Captures(r, x, whole)
      PROVE  Stamped'
  <2>1. PICK y \in Snapshot :
           /\ repo' = repo \cup {y} /\ y.run = run[r].id /\ y.day = day
           /\ \A s \in repo : s.at < y.at
    BY <1>2, CaptureShape
  <2>2. y.at \in Nat
    BY Facts
  <2>3. run[r].id <= runs
    BY <1>2 DEF Captures, Acts, Numbered, InProgress
  <2>4. run[r].id \in Nat
    BY <2>1, Facts
  <2>5. y.run <= runs' /\ y.day <= day'
    BY <1>0, <2>1, <2>3, <2>4
  <2>6. \A s \in repo : s.day <= y.day /\ ~(y.at <= s.at)
    BY <2>1, <2>2, <1>a DEF Stamped
  <2> QED BY <1>0, <1>b, <2>1, <2>5, <2>6 DEF Stamped
<1> QED BY <1>1, <1>2, RepoMoves

\* A run never has snapshots of a stage before it.
LEMMA AheadKept ==
  ASSUME HostBackupAssumption, BackupTypes, Numbered, Stamped, Ahead, Shape
  PROVE  Ahead'
<1>0. \A s \in repo : s.tag \in Tags /\ s.run \in Nat
  BY Facts
<1> SUFFICES ASSUME NEW q \in InProgress', run'[q].pc = "works",
                    NEW s \in repo', s.run = run'[q].id
             PROVE  s.tag \in Behind(run'[q].stage)
  BY DEF Ahead
<1>1. ASSUME NEW r \in Runs, NEW x \in Run, Begins(r, x)
      PROVE  s.tag \in Behind(run'[q].stage)
  <2>1. \/ q = r /\ run'[q] = x /\ q \notin InProgress
        \/ q # r /\ q \in InProgress /\ run'[q] = run[q]
    BY <1>1, BegunOrBefore
  <2>2. x.id = runs + 1 /\ repo' = repo
    BY <1>1 DEF Begins
  <2>3. s.run # runs + 1
    <3>1. runs \in Nat /\ s.run \in Nat /\ s.run <= runs
      BY <2>2, <1>0, Facts DEF Stamped
    <3> QED BY <3>1
  <2> QED BY <2>1, <2>2, <2>3 DEF Ahead
<1>2. ASSUME NEW r \in Runs, NEW x \in Run \cup {NoRun}, Working(r, x)
      PROVE  s.tag \in Behind(run'[q].stage)
  <2>1. /\ q \in InProgress /\ run'[q].id = run[q].id
        /\ q # r => run'[q] = run[q]
        /\ q = r => run'[q] = x /\ x # NoRun
    BY <1>2, WorkingActs, GoesOn
  <2>2. CASE Idles(r, x)
    BY <2>1, <2>2 DEF Idles, Ahead
  <2>3. CASE Prunes(r, x)
    <3>1. repo' \subseteq repo
      BY <2>3, PruningKeepsNewest DEF Prunes, Stamped
    <3> QED BY <2>1, <2>3, <3>1, <1>0 DEF Prunes, Ahead
  <2>4. CASE Succeeds(r, x) \/ Traps(r, x)
    BY <2>1, <2>4 DEF Succeeds, Traps, Ahead
  <2>5. ASSUME NEW whole \in BOOLEAN, Captures(r, x, whole)
        PROVE  s.tag \in Behind(run'[q].stage)
    <3>1. PICK y : /\ repo' = repo \cup {y} /\ y.tag = run[r].stage /\ y.run = run[r].id
      BY <2>5, CaptureShape
    <3>2. r \in InProgress
      BY <1>2, WorkingActs DEF InProgress
    <3>3. CASE q = r
      BY <2>1, <2>5, <3>1, <3>2, <3>3 DEF Captures, Ahead
    <3>4. CASE q # r
      <4>1. run[r].id # run[q].id
        BY <2>1, <3>2, <3>4 DEF Numbered
      <4> QED BY <2>1, <3>1, <3>4, <4>1 DEF Ahead
    <3> QED BY <3>3, <3>4
  <2> QED BY <1>2, <2>2, <2>3, <2>4, <2>5 DEF Working
<1>3. CASE PowerLoss
  BY <1>3, PowerEndsAll
<1>4. CASE NewDay \/ (\E d \in Docs : Lives(d)) \/ UNCHANGED vars
  BY <1>4 DEF NewDay, Lives, vars, Ahead, InProgress
<1> QED BY <1>1, <1>2, <1>3, <1>4, ShapeCases

\* A complete set lacks only the files of documents that go.
LEMMA DanglingKept ==
  ASSUME HostBackupAssumption, BackupTypes, Stamped, Ahead, Dangling, Shape
  PROVE  Dangling'
<1>1. ASSUME repo' \subseteq repo, doc' = doc
      PROVE  Dangling'
  BY <1>1 DEF Dangling, Going
<1>2. ASSUME NEW e \in Docs, Lives(e)
      PROVE  Dangling'
  <2>1. repo' = repo /\ \A d \in Docs : doc[d] \in Going \cup {"stored"} => doc'[d] \in Going \cup {"stored"}
    BY <1>2 DEF Lives, Going
  <2>2. \A d \in Docs : doc[d] \in Going => doc'[d] \in Going
    BY <1>2 DEF Lives, Going
  <2> QED BY <2>1, <2>2 DEF Dangling
<1>3. ASSUME NEW r \in Runs, NEW x \in Run \cup {NoRun}, NEW whole \in BOOLEAN, Captures(r, x, whole)
      PROVE  Dangling'
  <2>1. PICK y \in Snapshot :
           /\ repo' = repo \cup {y} /\ y.tag = run[r].stage /\ y.run = run[r].id /\ y.whole = whole
           /\ y.tag = "database" /\ whole => y.docs = Rows
           /\ y.tag = "documents" /\ whole => y.docs = Files
    BY <1>3, CaptureShape
  <2>2. doc' = doc /\ r \in InProgress /\ run[r].pc = "works" /\ run[r].stage \in Tags
    BY <1>3 DEF Captures, Acts, InProgress
  <2>3. ASSUME NEW s \in repo', s.tag = "database", s.whole
        PROVE  s.docs \subseteq Docs /\ \A d \in s.docs : doc[d] \in Going \cup {"stored"}
    <3>1. CASE s \in repo
      BY <2>3, <3>1 DEF Dangling
    <3>2. CASE s = y
      BY <2>1, <2>3, <3>2 DEF Rows, Going
    <3> QED BY <2>1, <3>1, <3>2
  <2>4. ASSUME NEW s \in repo', s.tag = "database", s.whole,
               NEW f \in repo', f.tag = "documents", f.whole, f.run = s.run,
               NEW d \in s.docs \ f.docs
        PROVE  doc[d] \in Going
    <3>1. CASE s \in repo /\ f \in repo
      BY <2>4, <3>1 DEF Dangling
    <3>2. CASE s = y /\ f \in repo
      <4>1. run[r].stage = "database" /\ f.run = run[r].id
        BY <2>1, <2>4, <3>2
      <4>2. f.tag \in Behind("database")
        BY <2>2, <3>2, <4>1 DEF Ahead
      <4> QED BY <4>2 DEF Behind
    <3>3. CASE f = y
      <4>1. f.docs = Files /\ d \in Docs /\ doc[d] \in Going \cup {"stored"}
        BY <2>1, <2>3, <2>4, <3>3
      <4> QED BY <4>1, <2>4 DEF Files
    <3> QED BY <2>1, <2>4, <3>1, <3>2, <3>3
  <2> QED BY <2>2, <2>3, <2>4 DEF Dangling
<1>4. doc' = doc \/ \E d \in Docs : Lives(d)
  BY ShapeCases, WorkingActs DEF Begins, NewDay, PowerLoss, vars
<1> QED BY <1>1, <1>2, <1>3, <1>4, RepoMoves

\* The invariant of the backup, overlapping runs included.
LEMMA BackupInductive ==
  ASSUME HostBackupAssumption
  PROVE  /\ Init => BackupInv
         /\ BackupInv /\ [Next]_vars => BackupInv'
<1>1. Init => BackupInv
  <2> SUFFICES ASSUME Init PROVE BackupInv
    OBVIOUS
  <2>1. MaxDay \in Nat /\ MaxRuns \in Nat
    BY DEF HostBackupAssumption
  <2>2. day \in 0..MaxDay /\ runs \in 0..MaxRuns
    BY <2>1 DEF Init
  <2>3. run \in [Runs -> {NoRun}] /\ \A r \in Runs : run[r] = NoRun
    BY DEF Init
  <2>4. doc \in [Docs -> {"new", "bytes", "stored", "bytes gone", "gone"}]
    BY DEF Init
  <2>5. due = FALSE /\ state = Absent /\ repo = {}
    BY DEF Init
  <2>6. BackupTypes
    <3>1. run \in [Runs -> Run \cup {NoRun}]
      BY <2>3
    <3>2. TypeOK
      BY <2>2, <2>3, <2>4, <2>5 DEF TypeOK, Active
    <3>3. \E n \in Nat : \A s \in repo : s.at <= n
      BY <2>5
    <3> QED BY <3>1, <3>2, <3>3 DEF BackupTypes
  <2> QED BY <2>3, <2>5, <2>6 DEF BackupInv, Numbered, Stamped, Ahead, Dangling, InProgress
<1>2. BackupInv /\ [Next]_vars => BackupInv'
  BY StepHasShape, BackupTypesKept, NumberedKept, StampedKept, AheadKept, DanglingKept DEF BackupInv
<1> QED BY <1>1, <1>2

\* A backup set lacks only files whose deletion has begun, whatever fails and
\* however the runs overlap (backup.sh takes the database before the documents;
\* a document is stored bytes first and deleted bytes first).
THEOREM DanglingRowsAreGoing ==
  ASSUME HostBackupAssumption
  PROVE  Spec => [](TypeOK /\ OnlyDeletionsDangle)
<1>1. BackupInv => TypeOK /\ OnlyDeletionsDangle
  <2>1. BackupInv => TypeOK
    BY DEF BackupInv, BackupTypes
  <2>2. BackupInv => OnlyDeletionsDangle
    BY DEF BackupInv, Dangling, OnlyDeletionsDangle, Going
  <2> QED BY <2>1, <2>2
<1>2. (Init => BackupInv) /\ (BackupInv /\ [Next]_vars => BackupInv')
  BY BackupInductive
<1> QED BY <1>1, <1>2, PTL DEF Spec

-----------------------------------------------------------------------------
(* Runs one after the other: what a quiet backup check is worth.           *)

OneAtATime == \A r, q \in InProgress : r = q

\* The newest whole capture of a tag is the one of the run in progress.
Holds(S, r, tag) ==
  \E s \in S :
    /\ s.tag = tag /\ s.run = run[r].id /\ s.whole /\ run[r].began <= s.day
    /\ \A t \in S : t.tag = tag /\ t # s => t.at < s.at

Caught ==
  \A r \in InProgress : run[r].pc = "works" =>
    \A tag \in Behind(run[r].stage) : Holds(repo, r, tag)

\* A complete set old by a midnight at most.
Safe(S, d) ==
  \E s \in S :
    /\ d <= s.day + 1
    /\ \A tag \in Tags : \E t \in S : t.tag = tag /\ t.run = s.run /\ t.whole

\* Every success on record, in the file or in the hands of a run, is of a day
\* for which a complete set is in the repository.
Backed(S, now, ok) == ok # Never => ok.day <= now /\ Safe(S, ok.day)

OnRecord ==
  /\ state # Absent => Backed(repo, day, state.ok)
  /\ \A r \in InProgress : Backed(repo, day, run[r].prev)

\* One run starts when no other is in progress.
LEMMA OneAtATimeKept ==
  ASSUME HostBackupAssumption, BackupTypes, ~Overlap, OneAtATime, Shape
  PROVE  OneAtATime'
<1>1. ASSUME NEW r \in Runs, NEW x \in Run, Begins(r, x)
      PROVE  OneAtATime'
  <2>1. InProgress = {}
    BY <1>1 DEF Begins, InProgress
  <2> QED BY <1>1, <2>1, BegunOrBefore DEF OneAtATime
<1>2. ASSUME NEW r \in Runs, NEW x \in Run \cup {NoRun}, Working(r, x)
      PROVE  OneAtATime'
  BY <1>2, WorkingActs, GoesOn DEF OneAtATime
<1>3. CASE PowerLoss
  BY <1>3, PowerEndsAll DEF OneAtATime
<1>4. CASE NewDay \/ (\E d \in Docs : Lives(d)) \/ UNCHANGED vars
  BY <1>4 DEF NewDay, Lives, vars, OneAtATime, InProgress
<1> QED BY <1>1, <1>2, <1>3, <1>4, ShapeCases

\* Pruning leaves the captures of the run that prunes.
LEMMA PruningKeepsOwn ==
  ASSUME HostBackupAssumption, BackupTypes, Stamped, Caught,
         NEW r \in Runs, NEW x, Prunes(r, x)
  PROVE  /\ repo' \subseteq repo
         /\ \A tag \in Tags : Holds(repo', r, tag)
<1>1. /\ repo' \subseteq repo
      /\ \A s \in repo : (\A t \in repo : t.tag = s.tag /\ t # s => t.at < s.at) => s \in repo'
  BY PruningKeepsNewest DEF Prunes, Stamped
<1>2. ASSUME NEW tag \in Tags
      PROVE  Holds(repo', r, tag)
  <2>1. Holds(repo, r, tag)
    BY DEF Prunes, Acts, Caught, InProgress
  <2> QED BY <1>1, <2>1 DEF Holds
<1> QED BY <1>1, <1>2

\* The four captures of one run make every day up to now safe.
LEMMA FourMakeSafe ==
  ASSUME NEW r, NEW S, Tags # {}, \A s \in S : s.day \in Nat,
         run[r].began \in Nat, day \in Nat, day <= run[r].began + 1,
         \A tag \in Tags : Holds(S, r, tag), NEW d \in Nat, d <= day
  PROVE  Safe(S, d)
<1>1. PICK tag \in Tags : TRUE
  OBVIOUS
<1>2. PICK s \in S : s.run = run[r].id /\ run[r].began <= s.day
  BY <1>1 DEF Holds
<1>3. d <= s.day + 1
  BY <1>2
<1>4. \A u \in Tags : \E t \in S : t.tag = u /\ t.run = s.run /\ t.whole
  BY <1>2 DEF Holds
<1> QED BY <1>3, <1>4 DEF Safe

\* While one run is in progress, what it captured stays the newest.
LEMMA CaughtKept ==
  ASSUME HostBackupAssumption, BackupTypes, Numbered, Stamped, OneAtATime, Caught, Shape
  PROVE  Caught'
<1> SUFFICES ASSUME NEW q \in InProgress', run'[q].pc = "works",
                    NEW tag \in Behind(run'[q].stage)
             PROVE  Holds(repo, q, tag)'
  BY DEF Caught
<1>0. \A s \in repo : s.at \in Nat /\ s.day \in Nat
  BY Facts
<1>1. ASSUME NEW r \in Runs, NEW x \in Run, Begins(r, x)
      PROVE  Holds(repo, q, tag)'
  <2>1. \/ q = r /\ run'[q] = x /\ q \notin InProgress
        \/ q # r /\ q \in InProgress /\ run'[q] = run[q]
    BY <1>1, BegunOrBefore
  <2>2. x.stage = "preflight" /\ repo' = repo
    BY <1>1 DEF Begins
  <2>3. CASE q = r
    BY <2>1, <2>2, <2>3 DEF Behind
  <2>4. CASE q # r
    <3>1. Holds(repo, q, tag)
      BY <2>1, <2>4 DEF Caught
    <3> QED BY <2>1, <2>2, <2>4, <3>1 DEF Holds
  <2> QED BY <2>3, <2>4
<1>2. ASSUME NEW r \in Runs, NEW x \in Run \cup {NoRun}, Working(r, x)
      PROVE  Holds(repo, q, tag)'
  <2>1. /\ q = r /\ run'[q] = x /\ x # NoRun /\ q \in InProgress
        /\ run'[q].id = run[q].id /\ run'[q].began = run[q].began
    <3>1. r \in InProgress
      BY <1>2, WorkingActs DEF InProgress
    <3> QED BY <3>1, <1>2, WorkingActs, GoesOn DEF OneAtATime
  <2>2. ASSUME Holds(repo', q, tag) PROVE Holds(repo, q, tag)'
    BY <2>1, <2>2 DEF Holds
  <2>3. CASE Idles(r, x)
    <3>1. Holds(repo, q, tag) /\ repo' = repo
      BY <2>1, <2>3 DEF Idles, Caught
    <3> QED BY <2>2, <3>1
  <2>4. CASE Prunes(r, x)
    BY <2>1, <2>2, <2>4, PruningKeepsOwn DEF Prunes
  <2>5. CASE Succeeds(r, x) \/ Traps(r, x)
    BY <2>1, <2>5 DEF Succeeds, Traps
  <2>6. ASSUME NEW whole \in BOOLEAN, Captures(r, x, whole)
        PROVE  Holds(repo', q, tag)
    <3>1. PICK y \in Snapshot :
             /\ repo' = repo \cup {y} /\ y.tag = run[r].stage /\ y.run = run[r].id
             /\ y.day = day /\ y.whole = whole /\ \A s \in repo : s.at < y.at
      BY <2>6, CaptureShape
    <3>2. /\ run[r].pc = "works" /\ whole /\ run[r].stage \notin Behind(run[r].stage)
          /\ tag \in Behind(run[r].stage) \cup {run[r].stage}
      BY <2>1, <2>6 DEF Captures
    <3>3. CASE tag = run[r].stage
      <4>1. y.at \in Nat /\ run[q].began <= y.day
        BY <2>1, <3>1, Facts DEF Numbered
      <4> QED BY <2>1, <3>1, <3>2, <3>3, <4>1 DEF Holds
    <3>4. CASE tag # run[r].stage
      <4>1. Holds(repo, q, tag)
        BY <2>1, <3>2, <3>4 DEF Caught
      <4> QED BY <3>1, <3>4, <4>1 DEF Holds
    <3> QED BY <3>3, <3>4
  <2> QED BY <1>2, <2>2, <2>3, <2>4, <2>5, <2>6 DEF Working
<1>3. CASE PowerLoss
  BY <1>3, PowerEndsAll
<1>4. CASE NewDay \/ (\E d \in Docs : Lives(d)) \/ UNCHANGED vars
  <2>1. run' = run /\ repo' = repo
    BY <1>4 DEF NewDay, Lives, vars
  <2>2. Holds(repo, q, tag)
    BY <2>1 DEF Caught, InProgress
  <2> QED BY <2>1, <2>2 DEF Holds
<1> QED BY <1>1, <1>2, <1>3, <1>4, ShapeCases

\* What a run holds when all is behind it.
LEMMA OwnSetIsSafe ==
  ASSUME HostBackupAssumption, BackupTypes, Numbered, NEW r \in InProgress,
         NEW S, S \subseteq repo, \A tag \in Tags : Holds(S, r, tag),
         NEW d \in Nat, d <= day
  PROVE  Safe(S, d)
<1>1. run[r].began \in Nat /\ day \in Nat /\ \A s \in S : s.day \in Nat
  BY Facts DEF InProgress
<1>2. day <= run[r].began + 1
  BY DEF Numbered
<1>3. Tags # {}
  BY DEF Tags
<1> QED BY <1>1, <1>2, <1>3, FourMakeSafe

\* No step takes the set of a success away.
LEMMA SafeKept ==
  ASSUME HostBackupAssumption, BackupTypes, Numbered, Stamped, Caught, Shape,
         NEW d \in Nat, d <= day, Safe(repo, d)
  PROVE  Safe(repo', d)
<1>1. ASSUME repo \subseteq repo'
      PROVE  Safe(repo', d)
  BY <1>1 DEF Safe
<1>2. ASSUME NEW r \in Runs, NEW x, Prunes(r, x)
      PROVE  Safe(repo', d)
  <2>1. r \in InProgress
    BY <1>2 DEF Prunes, Acts, InProgress
  <2> QED BY <1>2, <2>1, PruningKeepsOwn, OwnSetIsSafe
<1>3. ASSUME NEW r \in Runs, NEW x, NEW whole \in BOOLEAN, Captures(r, x, whole)
      PROVE  repo \subseteq repo'
  BY <1>3, CaptureShape
<1> QED BY <1>1, <1>2, <1>3 DEF Shape, Begins, Idles, Succeeds, Traps, NewDay, PowerLoss, Lives, vars

\* Whatever becomes of the file, it names a success whose set is there.
LEMMA OnRecordKept ==
  ASSUME HostBackupAssumption, BackupTypes, Numbered, Stamped, OneAtATime, Caught, OnRecord, Shape
  PROVE  OnRecord'
<1>0. day \in Nat /\ day' \in Nat /\ day <= day'
  BY Facts, TimeGrows
<1>1. ASSUME NEW ok \in Success, Backed(repo, day, ok)
      PROVE  Backed(repo', day', ok)
  <2>1. ok.day \in Nat
    BY Facts
  <2> SUFFICES ASSUME ok # Never PROVE ok.day <= day' /\ Safe(repo', ok.day)
    BY DEF Backed
  <2>2. ok.day <= day /\ Safe(repo, ok.day)
    BY <1>1 DEF Backed
  <2>3. Safe(repo', ok.day)
    BY <2>1, <2>2, SafeKept
  <2> QED BY <1>0, <2>1, <2>2, <2>3
<1>2. /\ state # Absent => state.ok \in Success /\ Backed(repo', day', state.ok)
      /\ \A r \in InProgress : run[r].prev \in Success /\ Backed(repo', day', run[r].prev)
  <2>1. state # Absent => state.ok \in Success
    BY Facts
  <2>2. \A r \in InProgress : run[r].prev \in Success
    BY Facts DEF InProgress
  <2>3. state # Absent => Backed(repo', day', state.ok)
    BY <2>1, <1>1 DEF OnRecord
  <2>4. ASSUME NEW r \in InProgress PROVE Backed(repo', day', run[r].prev)
    <3>1. Backed(repo, day, run[r].prev)
      BY DEF OnRecord
    <3> QED BY <2>2, <3>1, <1>1
  <2> QED BY <2>1, <2>2, <2>3, <2>4
<1>3. Backed(repo', day', Never)
  BY DEF Backed
<1>4. ASSUME NEW r \in Runs, NEW x \in Run, Begins(r, x)
      PROVE  OnRecord'
  <2>1. \A q \in InProgress' :
          \/ q = r /\ run'[q] = x /\ q \notin InProgress
          \/ q # r /\ q \in InProgress /\ run'[q] = run[q]
    BY <1>4, BegunOrBefore
  <2>2. state' = state /\ x.prev = (IF state = Absent THEN Never ELSE state.ok)
    BY <1>4 DEF Begins
  <2>3. Backed(repo', day', x.prev)
    BY <2>2, <1>2, <1>3
  <2> QED BY <1>2, <2>1, <2>2, <2>3 DEF OnRecord
<1>5. ASSUME NEW r \in Runs, NEW x \in Run \cup {NoRun}, Working(r, x)
      PROVE  OnRecord'
  <2>1. \A q \in InProgress' : q \in InProgress /\ run'[q].prev = run[q].prev
    BY <1>5, WorkingActs, GoesOn
  <2>2. \A q \in InProgress' : Backed(repo', day', run[q].prev)
    BY <2>1, <1>2
  <2>3. state' # Absent => Backed(repo', day', state'.ok)
    <3>1. CASE Succeeds(r, x)
      <4>1. r \in InProgress /\ repo' = repo /\ run[r].pc = "works" /\ Behind(run[r].stage) = Tags
            /\ state'.ok.day = day /\ day' = day
        BY <3>1 DEF Succeeds, Acts, InProgress
      <4>2. \A tag \in Tags : Holds(repo, r, tag)
        BY <4>1 DEF Caught
      <4>3. Safe(repo, day)
        BY <1>0, <4>1, <4>2, OwnSetIsSafe
      <4> QED BY <1>0, <4>1, <4>3 DEF Backed
    <3>2. CASE Traps(r, x)
      <4>1. r \in InProgress /\ state'.ok = run[r].prev
        BY <3>2 DEF Traps, Acts, InProgress
      <4> QED BY <4>1, <1>2
    <3>3. CASE ~Succeeds(r, x) /\ ~Traps(r, x)
      <4>1. state' = state
        BY <1>5, <3>3 DEF Working, Idles, Prunes, Captures
      <4> QED BY <4>1, <1>2
    <3> QED BY <3>1, <3>2, <3>3
  <2> QED BY <2>1, <2>2, <2>3 DEF OnRecord
<1>6. CASE PowerLoss
  <2>1. state' = state \/ state' = Torn
    BY <1>6 DEF PowerLoss
  <2>2. Torn.ok = Never
    BY DEF Torn
  <2> QED BY <1>2, <1>3, <1>6, <2>1, <2>2, PowerEndsAll DEF OnRecord
<1>7. CASE NewDay \/ (\E d \in Docs : Lives(d)) \/ UNCHANGED vars
  <2>1. run' = run /\ state' = state /\ InProgress' = InProgress
    BY <1>7 DEF NewDay, Lives, vars, InProgress
  <2> QED BY <1>2, <2>1 DEF OnRecord
<1> QED BY <1>4, <1>5, <1>6, <1>7, ShapeCases

\* Runs that do not overlap: a quiet check has a whole set behind it.
THEOREM QuietChecksRestore ==
  ASSUME HostBackupAssumption, ~Overlap
  PROVE  Spec => []QuietMeansRestorable
<1> DEFINE Inv == BackupInv /\ OneAtATime /\ Caught /\ OnRecord
<1>1. Init => Inv
  <2>1. Init => InProgress = {} /\ state = Absent
    BY DEF Init, InProgress
  <2> QED BY <2>1, BackupInductive DEF OneAtATime, Caught, OnRecord
<1>2. Inv /\ [Next]_vars => Inv'
  <2> SUFFICES ASSUME Inv, [Next]_vars PROVE Inv'
    OBVIOUS
  <2>1. BackupInv' /\ Shape
    BY BackupInductive, StepHasShape DEF BackupInv
  <2>2. OneAtATime' /\ Caught' /\ OnRecord'
    BY <2>1, OneAtATimeKept, CaughtKept, OnRecordKept DEF BackupInv
  <2> QED BY <2>1, <2>2
<1>3. Inv => QuietMeansRestorable
  <2> SUFFICES ASSUME Inv, Verdict \notin Alarming
               PROVE  \E id \in 1..runs :
                        /\ Complete(id)
                        /\ \E s \in repo : s.run = id /\ day - s.day <= FailDays + 1
    BY DEF QuietMeansRestorable
  <2>1. BackupTypes /\ Stamped
    BY DEF BackupInv
  <2>2. state # Absent /\ state.ok # Never /\ ~(day - state.ok.day > FailDays)
    BY DEF Verdict, Alarming
  <2>3. state.ok.day \in Nat /\ day \in Nat /\ runs \in Nat
    BY <2>1, <2>2, Facts
  <2>4. FailDays \in Nat
    BY DEF HostBackupAssumption
  <2>5. PICK s \in repo :
           /\ state.ok.day <= s.day + 1
           /\ \A tag \in Tags : \E t \in repo : t.tag = tag /\ t.run = s.run /\ t.whole
    BY <2>2 DEF OnRecord, Backed, Safe
  <2>6. s.day \in Nat /\ s.run \in Nat /\ s.run >= 1
    BY <2>1, Facts
  <2>7. s.run \in 1..runs
    BY <2>1, <2>3, <2>6 DEF Stamped
  <2>8. day - s.day <= FailDays + 1
    BY <2>2, <2>3, <2>4, <2>5, <2>6
  <2> QED BY <2>5, <2>7, <2>8 DEF Complete
<1> QED BY <1>1, <1>2, <1>3, PTL DEF Spec

-----------------------------------------------------------------------------
(* A failed run puts back the success it read at its start.                *)

\* The success on record.
Current == IF state = Absent THEN Never ELSE state.ok

\* What a run may find on record: a later run's success, the one it read, or its
\* own, once it cleans up or was stopped doing so.
Known(r, v) ==
  \/ v.run > run[r].id
  \/ v = run[r].prev
  \/ /\ v.run = run[r].id
     /\ run[r].pc = "cleanup" \/ (run[r].pc = "exit" /\ run[r].term)

\* A run that began alone knows what is on record, and what any run that began
\* beside it may put back there.
Informed ==
  \A r \in InProgress :
    ~run[r].beside
    => /\ Known(r, Current)
       /\ \A q \in InProgress : q # r => run[q].id > run[r].id /\ Known(r, run[q].prev)

\* The same after the step.
Knows(r, v) ==
  \/ v.run > run'[r].id
  \/ v = run'[r].prev
  \/ /\ v.run = run'[r].id
     /\ run'[r].pc = "cleanup" \/ (run'[r].pc = "exit" /\ run'[r].term)

\* What a run knows it knows until its end.
LEMMA KnownStays ==
  ASSUME BackupTypes, NEW p \in Runs, NEW x \in Run \cup {NoRun}, Acts(p, x),
         NEW r \in InProgress', NEW v, Known(r, v)
  PROVE  Knows(r, v)
<1>1. /\ r \in InProgress /\ run'[r].id = run[r].id /\ run'[r].prev = run[r].prev
      /\ r # p => run'[r] = run[r]
      /\ r = p => run'[r] = x /\ x # NoRun
  BY GoesOn
<1>2. /\ run[r].pc = "cleanup" => run'[r].pc = "cleanup" \/ (run'[r].pc = "exit" /\ run'[r].term)
      /\ run[r].pc = "exit" /\ run[r].term => run'[r].pc = "exit" /\ run'[r].term
  BY <1>1 DEF Acts
<1> QED BY <1>1, <1>2 DEF Known, Knows

\* A run that ends well has its own success on record; a trap puts back the one
\* it read; nothing else touches the record.
LEMMA RecordMoves ==
  ASSUME HostBackupAssumption, BackupTypes,
         NEW r \in Runs, NEW x \in Run \cup {NoRun}, Working(r, x)
  PROVE  \/ state' = state
         \/ x.pc = "cleanup" /\ state'.outcome = "ok" /\ Current'.run = run[r].id
         \/ x = NoRun /\ run[r].pc = "exit" /\ Current' = run[r].prev
<1> DEFINE Kind == [ok : [run : Nat, day : Nat], outcome : Stages \cup {"ok", "none"}]
<1>1. run[r] \in Run /\ run[r].id \in Nat /\ run[r].prev \in Success /\ day \in Nat
  BY WorkingActs, Facts
<1>2. \A v \in Success : v \in [run : Nat, day : Nat]
  BY DEF Success, HostBackupAssumption
<1>3. Absent \notin Kind
  BY DEF HostBackupAssumption
<1>4. CASE Succeeds(r, x)
  <2>1. /\ state' = [ok |-> state'.ok, outcome |-> state'.outcome] /\ state'.outcome = "ok"
        /\ state'.ok = [run |-> run[r].id, day |-> day] /\ x.pc = "cleanup"
    BY <1>4 DEF Succeeds
  <2>2. [run |-> run[r].id, day |-> day] \in [run : Nat, day : Nat]
    BY <1>1
  <2>3. state' \in Kind
    BY <2>1, <2>2
  <2>4. Current' = state'.ok
    BY <1>3, <2>3 DEF Current
  <2>5. Current'.run = run[r].id
    BY <2>1, <2>4
  <2> QED BY <2>1, <2>5
<1>5. CASE Traps(r, x)
  <2>1. /\ state' = [ok |-> state'.ok, outcome |-> state'.outcome] /\ state'.outcome \in Stages
        /\ state'.ok = run[r].prev /\ x = NoRun /\ run[r].pc = "exit"
    BY <1>5 DEF Traps
  <2>2. state'.outcome \in Stages \cup {"ok", "none"}
    BY <2>1
  <2>3. state' \in Kind
    BY <1>1, <1>2, <2>1, <2>2
  <2>4. Current' = state'.ok
    BY <1>3, <2>3 DEF Current
  <2> QED BY <2>1, <2>4
<1>6. CASE ~Succeeds(r, x) /\ ~Traps(r, x)
  BY <1>6 DEF Working, Idles, Prunes, Captures
<1> QED BY <1>4, <1>5, <1>6

\* Every step keeps the runs that began alone informed.
LEMMA InformedKept ==
  ASSUME HostBackupAssumption, BackupTypes, Numbered, Informed, Shape
  PROVE  Informed'
<1>1. ASSUME NEW p \in Runs, NEW x \in Run, Begins(p, x)
      PROVE  Informed'
  <2>1. \A q \in InProgress' :
          \/ q = p /\ run'[q] = x /\ q \notin InProgress
          \/ q # p /\ q \in InProgress /\ run'[q] = run[q]
    BY <1>1, BegunOrBefore
  <2>2. /\ Current' = Current /\ x.prev = Current /\ x.id = runs + 1
        /\ x.beside \/ InProgress = {}
    BY <1>1 DEF Begins, Current, InProgress
  <2>3. \A r \in InProgress : run[r].id \in Nat /\ run[r].id <= runs /\ runs \in Nat
    BY Facts DEF InProgress, Numbered
  <2>4. ASSUME NEW r \in InProgress, NEW v, Known(r, v), run'[r] = run[r]
        PROVE  Knows(r, v)
    BY <2>4 DEF Known, Knows
  <2> SUFFICES ASSUME NEW r \in InProgress', ~run'[r].beside
               PROVE  /\ Knows(r, Current')
                      /\ \A q \in InProgress' :
                           q # r => run'[q].id > run'[r].id /\ Knows(r, run'[q].prev)
    BY DEF Informed, Known, Knows
  <2>5. CASE r = p
    <3>1. run'[r] = x /\ InProgress = {} /\ \A q \in InProgress' : q = r
      BY <2>1, <2>2, <2>5
    <3> QED BY <2>2, <3>1 DEF Knows
  <2>6. CASE r # p
    <3>1. r \in InProgress /\ run'[r] = run[r]
      BY <2>1, <2>6
    <3>2. Known(r, Current)
      BY <3>1 DEF Informed
    <3>3. Knows(r, Current')
      BY <2>2, <3>1, <3>2, <2>4
    <3>4. ASSUME NEW q \in InProgress', q # r
          PROVE  run'[q].id > run'[r].id /\ Knows(r, run'[q].prev)
      <4>1. CASE q = p
        <5>1. run'[q].prev = Current /\ run'[q].id = runs + 1
          BY <2>1, <2>2, <4>1
        <5>2. runs + 1 > run[r].id
          BY <2>3, <3>1
        <5> QED BY <2>2, <3>1, <3>3, <5>1, <5>2
      <4>2. CASE q # p
        <5>1. q \in InProgress /\ run'[q] = run[q]
          BY <2>1, <4>2
        <5> DEFINE v == run[q].prev
        <5>2. run[q].id > run[r].id /\ Known(r, v)
          BY <3>1, <3>4, <5>1 DEF Informed
        <5>3. Knows(r, v)
          BY <2>4, <3>1, <5>2
        <5> QED BY <3>1, <5>1, <5>2, <5>3
      <4> QED BY <4>1, <4>2
    <3> QED BY <3>3, <3>4
  <2> QED BY <2>5, <2>6
<1>2. ASSUME NEW p \in Runs, NEW x \in Run \cup {NoRun}, Working(p, x)
      PROVE  Informed'
  <2>1. Acts(p, x) /\ p \in InProgress
    BY <1>2, WorkingActs DEF InProgress
  <2>2. \A q \in InProgress' :
          /\ q \in InProgress /\ run'[q].id = run[q].id /\ run'[q].prev = run[q].prev
          /\ q = p => run'[q] = x /\ x # NoRun
    BY <2>1, GoesOn
  <2>3. \A q \in InProgress' : run'[q].beside = run[q].beside
    BY <2>1, GoesOn DEF Acts, Moved
  <2> SUFFICES ASSUME NEW r \in InProgress', ~run'[r].beside
               PROVE  /\ Knows(r, Current')
                      /\ \A q \in InProgress' :
                           q # r => run'[q].id > run'[r].id /\ Knows(r, run'[q].prev)
    BY DEF Informed, Known, Knows
  <2>4. /\ r \in InProgress /\ ~run[r].beside /\ Known(r, Current)
        /\ \A q \in InProgress : q # r => run[q].id > run[r].id /\ Known(r, run[q].prev)
    BY <2>2, <2>3 DEF Informed
  <2>5. \A q \in InProgress' : q # r => run'[q].id > run'[r].id
    BY <2>2, <2>4
  <2>6. ASSUME NEW q \in InProgress', q # r PROVE Knows(r, run'[q].prev)
    <3> DEFINE v == run[q].prev
    <3>1. Known(r, v) /\ v = run'[q].prev
      BY <2>2, <2>4, <2>6
    <3> QED BY <2>1, <2>2, <2>4, <2>6, <3>1, KnownStays
  <2>7. Knows(r, Current')
    <3>1. CASE state' = state
      <4>1. Current' = Current
        BY <3>1 DEF Current
      <4> QED BY <2>1, <2>2, <2>4, <4>1, KnownStays
    <3>2. CASE x.pc = "cleanup" /\ Current'.run = run[p].id
      <4>1. CASE r = p
        BY <2>2, <3>2, <4>1 DEF Knows
      <4>2. CASE r # p
        <5>1. run[p].id > run[r].id
          BY <2>1, <2>4, <4>2
        <5> QED BY <2>2, <3>2, <5>1 DEF Knows
      <4> QED BY <4>1, <4>2
    <3>3. CASE x = NoRun /\ Current' = run[p].prev
      <4> DEFINE v == run[p].prev
      <4>1. r # p
        BY <2>2, <3>3
      <4>2. Known(r, v)
        BY <2>1, <2>4, <4>1
      <4>3. Knows(r, v)
        BY <2>1, <4>2, KnownStays
      <4> QED BY <3>3, <4>3
    <3> QED BY <1>2, <3>1, <3>2, <3>3, RecordMoves
  <2> QED BY <2>5, <2>6, <2>7
<1>3. CASE PowerLoss
  BY <1>3, PowerEndsAll DEF Informed
<1>4. CASE NewDay \/ (\E d \in Docs : Lives(d)) \/ UNCHANGED vars
  <2>1. run' = run /\ state' = state
    BY <1>4 DEF NewDay, Lives, vars
  <2>2. InProgress' = InProgress /\ Current' = Current
    BY <2>1 DEF InProgress, Current
  <2>3. \A r \in InProgress : \A v : Known(r, v)' = Known(r, v)
    BY <2>1 DEF Known
  <2> QED BY <2>1, <2>2, <2>3 DEF Informed, Known
<1> QED BY <1>1, <1>2, <1>3, <1>4, ShapeCases

\* A run that fails does not erase the success before it (backup.sh on the first
\* two lines of the state file), whatever fails, is cut, is stopped, loses power or
\* overlaps: when it puts another one on record, it was stopped after its own was
\* recorded, it began beside another run, or a later run succeeded beside it.
THEOREM FailedRunsKeepTheSuccess ==
  ASSUME HostBackupAssumption
  PROVE  Spec => [][SuccessKept]_vars
<1> DEFINE Inv == BackupInv /\ Informed
<1>1. Init => Inv
  <2>1. Init => InProgress = {}
    BY DEF Init, InProgress
  <2> QED BY <2>1, BackupInductive DEF Informed
<1>2. Inv /\ [Next]_vars => Inv'
  BY BackupInductive, StepHasShape, InformedKept DEF BackupInv
<1>3. Inv /\ [Next]_vars => [SuccessKept]_vars
  <2> SUFFICES ASSUME Inv, [Next]_vars, state # Absent, state' \notin {state, Torn},
                      state'.outcome # "ok", state'.ok # state.ok
               PROVE  \E r \in Ending : \/ (run[r].term /\ state.ok.run = run[r].id)
                                        \/ run[r].beside
                                        \/ state.ok.run > run[r].id
    BY DEF SuccessKept
  <2>1. BackupTypes /\ Informed /\ Shape
    BY StepHasShape DEF BackupInv
  <2>2. PICK r \in Runs, x \in Run \cup {NoRun} : Working(r, x)
    BY <2>1, ShapeCases DEF Begins, NewDay, PowerLoss, Lives, vars
  <2>3. x = NoRun /\ Traps(r, x)
    BY <2>2 DEF Working, Idles, Prunes, Captures, Succeeds, Traps
  <2>4. state'.ok = run[r].prev /\ run[r].pc = "exit" /\ Acts(r, x) /\ run[r] # NoRun
    BY <2>3 DEF Traps, Acts
  <2>5. run'[r] = NoRun
    BY <2>1, <2>3, <2>4, OthersStay DEF Acts
  <2>6. r \in Ending /\ r \in InProgress
    BY <2>4, <2>5 DEF Ending, InProgress
  <2>7. run[r].beside \/ Known(r, state.ok)
    BY <2>1, <2>6 DEF Informed, Current
  <2> QED BY <2>4, <2>6, <2>7 DEF Known
<1> QED BY <1>1, <1>2, <1>3, PTL DEF Spec

-----------------------------------------------------------------------------
(* The boot reconciler and the refresh of the country database.            *)

CONSTANTS Services, Published, Enforcing, Deadline, ReadBack, Settled, RepairFaults, MaxVersion
VARIABLES address, docker, restoring, running, bound, rec, clock, lost, upstream, database,
          loaded, refresh, owed

R == INSTANCE HostRepair WITH Faults <- RepairFaults

\* What the reconciler carries from step to step.
Record ==
  [pc : {"address", "docker", "settle", "up", "read back", "sweep", "recreate", "verify",
         "exit 0", "exit 1"},
   missing : SUBSET Services, stable : SUBSET Services, first : BOOLEAN, settle : Int,
   deadline : Int, incomplete : BOOLEAN, broken : SUBSET Published]

RepairTypes ==
  /\ running \subseteq Services /\ bound \subseteq Published
  /\ rec \in Record /\ clock \in Int

\* What the reconciler last saw is what there is, while nothing has died since,
\* except for the services that its own recreate left down.
SeenWhole ==
  /\ rec.pc \notin {"address", "exit 1"} => address = TRUE
  /\ ~lost =>
       /\ rec.pc = "sweep" /\ rec.missing = {} => R!Missing = {}
       /\ rec.pc = "recreate" /\ ~rec.incomplete => R!Missing = {}
       /\ rec.pc = "verify" /\ ~rec.incomplete => R!Missing \subseteq rec.broken
       /\ rec.pc = "exit 0" => /\ R!Missing \subseteq rec.broken
                               /\ Published \cap running \subseteq bound

\* The steps of the reconciler that change its record only.
LEMMA RecorderSteps ==
  ASSUME R!HostRepairAssumption, RepairTypes,
         R!AwaitAddress \/ R!AwaitDocker \/ R!SettleSample \/ R!ReadBackSample
         \/ R!Sweep \/ R!VerifyOnce
  PROVE  /\ RepairTypes' /\ running' = running /\ bound' = bound /\ address' = address
         /\ rec'.pc \notin {"address", "exit 1"} => address = TRUE \/ rec.pc \notin {"address", "exit 1"}
         /\ rec'.pc = "sweep" /\ rec'.missing = {} => R!Missing = {}
         /\ rec'.pc # "verify"
         /\ rec'.pc = "recreate" => rec.pc = "sweep" /\ (~lost' => ~lost)
                                    /\ (~rec'.incomplete => rec.missing = {})
         /\ rec'.pc = "exit 0" =>
              /\ (~lost' => ~lost) /\ R!broken_services = {}
              /\ \/ rec.pc = "sweep" /\ rec.missing = {}
                 \/ rec.pc = "verify" /\ ~rec.incomplete /\ rec'.broken = rec.broken
<1>0. /\ running \subseteq Services /\ bound \subseteq Published /\ rec \in Record /\ clock \in Int
      /\ Published \subseteq Services
  BY DEF RepairTypes, R!HostRepairAssumption
<1>a. clock' = clock \/ R!Sleep => clock' \in Int
  <2>1. clock \in Int
    BY <1>0
  <2> QED BY <2>1 DEF R!Sleep
<1>b. rec.settle \in Int /\ rec.missing \in SUBSET Services /\ rec.stable \in SUBSET Services
  BY <1>0 DEF Record
<1>1. CASE R!AwaitAddress \/ R!AwaitDocker
  <2>1. PICK pc \in {"docker", "settle", "exit 1"} : rec' = [rec EXCEPT !.pc = pc] \/ rec' = rec
    BY <1>1 DEF R!AwaitAddress, R!AwaitDocker, R!Await, R!Go
  <2>2. rec' \in Record /\ rec'.pc \in {"address", "docker", "settle", "exit 1"}
    <3>1. rec.pc \in {"address", "docker"}
      BY <1>1 DEF R!AwaitAddress, R!AwaitDocker, R!Await
    <3> QED BY <1>0, <2>1, <3>1 DEF Record
  <2>3. clock' \in Int /\ running' = running /\ bound' = bound /\ address' = address
    BY <1>a, <1>1 DEF R!AwaitAddress, R!AwaitDocker, R!Await, R!stack
  <2>4. rec'.pc \notin {"address", "exit 1"} => address = TRUE \/ rec.pc \notin {"address", "exit 1"}
    <3>1. CASE R!AwaitAddress
      <4>1. rec.pc = "address" /\ (address = TRUE \/ rec' = rec \/ rec' = [rec EXCEPT !.pc = "exit 1"])
        BY <3>1 DEF R!AwaitAddress, R!Await, R!Go
      <4> QED BY <1>0, <4>1 DEF Record
    <3>2. CASE R!AwaitDocker
      BY <3>2 DEF R!AwaitDocker, R!Await
    <3> QED BY <1>1, <3>1, <3>2
  <2> QED BY <1>0, <2>2, <2>3, <2>4 DEF RepairTypes
<1>2. CASE R!SettleSample
  <2> DEFINE same == ~rec.first /\ R!Missing = rec.stable
             settle == IF same THEN rec.settle + 1 ELSE 0
             sampled == [rec EXCEPT !.missing = R!Missing, !.stable = R!Missing, !.first = FALSE,
                                    !.settle = settle]
             act == IF R!Missing = {} THEN "sweep" ELSE "up"
  <2>1. rec.pc = "settle" /\ running' = running /\ bound' = bound /\ address' = address
        /\ \/ rec' = [sampled EXCEPT !.pc = act] /\ clock' = clock
           \/ rec' = sampled /\ R!Sleep
    BY <1>2 DEF R!SettleSample, R!stack
  <2>2. settle \in Int /\ R!Missing \in SUBSET Services
    BY <1>b DEF R!Missing
  <2> HIDE DEF settle
  <2>3. sampled \in Record /\ sampled.pc = rec.pc
    BY <1>0, <2>2 DEF Record
  <2>4. [sampled EXCEPT !.pc = act] \in Record /\ [sampled EXCEPT !.pc = act].pc = act
    BY <2>3 DEF Record
  <2>5. clock' \in Int
    BY <1>a, <2>1
  <2> QED BY <1>0, <2>1, <2>3, <2>4, <2>5 DEF RepairTypes
<1>3. CASE R!ReadBackSample
  <2>1. R!Missing \in SUBSET Services
    BY <1>0 DEF R!Missing
  <2>2. rec.pc = "read back" /\ running' = running /\ bound' = bound /\ address' = address
        /\ (rec' = [rec EXCEPT !.pc = "sweep", !.missing = R!Missing] \/ rec' = [rec EXCEPT !.missing = R!Missing])
    BY <1>3 DEF R!ReadBackSample, R!stack
  <2>3. clock' \in Int
    BY <1>a, <1>3 DEF R!ReadBackSample
  <2> QED BY <1>0, <2>1, <2>2, <2>3 DEF RepairTypes, Record
<1>4. CASE R!Sweep
  <2>1. R!broken_services \in SUBSET Published
    BY DEF R!broken_services
  <2>2. /\ rec.pc = "sweep" /\ running' = running /\ bound' = bound /\ clock' = clock
        /\ address' = address /\ (~lost' => ~lost)
        /\ rec' = [rec EXCEPT !.incomplete = rec.missing # {}, !.broken = R!broken_services,
                              !.pc = IF R!broken_services # {} THEN "recreate"
                                     ELSE R!Verdict(rec.missing # {})]
    BY <1>4 DEF R!Sweep, R!stack
  <2>3. R!Verdict(rec.missing # {}) = IF rec.missing = {} THEN "exit 0" ELSE "exit 1"
    BY DEF R!Verdict
  <2> QED BY <1>0, <2>1, <2>2, <2>3 DEF RepairTypes, Record
<1>5. CASE R!VerifyOnce
  <2>1. /\ rec.pc = "verify" /\ running' = running /\ bound' = bound /\ clock' = clock
        /\ address' = address /\ (~lost' => ~lost)
        /\ rec' = [rec EXCEPT !.pc = IF R!broken_services # {} THEN "exit 1"
                                     ELSE R!Verdict(rec.incomplete)]
    BY <1>5 DEF R!VerifyOnce, R!Go, R!stack
  <2>2. R!Verdict(rec.incomplete) = IF rec.incomplete THEN "exit 1" ELSE "exit 0"
    BY DEF R!Verdict
  <2> QED BY <1>0, <2>1, <2>2 DEF RepairTypes, Record
<1> QED BY <1>1, <1>2, <1>3, <1>4, <1>5

\* What the constants are.
LEMMA RepairConstants ==
  ASSUME R!HostRepairAssumption
  PROVE  /\ Published \subseteq Services /\ Enforcing \subseteq Services
         /\ Deadline \in Int /\ \A n \in Int : n + ReadBack \in Int
BY DEF R!HostRepairAssumption

\* The other steps bring services up, except that one may die; what is whole
\* stays whole until then.
LEMMA OtherRepairSteps ==
  ASSUME R!HostRepairAssumption, RepairTypes, SeenWhole,
         \/ R!Up \/ R!Recreate \/ R!Download \/ R!Replace \/ R!RestartEnforcing \/ R!Publish
         \/ R!AddressUp \/ R!DockerUp \/ (\E s \in Services : R!Restore(s) \/ R!Dies(s))
         \/ UNCHANGED R!vars
  PROVE  RepairTypes' /\ SeenWhole'
<1>0. /\ running \subseteq Services /\ bound \subseteq Published /\ rec \in Record
      /\ Published \subseteq Services /\ Enforcing \subseteq Services
  BY RepairConstants DEF RepairTypes
<1>a. clock \in Int /\ clock + ReadBack \in Int
  BY RepairConstants DEF RepairTypes
<1>1. CASE R!Up
  <2>1. PICK S \in SUBSET (rec.missing \ running) : R!Starts(S)
    BY <1>1 DEF R!Up
  <2>2. rec.missing \in SUBSET Services
    BY <1>0 DEF Record
  <2>3. running' \subseteq Services /\ bound' \subseteq Published
    BY <1>0, <2>1, <2>2 DEF R!Starts
  <2>4. rec' = [rec EXCEPT !.pc = "read back", !.deadline = clock + ReadBack] /\ clock' = clock
    BY <1>1 DEF R!Up
  <2>5. clock + ReadBack \in Int
    BY <1>a
  <2>6. rec' \in Record /\ rec'.pc = "read back"
    BY <1>0, <2>4, <2>5 DEF Record
  <2>7. rec.pc = "up" /\ address' = address
    BY <1>1 DEF R!Up
  <2> QED BY <1>a, <2>3, <2>4, <2>6, <2>7 DEF RepairTypes, SeenWhole
<1>2. CASE R!Recreate
  <2>1. rec.broken \subseteq Published
    BY <1>0 DEF Record
  <2>2. PICK S \in SUBSET rec.broken, taken \in SUBSET rec.broken :
           /\ running' = (running \ rec.broken) \cup S
           /\ bound' = (bound \ rec.broken) \cup (IF address THEN S \ taken ELSE {})
    BY <1>2 DEF R!Recreate
  <2>3. running' \subseteq Services /\ bound' \subseteq Published /\ running \subseteq running' \cup rec.broken
    BY <1>0, <2>1, <2>2
  <2>4. /\ rec.pc = "recreate" /\ rec' = [rec EXCEPT !.pc = "verify"] /\ clock' = clock /\ lost' = lost
        /\ address' = address
    BY <1>2 DEF R!Recreate, R!Go
  <2>5. rec' \in Record /\ rec'.pc = "verify" /\ rec'.incomplete = rec.incomplete /\ rec'.broken = rec.broken
    BY <1>0, <2>4 DEF Record
  <2>6. ~lost /\ ~rec.incomplete => R!Missing' \subseteq rec.broken
    BY <2>3, <2>4 DEF SeenWhole, R!Missing
  <2>7. RepairTypes'
    BY <1>a, <2>3, <2>4, <2>5 DEF RepairTypes
  <2> QED BY <2>4, <2>5, <2>6, <2>7 DEF SeenWhole
<1>3. CASE R!Download \/ R!Replace \/ R!Publish \/ R!AddressUp \/ R!DockerUp \/ UNCHANGED R!vars
  <2>1. /\ running' = running /\ bound' = bound /\ rec' = rec /\ clock' = clock /\ lost' = lost
        /\ address = TRUE => address' = TRUE
    BY <1>3 DEF R!Download, R!Replace, R!Publish, R!AddressUp, R!DockerUp, R!vars, R!stack
  <2> QED BY <2>1 DEF RepairTypes, SeenWhole, R!Missing
<1>4. CASE R!RestartEnforcing
  <2>1. PICK S \in SUBSET Enforcing, down \in SUBSET Enforcing :
           /\ running' = (running \ down) \cup S
           /\ bound' = bound \cup (IF address THEN (S \ running) \cap Published ELSE {})
           /\ lost' = (lost \/ down # {})
    BY <1>4 DEF R!RestartEnforcing
  <2>2. rec' = rec /\ clock' = clock /\ address' = address
    BY <1>4 DEF R!RestartEnforcing
  <2>3. RepairTypes'
    BY <1>0, <1>a, <2>1, <2>2 DEF RepairTypes
  <2>4. ~lost' => ~lost /\ running' = running \cup S
    BY <2>1
  <2>5. ~lost' => R!Missing' \subseteq R!Missing
    BY <2>4 DEF R!Missing
  <2>6. ~lost' /\ address = TRUE /\ Published \cap running \subseteq bound => (Published \cap running \subseteq bound)'
    BY <2>1, <2>4
  <2> QED BY <2>2, <2>3, <2>4, <2>5, <2>6 DEF SeenWhole
<1>5. ASSUME NEW s \in Services, R!Restore(s)
      PROVE  RepairTypes' /\ SeenWhole'
  <2>1. rec' = rec /\ clock' = clock /\ lost' = lost /\ address' = address
    BY <1>5 DEF R!Restore
  <2>2. CASE s \in running
    <3>1. running' = running /\ bound' = bound
      BY <1>5, <2>2 DEF R!Restore
    <3> QED BY <2>1, <3>1 DEF RepairTypes, SeenWhole, R!Missing
  <2>3. CASE s \notin running
    <3>1. /\ running' = running \cup {s}
          /\ bound' = (bound \ {s}) \cup (IF address THEN {s} \cap Published ELSE {})
      BY <1>5, <2>3 DEF R!Restore, R!Starts
    <3>2. RepairTypes'
      BY <1>0, <1>a, <2>1, <3>1 DEF RepairTypes
    <3>3. R!Missing' \subseteq R!Missing
      BY <3>1 DEF R!Missing
    <3>4. address = TRUE /\ Published \cap running \subseteq bound => (Published \cap running \subseteq bound)'
      BY <2>3, <3>1
    <3> QED BY <2>1, <3>2, <3>3, <3>4 DEF SeenWhole
  <2> QED BY <2>2, <2>3
<1>6. ASSUME NEW s \in Services, R!Dies(s)
      PROVE  RepairTypes' /\ SeenWhole'
  <2>1. /\ running' = running \ {s} /\ bound' = bound /\ rec' = rec /\ clock' = clock /\ lost'
        /\ address' = address
    BY <1>6 DEF R!Dies
  <2> QED BY <2>1 DEF RepairTypes, SeenWhole
<1> QED BY <1>1, <1>2, <1>3, <1>4, <1>5, <1>6

\* The reconciler exits 0 only for a platform that is reachable (INCOMPLETE
\* carried to the end, the read-back, the verification after a recreate), whatever
\* fails on the way.  A service its own recreate left down is the exception: the
\* verification looks at the ports of running containers.
THEOREM ReconcilerTellsTheTruth ==
  ASSUME R!HostRepairAssumption
  PROVE  R!Spec => []R!SuccessIsWhole
<1>1. R!Init => RepairTypes /\ SeenWhole
  <2> SUFFICES ASSUME R!Init PROVE RepairTypes /\ SeenWhole
    OBVIOUS
  <2>1. Deadline \in Int
    BY RepairConstants
  <2>2. rec \in Record /\ rec.pc = "address"
    BY <2>1 DEF R!Init, Record
  <2>3. running = {} /\ bound = {} /\ clock \in Int
    BY DEF R!Init
  <2> QED BY <2>2, <2>3 DEF RepairTypes, SeenWhole, Record
<1>2. RepairTypes /\ SeenWhole /\ [R!Next]_R!vars => (RepairTypes /\ SeenWhole)'
  <2> SUFFICES ASSUME RepairTypes, SeenWhole, [R!Next]_R!vars
               PROVE  RepairTypes' /\ SeenWhole'
    OBVIOUS
  <2>1. CASE R!AwaitAddress \/ R!AwaitDocker \/ R!SettleSample \/ R!ReadBackSample
             \/ R!Sweep \/ R!VerifyOnce
    <3>1. /\ RepairTypes' /\ running' = running /\ bound' = bound /\ address' = address
          /\ rec'.pc \notin {"address", "exit 1"} => address = TRUE \/ rec.pc \notin {"address", "exit 1"}
          /\ rec'.pc = "sweep" /\ rec'.missing = {} => R!Missing = {}
          /\ rec'.pc # "verify"
          /\ rec'.pc = "recreate" => rec.pc = "sweep" /\ (~lost' => ~lost)
                                     /\ (~rec'.incomplete => rec.missing = {})
          /\ rec'.pc = "exit 0" =>
               /\ (~lost' => ~lost) /\ R!broken_services = {}
               /\ \/ rec.pc = "sweep" /\ rec.missing = {}
                  \/ rec.pc = "verify" /\ ~rec.incomplete /\ rec'.broken = rec.broken
      BY <2>1, RecorderSteps
    <3>2. R!Missing' = R!Missing
      BY <3>1 DEF R!Missing
    <3>3. R!broken_services = {} => Published \cap running \subseteq bound
      BY DEF R!broken_services
    <3>4. rec'.pc \notin {"address", "exit 1"} => address' = TRUE
      BY <3>1 DEF SeenWhole
    <3> SUFFICES ASSUME ~lost'
                 PROVE  /\ rec'.pc = "sweep" /\ rec'.missing = {} => R!Missing = {}
                        /\ rec'.pc = "recreate" /\ ~rec'.incomplete => R!Missing = {}
                        /\ rec'.pc = "exit 0" => /\ R!Missing \subseteq rec'.broken
                                                 /\ Published \cap running \subseteq bound
      BY <3>1, <3>2, <3>4 DEF SeenWhole
    <3>5. ASSUME rec'.pc = "recreate", ~rec'.incomplete PROVE R!Missing = {}
      BY <3>1, <3>5 DEF SeenWhole
    <3>6. ASSUME rec'.pc = "exit 0"
          PROVE  R!Missing \subseteq rec'.broken /\ Published \cap running \subseteq bound
      <4>1. R!Missing \subseteq rec'.broken
        BY <3>1, <3>6 DEF SeenWhole
      <4> QED BY <3>1, <3>3, <3>6, <4>1
    <3> QED BY <3>1, <3>5, <3>6
  <2>2. CASE ~(R!AwaitAddress \/ R!AwaitDocker \/ R!SettleSample \/ R!ReadBackSample
               \/ R!Sweep \/ R!VerifyOnce)
    BY <2>2, OtherRepairSteps DEF R!Next, R!Reconcile
  <2> QED BY <2>1, <2>2
<1>3. RepairTypes /\ SeenWhole => R!SuccessIsWhole
  BY DEF SeenWhole, R!SuccessIsWhole
<1> QED BY <1>1, <1>2, <1>3, PTL DEF R!Spec

\* A refresh that ends well leaves every running enforcing service on the
\* database that is on disk, also after refreshes that found docker away or whose
\* restart failed.  A service that still waits for the restart such a refresh
\* asked for is the exception: the next one finds the same bytes and restarts
\* nothing.
THEOREM RefreshedServicesEnforceTheStored ==
  R!Spec => []R!EnforcedIsStored
<1> DEFINE Stored == /\ refresh # "restart"
                        => \A s \in Enforcing \cap running : s \notin owed => loaded[s] = database
<1>1. R!Init => Stored
  BY DEF R!Init
<1>2. Stored /\ [R!Next]_R!vars => Stored'
  <2> SUFFICES ASSUME Stored, [R!Next]_R!vars PROVE Stored'
    OBVIOUS
  <2>1. ASSUME NEW S, R!Starts(S), refresh' = refresh, database' = database
        PROVE  Stored'
    BY <2>1 DEF R!Starts
  <2>2. CASE R!Up
    BY <2>1, <2>2 DEF R!Up
  <2>3. CASE R!Recreate
    <3>1. PICK S : /\ running' = (running \ rec.broken) \cup S /\ owed' = owed \ S
                   /\ loaded' = [s \in Enforcing |-> IF s \in S THEN database ELSE loaded[s]]
      BY <2>3 DEF R!Recreate
    <3>2. refresh' = refresh /\ database' = database
      BY <2>3 DEF R!Recreate
    <3> QED BY <3>1, <3>2
  <2>4. CASE R!Download \/ R!Replace
    BY <2>4 DEF R!Download, R!Replace, R!stack
  <2>5. CASE R!RestartEnforcing
    <3>1. PICK S \in SUBSET Enforcing :
             /\ loaded' = [s \in Enforcing |-> IF s \in S THEN database ELSE loaded[s]]
             /\ owed' = Enforcing \ S /\ database' = database
      BY <2>5 DEF R!RestartEnforcing
    <3> QED BY <3>1
  <2>6. ASSUME NEW s \in Services, R!Restore(s) PROVE Stored'
    BY <2>1, <2>6 DEF R!Restore
  <2>7. ASSUME NEW s \in Services, R!Dies(s) PROVE Stored'
    BY <2>7 DEF R!Dies
  <2>8. CASE R!Publish \/ R!AddressUp \/ R!DockerUp \/ UNCHANGED R!vars
    BY <2>8 DEF R!Publish, R!AddressUp, R!DockerUp, R!vars, R!stack
  <2>9. CASE R!Reconcile /\ ~R!Up /\ ~R!Recreate
    BY <2>9 DEF R!Reconcile, R!AwaitAddress, R!AwaitDocker, R!Await, R!SettleSample,
       R!ReadBackSample, R!Sweep, R!VerifyOnce, R!stack
  <2> QED BY <2>2, <2>3, <2>4, <2>5, <2>6, <2>7, <2>8, <2>9 DEF R!Next
<1>3. Stored => R!EnforcedIsStored
  BY DEF R!EnforcedIsStored
<1> QED BY <1>1, <1>2, <1>3, PTL DEF R!Spec

-----------------------------------------------------------------------------
(* The health daemon.                                                      *)

CONSTANTS None, Alerts, Expected, Happenings, MaxRestarts
VARIABLES late, grace, world, path, file, pass, mailbox, past

W == INSTANCE HostWatch

Signatures == {None} \cup SUBSET W!Failures
StateFile == [sig : Signatures, date : W!Dates, restarts : W!Counts]
Platform == [docker : BOOLEAN, down : SUBSET Services, restarts : [Services -> 0..MaxRestarts],
             alerts : SUBSET Alerts, closed : BOOLEAN, probe : BOOLEAN]
Pass == [pc : {"services", "rest", "decide", "event", "digest", "record"}, prev : StateFile,
         date : {"earlier", "today"}, late : BOOLEAN, owed : BOOLEAN,
         fails : SUBSET W!Failures, restarts : W!Counts, prom : BOOLEAN,
         event : BOOLEAN, digest : BOOLEAN, sound : BOOLEAN]
Mailbox == [last : Signatures, digests : 0..3]
Past == [told : Signatures, base : W!Counts, covered : BOOLEAN, excused : 0..2]

WatchTypes ==
  /\ late \in BOOLEAN /\ grace \in BOOLEAN
  /\ world \in Platform /\ path \in [smtp : BOOLEAN, credentials : BOOLEAN]
  /\ file \in StateFile /\ (pass # NoRun => pass \in Pass)
  /\ mailbox \in Mailbox /\ past \in Past

\* What the last decision told and the baseline of restarts it left: they are in
\* the file, a pass compares with them, and after its decision holds the new ones.
Told ==
  /\ file.sig = past.told /\ file.restarts = past.base
  /\ pass # NoRun =>
       /\ pass.pc \in {"services", "rest", "decide"}
          => pass.prev.sig = past.told /\ pass.prev.restarts = past.base
       /\ pass.pc \in {"event", "digest", "record"}
          => pass.fails = past.told /\ pass.restarts = past.base
       /\ pass.pc = "services" => pass.restarts = past.base
       /\ pass.pc \in {"rest", "decide"} =>
            \A s \in Services : past.base[s] >= 0 /\ pass.restarts[s] > past.base[s]
                                => "restarts" \in pass.fails

\* A digest is owed while the file does not have today's date.
Dated ==
  pass # NoRun =>
    /\ pass.prev.date = file.date
    /\ pass.owed => file.date # "today"
    /\ pass.pc \in {"digest", "record"} \/ pass.digest => pass.owed

Recording == pass # NoRun /\ pass.pc = "record" /\ pass.date = "today"

\* Each digest of the day but the one on file was excused.
Budget ==
  \/ mailbox.digests <= past.excused
  \/ past.excused = 2
  \/ (file.date = "today" \/ Recording) /\ mailbox.digests <= 1 + past.excused

\* A date on file is a digest in the mailbox.
Covered ==
  /\ file.date = "today" \/ Recording \/ past.covered => mailbox.digests > 0
  /\ pass # NoRun =>
       /\ pass.sound => pass.late /\ pass.date = "today" /\ (pass.owed \/ file.date = "today")
       /\ pass.pc = "event" /\ ~pass.digest => ~(pass.owed /\ pass.late)

WatchInv == WatchTypes /\ Told /\ Dated /\ Budget /\ Covered

\* What the types say, field by field.
LEMMA WatchFields ==
  ASSUME W!HostWatchAssumption
  PROVE  /\ \A x \in Past : /\ x.told \in Signatures /\ x.base \in W!Counts
                            /\ x.covered \in BOOLEAN /\ x.excused \in Int
                            /\ x.excused >= 0 /\ x.excused <= 2
         /\ \A x \in Mailbox : x.last \in Signatures /\ x.digests \in Int
                               /\ x.digests >= 0 /\ x.digests <= 3
         /\ \A x \in W!Counts : \A s \in Services : x[s] \in Int
         /\ W!NoCounts \in W!Counts /\ W!Empty \in StateFile
         /\ W!Empty.sig = None /\ W!Empty.date = "none" /\ W!Empty.restarts = W!NoCounts
<1>1. \A n \in 0..2 : n \in Int /\ n >= 0 /\ n <= 2
  OBVIOUS
<1>2. \A n \in 0..3 : n \in Int /\ n >= 0 /\ n <= 3
  OBVIOUS
<1>3. ASSUME NEW x \in Past
      PROVE  /\ x.told \in Signatures /\ x.base \in W!Counts
             /\ x.covered \in BOOLEAN /\ x.excused \in 0..2
  BY DEF Past
<1>4. ASSUME NEW x \in Mailbox
      PROVE  x.last \in Signatures /\ x.digests \in 0..3
  BY DEF Mailbox
<1>5. ASSUME NEW x \in W!Counts, NEW s \in Services PROVE x[s] \in Int
  <2>1. x[s] \in -1..MaxRestarts
    BY DEF W!Counts
  <2>2. \A n \in -1..MaxRestarts : n \in Int
    OBVIOUS
  <2> QED BY <2>1, <2>2
<1>6. W!NoCounts \in W!Counts
  <2>1. MaxRestarts \in Nat
    BY DEF W!HostWatchAssumption
  <2>2. -1 \in -1..MaxRestarts
    BY <2>1
  <2> QED BY <2>2 DEF W!NoCounts, W!Counts
<1>7. /\ W!Empty \in StateFile
      /\ W!Empty.sig = None /\ W!Empty.date = "none" /\ W!Empty.restarts = W!NoCounts
  BY <1>6 DEF W!Empty, StateFile, Signatures, W!Dates
<1> QED BY <1>1, <1>2, <1>3, <1>4, <1>5, <1>6, <1>7

\* Nothing but the platform moves.
LEMMA PlatformStep ==
  ASSUME WatchInv, late' \in BOOLEAN, grace' \in BOOLEAN, world' \in Platform,
         path' \in [smtp : BOOLEAN, credentials : BOOLEAN],
         UNCHANGED <<file, pass, mailbox, past>>
  PROVE  WatchInv'
<1>1. file' = file /\ pass' = pass /\ mailbox' = mailbox /\ past' = past
  OBVIOUS
<1>2. WatchTypes'
  BY <1>1 DEF WatchInv, WatchTypes
<1>3. Told' /\ Dated'
  BY <1>1 DEF WatchInv, Told, Dated
<1>4. Budget' /\ Covered'
  BY <1>1 DEF WatchInv, Budget, Covered, Recording
<1> QED BY <1>2, <1>3, <1>4 DEF WatchInv

\* The platform keeps its types.
LEMMA PlatformTyped ==
  ASSUME W!HostWatchAssumption, world \in Platform, W!Changes
  PROVE  world' \in Platform
<1>1. ASSUME NEW s \in Services,
             world' = [world EXCEPT !.down = IF s \in @ THEN @ \ {s} ELSE @ \cup {s}]
      PROVE  world' \in Platform
  BY <1>1 DEF Platform
<1>2. ASSUME NEW s \in Services, world.restarts[s] < MaxRestarts,
             world' = [world EXCEPT !.restarts[s] = @ + 1]
      PROVE  world' \in Platform
  <2>1. MaxRestarts \in Nat
    BY DEF W!HostWatchAssumption
  <2>2. world.restarts \in [Services -> 0..MaxRestarts]
    BY DEF Platform
  <2>3. world.restarts[s] + 1 \in 0..MaxRestarts
    BY <1>2, <2>1, <2>2
  <2>4. [world.restarts EXCEPT ![s] = world.restarts[s] + 1] \in [Services -> 0..MaxRestarts]
    BY <2>2, <2>3
  <2>5. world' = [world EXCEPT !.restarts = [world.restarts EXCEPT ![s] = world.restarts[s] + 1]]
    BY <1>2
  <2> QED BY <2>4, <2>5 DEF Platform
<1>3. ASSUME \/ world' = [world EXCEPT !.docker = ~@] \/ world' = [world EXCEPT !.closed = ~@]
             \/ world' = [world EXCEPT !.probe = ~@]
      PROVE  world' \in Platform
  BY <1>3 DEF Platform
<1>4. ASSUME NEW a \in Alerts,
             world' = [world EXCEPT !.alerts = IF a \in @ THEN @ \ {a} ELSE @ \cup {a}]
      PROVE  world' \in Platform
  BY <1>4 DEF Platform
<1> QED BY <1>1, <1>2, <1>3, <1>4 DEF W!Changes

\* A pass begins with what is on file.
LEMMA BeginStep ==
  ASSUME W!HostWatchAssumption, WatchInv, W!Begin
  PROVE  WatchInv'
<1>1. /\ late \in BOOLEAN /\ file \in StateFile /\ world \in Platform
      /\ path \in [smtp : BOOLEAN, credentials : BOOLEAN] /\ pass = NoRun
      /\ UNCHANGED <<late, grace, world, path, file, mailbox, past>>
  BY DEF WatchInv, WatchTypes, W!Begin
<1> DEFINE p == [pc |-> "services", prev |-> file, date |-> "today", late |-> late,
                 owed |-> file.date # "today",
                 fails |-> {}, restarts |-> file.restarts, prom |-> FALSE,
                 event |-> FALSE, digest |-> FALSE, sound |-> late]
<1>2. pass' = p
  BY DEF W!Begin, W!OK
<1>3. file.restarts \in W!Counts
  BY <1>1 DEF StateFile
<1>4. p \in Pass
  BY <1>1, <1>3 DEF Pass
<1>5. /\ p.pc = "services" /\ p.prev = file /\ p.date = "today" /\ ~p.digest
      /\ p.restarts = file.restarts
      /\ (p.owed <=> file.date # "today") /\ (p.sound => p.late)
  OBVIOUS
<1> HIDE DEF p
<1>6. WatchTypes'
  BY <1>1, <1>2, <1>4 DEF WatchInv, WatchTypes
<1>7. Told' /\ Dated'
  BY <1>1, <1>2, <1>5 DEF WatchInv, Told, Dated
<1>8. Budget' /\ Covered'
  BY <1>1, <1>2, <1>5 DEF WatchInv, Budget, Covered, Recording
<1> QED BY <1>6, <1>7, <1>8 DEF WatchInv

\* A check that changes what the pass has seen, not what it compares with.
LEMMA CheckStep ==
  ASSUME WatchInv, NEW p \in Pass, pass # NoRun, pass' = p,
         UNCHANGED <<late, grace, world, path, file, mailbox, past>>,
         pass.pc \in {"services", "rest"}, p.pc \in {"rest", "decide"},
         p.prev = pass.prev, p.date = pass.date, p.digest => pass.digest,
         p.owed <=> pass.owed, p.late <=> pass.late, p.sound <=> pass.sound,
         \A s \in Services : past.base[s] >= 0 /\ p.restarts[s] > past.base[s]
                             => "restarts" \in p.fails
  PROVE  WatchInv'
<1>1. /\ file' = file /\ mailbox' = mailbox /\ past' = past /\ late' = late /\ grace' = grace
      /\ world' = world /\ path' = path
  OBVIOUS
<1>2. WatchTypes'
  BY <1>1 DEF WatchInv, WatchTypes
<1>3. Told'
  BY <1>1 DEF WatchInv, Told
<1>4. Dated'
  BY <1>1 DEF WatchInv, Dated
<1>5. Budget' /\ Covered'
  BY <1>1 DEF WatchInv, Budget, Covered, Recording
<1> QED BY <1>2, <1>3, <1>4, <1>5 DEF WatchInv

\* A container that restarted since the baseline is seen.
LEMMA ServiceChecksStep ==
  ASSUME W!HostWatchAssumption, WatchInv, W!ServiceChecks
  PROVE  WatchInv'
<1>1. /\ pass # NoRun /\ pass.pc = "services" /\ pass \in Pass /\ world \in Platform
      /\ past \in Past
  BY DEF W!ServiceChecks, W!At, WatchInv, WatchTypes
<1> DEFINE seen == IF W!Listed = {} THEN pass.restarts
                   ELSE [s \in Services |-> IF s \in W!Listed THEN world.restarts[s] ELSE -1]
           found == (IF world.docker THEN {} ELSE {"docker"})
                    \cup (IF world.docker /\ world.down # {} THEN {"services"} ELSE {})
                    \cup (IF W!Rose # {} THEN {"restarts"} ELSE {})
           p == [pass EXCEPT !.pc = "rest", !.prom = world.docker, !.restarts = seen,
                             !.fails = found]
<1>2. pass' = p
  BY DEF W!ServiceChecks
<1>3. seen \in W!Counts
  <2>1. pass.restarts \in W!Counts
    BY <1>1 DEF Pass
  <2>2. MaxRestarts \in Nat /\ \A s \in Services : world.restarts[s] \in 0..MaxRestarts
    BY <1>1 DEF Platform, W!HostWatchAssumption
  <2>3. -1 \in -1..MaxRestarts /\ \A n \in 0..MaxRestarts : n \in -1..MaxRestarts
    BY <2>2
  <2>4. [s \in Services |-> IF s \in W!Listed THEN world.restarts[s] ELSE -1] \in W!Counts
    BY <2>2, <2>3 DEF W!Counts
  <2> QED BY <2>1, <2>4
<1>4. found \in SUBSET W!Failures
  BY DEF W!Failures
<1>5. ASSUME NEW s \in Services, past.base[s] >= 0, seen[s] > past.base[s]
      PROVE  "restarts" \in found
  <2>1. pass.restarts = past.base /\ pass.prev.restarts = past.base /\ past.base[s] \in Int
    BY <1>1, WatchFields DEF WatchInv, Told
  <2>2. W!Listed # {}
    BY <1>5, <2>1
  <2>3. seen[s] = IF s \in W!Listed THEN world.restarts[s] ELSE -1
    BY <2>2
  <2>4. s \in W!Listed /\ world.restarts[s] > past.base[s]
    BY <1>5, <2>1, <2>3
  <2>5. s \in W!Rose
    BY <1>5, <2>1, <2>4 DEF W!Rose
  <2> QED BY <2>5
<1> HIDE DEF seen, found
<1>6. /\ p \in Pass /\ p.pc = "rest" /\ p.prev = pass.prev /\ p.date = pass.date
      /\ p.restarts = seen /\ p.fails = found
      /\ p.digest = pass.digest /\ p.owed = pass.owed /\ p.late = pass.late /\ p.sound = pass.sound
  BY <1>1, <1>3, <1>4 DEF Pass, Platform
<1> HIDE DEF p
<1>7. UNCHANGED <<late, grace, world, path, file, mailbox, past>>
  BY DEF W!ServiceChecks
<1> QED BY <1>1, <1>2, <1>5, <1>6, <1>7, CheckStep

\* The other checks only add to what fails.
LEMMA OtherChecksStep ==
  ASSUME W!HostWatchAssumption, WatchInv, W!OtherChecks
  PROVE  WatchInv'
<1>1. /\ pass # NoRun /\ pass.pc = "rest" /\ pass \in Pass /\ world \in Platform
  BY DEF W!OtherChecks, W!At, WatchInv, WatchTypes
<1> DEFINE more == (IF world.probe THEN {"probe"} ELSE {})
                   \cup (IF pass.prom THEN world.alerts \ (IF world.closed THEN Expected ELSE {})
                         ELSE {})
           p == [pass EXCEPT !.pc = "decide", !.fails = pass.fails \cup more]
<1>2. pass' = p
  BY DEF W!OtherChecks
<1>3. more \in SUBSET W!Failures
  BY <1>1 DEF W!Failures, Platform
<1> HIDE DEF more
<1>4. /\ p \in Pass /\ p.pc = "decide" /\ p.prev = pass.prev /\ p.date = pass.date
      /\ p.restarts = pass.restarts /\ pass.fails \subseteq p.fails
      /\ p.digest = pass.digest /\ p.owed = pass.owed /\ p.late = pass.late /\ p.sound = pass.sound
  BY <1>1, <1>3 DEF Pass
<1> HIDE DEF p
<1>5. \A s \in Services : past.base[s] >= 0 /\ p.restarts[s] > past.base[s]
                          => "restarts" \in p.fails
  BY <1>1, <1>4 DEF WatchInv, Told
<1>6. UNCHANGED <<late, grace, world, path, file, mailbox, past>>
  BY DEF W!OtherChecks
<1> QED BY <1>1, <1>2, <1>4, <1>5, <1>6, CheckStep

\* The decision records what fails and the counts, and leaves the date as it was.
LEMMA DecideStep ==
  ASSUME W!HostWatchAssumption, WatchInv, W!Decide
  PROVE  WatchInv'
<1>1. /\ pass # NoRun /\ pass.pc = "decide" /\ pass \in Pass /\ past \in Past
      /\ UNCHANGED <<late, grace, world, path, mailbox>>
  BY DEF W!Decide, W!Decision, W!At, WatchInv, WatchTypes
<1>2. /\ pass.fails \in SUBSET W!Failures /\ pass.restarts \in W!Counts /\ pass.prev \in StateFile
      /\ pass.prev.date \in W!Dates /\ pass.prev.date = file.date
  BY <1>1 DEF Pass, StateFile, WatchInv, Dated
<1>3. /\ file' \in StateFile /\ file'.sig = pass.fails /\ file'.date = file.date
      /\ file'.restarts = pass.restarts
  BY <1>2 DEF W!Decide, W!Decision, W!Recorded, StateFile, Signatures
<1> DEFINE owes == pass.owed /\ pass.late
           changed == pass.fails # pass.prev.sig
           q == [past EXCEPT !.told = pass.fails, !.base = pass.restarts,
                             !.covered = past.covered \/ (pass.sound /\ ~(changed \/ owes))]
           p == [pass EXCEPT !.pc = IF changed THEN "event" ELSE "digest",
                             !.event = changed, !.digest = owes]
<1>4. past' = q /\ (pass' = NoRun \/ ((changed \/ owes) /\ pass' = p))
  BY DEF W!Decide, W!Decision, W!Due
<1>5. /\ q \in Past /\ q.told = pass.fails /\ q.base = pass.restarts /\ q.excused = past.excused
      /\ q.covered => past.covered \/ (pass.sound /\ ~owes)
  BY <1>1, <1>2 DEF Past, Signatures
<1>6. /\ owes \in BOOLEAN /\ changed \in BOOLEAN
  BY <1>1 DEF Pass
<1>7. /\ p \in Pass /\ p.pc = (IF changed THEN "event" ELSE "digest") /\ p.prev = pass.prev
      /\ p.date = pass.date /\ p.fails = pass.fails /\ p.restarts = pass.restarts
      /\ p.owed = pass.owed /\ p.late = pass.late /\ p.sound = pass.sound
      /\ p.digest = owes
  BY <1>1, <1>6 DEF Pass
<1>8. (pass.sound => pass.late /\ pass.date = "today" /\ (pass.owed \/ file.date = "today"))
      /\ (pass.owed => file.date # "today")
  BY <1>1 DEF WatchInv, Covered, Dated
<1>9. owes => pass.owed
  OBVIOUS
<1>10. ~owes => ~(pass.owed /\ pass.late)
  OBVIOUS
<1> HIDE DEF owes, changed, q, p
<1>11. WatchTypes'
  BY <1>1, <1>3, <1>4, <1>5, <1>7 DEF WatchInv, WatchTypes
<1>12. Told'
  BY <1>3, <1>4, <1>5, <1>7 DEF Told
<1>13. Dated'
  BY <1>2, <1>3, <1>4, <1>7, <1>8, <1>9 DEF Dated
<1>14. Recording' => FALSE
  BY <1>4, <1>7 DEF Recording
<1>15. ~Recording
  BY <1>1 DEF Recording
<1>16. Budget'
  BY <1>1, <1>3, <1>4, <1>5, <1>14, <1>15 DEF WatchInv, Budget
<1>17. mailbox' = mailbox
  BY <1>1
<1>18. file'.date = "today" \/ past'.covered => mailbox.digests > 0
  <2>1. file.date = "today" \/ past.covered => mailbox.digests > 0
    BY DEF WatchInv, Covered
  <2>2. pass.sound /\ ~owes => file.date = "today"
    BY <1>8, <1>10
  <2> QED BY <1>3, <1>4, <1>5, <2>1, <2>2
<1>19. Covered'
  BY <1>3, <1>4, <1>7, <1>8, <1>10, <1>14, <1>17, <1>18 DEF Covered
<1> QED BY <1>11, <1>12, <1>13, <1>16, <1>19 DEF WatchInv

\* The mail of the event.
LEMMA SendEventStep ==
  ASSUME W!HostWatchAssumption, WatchInv, W!SendEvent
  PROVE  WatchInv'
<1>1. /\ pass # NoRun /\ pass.pc = "event" /\ pass \in Pass /\ past \in Past /\ mailbox \in Mailbox
      /\ UNCHANGED <<late, grace, world, path, file>>
  BY DEF W!SendEvent, W!At, WatchInv, WatchTypes
<1>2. PICK sent \in BOOLEAN :
         /\ mailbox' = mailbox \/ mailbox' = [mailbox EXCEPT !.last = pass.fails]
         /\ pass' = NoRun \/ (pass.digest /\ pass' = [pass EXCEPT !.pc = "digest",
                                                                  !.sound = pass.sound /\ sent])
         /\ past' = [past EXCEPT !.covered = past.covered \/ (pass.sound /\ sent /\ ~pass.digest)]
  <2>1. PICK o \in W!Outcomes :
         /\ mailbox' = IF o = "failed" THEN mailbox ELSE [mailbox EXCEPT !.last = pass.fails]
         /\ pass' = IF pass.digest THEN [pass EXCEPT !.pc = "digest", !.sound = @ /\ o = "sent"]
                                   ELSE NoRun
         /\ past' = [past EXCEPT !.covered = @ \/ (pass.sound /\ o = "sent" /\ ~pass.digest)]
    BY DEF W!SendEvent
  <2>2. (o = "sent") \in BOOLEAN
    OBVIOUS
  <2> QED BY <2>1, <2>2
<1>3. mailbox' \in Mailbox /\ mailbox'.digests = mailbox.digests
  <2>1. pass.fails \in Signatures
    BY <1>1 DEF Pass, Signatures
  <2> QED BY <1>1, <1>2, <2>1 DEF Mailbox
<1>4. /\ past' \in Past /\ past'.told = past.told /\ past'.base = past.base
      /\ past'.excused = past.excused
      /\ past'.covered => past.covered \/ (pass.sound /\ ~pass.digest)
  BY <1>1, <1>2 DEF Past
<1> DEFINE p == [pass EXCEPT !.pc = "digest", !.sound = pass.sound /\ sent]
<1>5. /\ p \in Pass /\ p.pc = "digest" /\ p.prev = pass.prev
      /\ p.date = pass.date /\ p.fails = pass.fails /\ p.restarts = pass.restarts
      /\ p.owed = pass.owed /\ p.late = pass.late /\ p.digest = pass.digest
      /\ p.sound => pass.sound
  BY <1>1, <1>2 DEF Pass
<1>6. pass' = NoRun \/ (pass.digest /\ pass' = p)
  BY <1>2
<1> HIDE DEF p
<1>7. WatchTypes'
  BY <1>1, <1>3, <1>4, <1>5, <1>6 DEF WatchInv, WatchTypes
<1>8. Told' /\ Dated'
  BY <1>1, <1>4, <1>5, <1>6 DEF WatchInv, Told, Dated
<1>9. ~Recording' /\ ~Recording
  BY <1>1, <1>5, <1>6 DEF Recording
<1>10. Budget'
  BY <1>1, <1>3, <1>4, <1>9 DEF WatchInv, Budget
<1>11. past'.covered \/ file'.date = "today" => mailbox'.digests > 0
  <2>1. /\ pass.sound => pass.late /\ (pass.owed \/ file.date = "today")
        /\ ~pass.digest => ~(pass.owed /\ pass.late)
    BY <1>1 DEF WatchInv, Covered
  <2>2. pass.sound /\ ~pass.digest => file.date = "today"
    BY <2>1
  <2>3. file.date = "today" \/ past.covered => mailbox.digests > 0
    BY DEF WatchInv, Covered
  <2> QED BY <1>1, <1>3, <1>4, <2>2, <2>3
<1>12. Covered'
  BY <1>1, <1>5, <1>6, <1>9, <1>11 DEF WatchInv, Covered
<1> QED BY <1>7, <1>8, <1>10, <1>12 DEF WatchInv

\* The mail of the digest: sent and to be recorded, refused, or unsure.
LEMMA SendDigestStep ==
  ASSUME W!HostWatchAssumption, NoRun \notin Pass, WatchInv, W!SendDigest
  PROVE  WatchInv'
<1>1. /\ pass # NoRun /\ pass.pc = "digest" /\ pass \in Pass /\ past \in Past /\ mailbox \in Mailbox
      /\ UNCHANGED <<late, grace, world, path, file>>
  BY DEF W!SendDigest, W!At, WatchInv, WatchTypes
<1>2. /\ past.excused \in Int /\ past.excused >= 0 /\ past.excused <= 2
      /\ mailbox.digests \in Int /\ mailbox.digests >= 0 /\ mailbox.digests < 3
  BY <1>1, WatchFields DEF W!SendDigest
<1> DEFINE more == IF pass.date = "today" THEN 1 ELSE 0
           p == [pass EXCEPT !.pc = "record"]
<1>3. PICK o \in {"sent", "failed", "unsure"} :
         /\ mailbox' = IF o = "failed" THEN mailbox
                       ELSE [last |-> pass.fails, digests |-> mailbox.digests + more]
         /\ pass' = IF o = "sent" THEN p ELSE NoRun
         /\ past' = [past EXCEPT !.excused = past.excused + (IF o = "unsure" /\ past.excused < 2 THEN 1 ELSE 0)]
  BY DEF W!SendDigest, W!Outcomes
<1>4. more \in {0, 1} /\ (more = 1 <=> pass.date = "today")
  OBVIOUS
<1> HIDE DEF more
<1>5. pass.owed /\ file.date # "today" /\ ~Recording
  BY <1>1 DEF WatchInv, Dated, Recording
<1>6. mailbox.digests <= past.excused \/ past.excused = 2
  BY <1>5 DEF WatchInv, Budget
<1>7. /\ mailbox' \in Mailbox
      /\ mailbox'.digests = IF o = "failed" THEN mailbox.digests ELSE mailbox.digests + more
  <2>1. pass.fails \in Signatures
    BY <1>1 DEF Pass, Signatures
  <2>2. mailbox.digests + more \in 0..3
    BY <1>2, <1>4
  <2> QED BY <1>1, <1>3, <2>1, <2>2 DEF Mailbox
<1> DEFINE excused == past.excused + (IF o = "unsure" /\ past.excused < 2 THEN 1 ELSE 0)
<1>8. excused \in 0..2 /\ past.excused <= excused
      /\ (o = "unsure" => excused = past.excused + 1 \/ excused = 2)
  BY <1>2
<1>9. past' = [past EXCEPT !.excused = excused]
  BY <1>3
<1> HIDE DEF excused
<1>10. /\ past' \in Past /\ past'.told = past.told /\ past'.base = past.base
       /\ past'.excused = excused /\ past'.covered = past.covered
  BY <1>1, <1>8, <1>9 DEF Past
<1>11. /\ p \in Pass /\ p.pc = "record" /\ p.prev = pass.prev
       /\ p.date = pass.date /\ p.fails = pass.fails /\ p.restarts = pass.restarts
       /\ p.owed = pass.owed /\ p.late = pass.late /\ p.digest = pass.digest /\ p.sound = pass.sound
  BY <1>1 DEF Pass
<1>12. (o = "sent" => pass' = p) /\ (o # "sent" => pass' = NoRun)
  BY <1>3
<1> HIDE DEF p
<1>13. WatchTypes'
  BY <1>1, <1>7, <1>10, <1>11, <1>12 DEF WatchInv, WatchTypes
<1>14. Told' /\ Dated'
  BY <1>1, <1>10, <1>11, <1>12 DEF WatchInv, Told, Dated
<1>15. Recording' => o = "sent" /\ more = 1
  BY <1>4, <1>11, <1>12 DEF Recording
<1>16. Budget'
  <2>1. excused \in Int /\ mailbox'.digests \in Int
    BY <1>2, <1>4, <1>7, <1>8
  <2>2. CASE excused = 2
    BY <2>2, <1>10 DEF Budget
  <2>3. CASE excused # 2
    <3>1. mailbox.digests <= past.excused
      BY <1>2, <1>6, <1>8, <2>3
    <3>2. CASE o = "unsure" \/ o = "failed" \/ more = 0
      <4>1. mailbox'.digests <= excused
        BY <1>2, <1>4, <1>7, <1>8, <2>1, <2>3, <3>1, <3>2
      <4> QED BY <4>1, <1>10 DEF Budget
    <3>3. CASE o = "sent" /\ more = 1
      <4>1. Recording'
        BY <1>4, <1>11, <1>12, <3>3 DEF Recording
      <4>2. mailbox'.digests <= 1 + excused
        BY <1>2, <1>7, <1>8, <2>1, <3>1, <3>3
      <4> QED BY <4>1, <4>2, <1>10 DEF Budget
    <3> QED BY <1>4, <3>2, <3>3
  <2> QED BY <2>2, <2>3
<1>17. Covered'
  <2>1. mailbox'.digests >= mailbox.digests /\ (o = "sent" /\ more = 1 => mailbox'.digests > 0)
    BY <1>2, <1>4, <1>7
  <2>2. mailbox'.digests \in Int
    BY <1>2, <1>4, <1>7
  <2>3. file'.date = "today" \/ past'.covered => mailbox.digests > 0
    BY <1>1, <1>10 DEF WatchInv, Covered
  <2>4. file'.date = "today" \/ Recording' \/ past'.covered => mailbox'.digests > 0
    BY <1>2, <1>15, <2>1, <2>2, <2>3
  <2> QED BY <1>1, <1>11, <1>12, <2>4 DEF WatchInv, Covered
<1> QED BY <1>13, <1>14, <1>16, <1>17 DEF WatchInv

\* The day is spent, or another one began since.
LEMMA RecordDigestStep ==
  ASSUME W!HostWatchAssumption, WatchInv, W!RecordDigest
  PROVE  WatchInv'
<1>1. /\ pass # NoRun /\ pass.pc = "record" /\ pass \in Pass /\ past \in Past /\ mailbox \in Mailbox
      /\ UNCHANGED <<late, grace, world, path, mailbox>>
  BY DEF W!RecordDigest, W!At, WatchInv, WatchTypes
<1>2. /\ file' \in StateFile /\ file'.sig = pass.fails /\ file'.date = pass.date
      /\ file'.restarts = pass.restarts
  <2>1. /\ pass.fails \in SUBSET W!Failures /\ pass.restarts \in W!Counts
        /\ pass.date \in {"earlier", "today"}
    BY <1>1 DEF Pass
  <2> QED BY <2>1 DEF W!RecordDigest, W!Recorded, StateFile, Signatures, W!Dates
<1>3. /\ past' \in Past /\ past'.told = past.told /\ past'.base = past.base
      /\ past'.excused = past.excused
      /\ past'.covered => past.covered \/ pass.date = "today"
  BY <1>1 DEF W!RecordDigest, Past, Pass
<1>4. pass' = NoRun /\ mailbox' = mailbox
  BY <1>1 DEF W!RecordDigest
<1>5. pass.owed /\ file.date # "today" /\ (Recording <=> pass.date = "today")
  BY <1>1 DEF WatchInv, Dated, Recording
<1>6. WatchTypes'
  BY <1>1, <1>2, <1>3, <1>4 DEF WatchInv, WatchTypes
<1>7. Told' /\ Dated'
  BY <1>1, <1>2, <1>3, <1>4 DEF WatchInv, Told, Dated
<1>8. Budget'
  BY <1>2, <1>3, <1>4, <1>5 DEF WatchInv, Budget
<1>9. Covered'
  BY <1>2, <1>3, <1>4, <1>5 DEF WatchInv, Covered, Recording
<1> QED BY <1>6, <1>7, <1>8, <1>9 DEF WatchInv

\* Midnight leaves the pass where it stands, its dates a day older.
LEMMA MidnightPass ==
  ASSUME W!HostWatchAssumption, WatchInv, W!Midnight
  PROVE  \/ pass = NoRun /\ pass' = NoRun
         \/ /\ pass # NoRun /\ pass' \in Pass /\ pass'.pc = pass.pc
            /\ pass'.prev.sig = pass.prev.sig /\ pass'.prev.restarts = pass.prev.restarts
            /\ pass'.prev.date = W!Older(pass.prev.date)
            /\ pass'.date # "today" /\ pass'.fails = pass.fails /\ pass'.restarts = pass.restarts
            /\ pass'.owed = pass.owed /\ pass'.late = pass.late /\ pass'.digest = pass.digest
            /\ ~pass'.sound
<1>1. /\ file \in StateFile /\ mailbox \in Mailbox /\ past \in Past
      /\ (pass # NoRun => pass \in Pass)
      /\ late' = FALSE /\ UNCHANGED <<grace, world, path>>
  BY DEF W!Midnight, WatchInv, WatchTypes
<1>2. \A d \in W!Dates : W!Older(d) \in W!Dates /\ W!Older(d) # "today"
  BY DEF W!Older, W!Dates
<1> QED
  <2>1. CASE pass = NoRun
    BY <2>1 DEF W!Midnight
  <2>2. CASE pass # NoRun
    <3> DEFINE before == [pass.prev EXCEPT !.date = W!Older(pass.prev.date)]
               p == [pass EXCEPT !.date = W!Older(pass.date), !.prev = before, !.sound = FALSE]
    <3>1. pass' = p
      BY <1>1, <2>2 DEF W!Midnight, Pass
    <3>2. pass.prev \in StateFile /\ pass.prev.date \in W!Dates /\ pass.date \in {"earlier", "today"}
      BY <1>1, <2>2 DEF Pass, StateFile
    <3>3. /\ before \in StateFile /\ before.sig = pass.prev.sig
          /\ before.restarts = pass.prev.restarts /\ before.date = W!Older(pass.prev.date)
      BY <1>2, <3>2 DEF StateFile
    <3>4. W!Older(pass.date) = "earlier"
      BY <3>2 DEF W!Older
    <3> HIDE DEF before
    <3>5. /\ p \in Pass /\ p.pc = pass.pc /\ p.prev = before /\ p.date = "earlier"
          /\ p.fails = pass.fails /\ p.restarts = pass.restarts
          /\ p.owed = pass.owed /\ p.late = pass.late /\ p.digest = pass.digest /\ ~p.sound
      BY <1>1, <2>2, <3>3, <3>4 DEF Pass
    <3> HIDE DEF p
    <3> QED BY <2>2, <3>1, <3>3, <3>5
  <2> QED BY <2>1, <2>2

\* At midnight today's date becomes an earlier one, wherever it is kept.
LEMMA MidnightStep ==
  ASSUME W!HostWatchAssumption, WatchInv, W!Midnight
  PROVE  WatchInv'
<1>1. /\ file \in StateFile /\ mailbox \in Mailbox /\ past \in Past
      /\ (pass # NoRun => pass \in Pass)
      /\ late' = FALSE /\ UNCHANGED <<grace, world, path>>
  BY DEF W!Midnight, WatchInv, WatchTypes
<1>2. \A d \in W!Dates : W!Older(d) \in W!Dates /\ W!Older(d) # "today"
  BY DEF W!Older, W!Dates
<1>3. /\ file' \in StateFile /\ file'.sig = file.sig /\ file'.restarts = file.restarts
      /\ file'.date = W!Older(file.date) /\ file'.date # "today"
  <2>1. file.date \in W!Dates
    BY <1>1 DEF StateFile
  <2>2. file' = [file EXCEPT !.date = W!Older(file.date)]
    BY DEF W!Midnight
  <2>3. /\ file' \in StateFile /\ file'.sig = file.sig /\ file'.restarts = file.restarts
        /\ file'.date = W!Older(file.date)
    BY <1>1, <1>2, <2>1, <2>2 DEF StateFile
  <2> QED BY <1>2, <2>1, <2>3
<1>4. /\ mailbox' \in Mailbox /\ mailbox'.digests = 0
  BY <1>1 DEF W!Midnight, Mailbox
<1>5. /\ past' \in Past /\ past'.told = past.told /\ past'.base = past.base
      /\ past'.excused = 0 /\ ~past'.covered
  <2> DEFINE zero == 0
             q == [past EXCEPT !.covered = FALSE, !.excused = zero]
  <2>1. past' = q /\ zero \in 0..2
    BY DEF W!Midnight
  <2> HIDE DEF zero
  <2>2. /\ q \in Past /\ q.told = past.told /\ q.base = past.base
        /\ q.excused = zero /\ q.covered = FALSE
    BY <1>1, <2>1 DEF Past
  <2>3. zero = 0
    BY DEF zero
  <2> HIDE DEF q
  <2> QED BY <2>1, <2>2, <2>3
<1>6. \/ pass = NoRun /\ pass' = NoRun
      \/ /\ pass # NoRun /\ pass' \in Pass /\ pass'.pc = pass.pc
         /\ pass'.prev.sig = pass.prev.sig /\ pass'.prev.restarts = pass.prev.restarts
         /\ pass'.prev.date = W!Older(pass.prev.date)
         /\ pass'.date # "today" /\ pass'.fails = pass.fails /\ pass'.restarts = pass.restarts
         /\ pass'.owed = pass.owed /\ pass'.late = pass.late /\ pass'.digest = pass.digest
         /\ ~pass'.sound
  BY MidnightPass
<1>7. WatchTypes'
  BY <1>1, <1>3, <1>4, <1>5, <1>6 DEF WatchInv, WatchTypes
<1>8. Told'
  BY <1>3, <1>5, <1>6 DEF WatchInv, Told
<1>9. Dated'
  BY <1>3, <1>6 DEF WatchInv, Dated
<1>10. ~Recording'
  BY <1>6 DEF Recording
<1>11. Budget'
  BY <1>4, <1>5 DEF Budget
<1>12. Covered'
  BY <1>3, <1>5, <1>6, <1>10 DEF WatchInv, Covered
<1> QED BY <1>7, <1>8, <1>9, <1>11, <1>12 DEF WatchInv

\* The machine goes: the pass with it, perhaps the file, and a digest not recorded
\* is excused.
LEMMA PowerLossStep ==
  ASSUME W!HostWatchAssumption, WatchInv, W!PowerLoss
  PROVE  WatchInv'
<1>1. /\ file \in StateFile /\ mailbox \in Mailbox /\ past \in Past
      /\ pass' = NoRun /\ grace' = TRUE /\ UNCHANGED <<late, world, path, mailbox>>
  BY DEF W!PowerLoss, WatchInv, WatchTypes
<1>2. /\ past.excused \in Int /\ past.excused >= 0 /\ past.excused <= 2
      /\ mailbox.digests \in Int /\ mailbox' = mailbox
  BY <1>1, WatchFields
<1>3. ~Recording'
  BY <1>1 DEF Recording
<1>4. Dated'
  BY <1>1 DEF Dated
<1>5. CASE /\ file' = file
           /\ past' = [past EXCEPT !.excused =
                         IF W!At("record") /\ past.excused < 2 THEN past.excused + 1 ELSE past.excused]
  <2> DEFINE n == IF W!At("record") /\ past.excused < 2 THEN past.excused + 1 ELSE past.excused
  <2>1. /\ n \in 0..2 /\ past.excused <= n
        /\ W!At("record") => n = past.excused + 1 \/ n = 2
    BY <1>2
  <2>2. past' = [past EXCEPT !.excused = n]
    BY <1>5
  <2> HIDE DEF n
  <2>3. /\ past' \in Past /\ past'.told = past.told /\ past'.base = past.base
        /\ past'.excused = n /\ past'.covered = past.covered
    BY <1>1, <2>1, <2>2 DEF Past
  <2>4. WatchTypes' /\ Told'
    BY <1>1, <1>5, <2>3 DEF WatchInv, WatchTypes, Told
  <2>5. Recording => W!At("record")
    BY DEF Recording, W!At
  <2>6. Budget'
    <3>1. n \in Int /\ n >= 0 /\ n <= 2
      BY <2>1
    <3>2. CASE mailbox.digests <= past.excused
      <4>1. mailbox.digests <= n
        BY <1>2, <2>1, <3>1, <3>2
      <4> QED BY <1>2, <2>3, <4>1 DEF Budget
    <3>3. CASE past.excused = 2
      <4>1. n = 2
        BY <1>2, <2>1, <3>1, <3>3
      <4> QED BY <2>3, <4>1 DEF Budget
    <3>4. CASE file.date = "today" /\ mailbox.digests <= 1 + past.excused
      <4>1. mailbox.digests <= 1 + n
        BY <1>2, <2>1, <3>1, <3>4
      <4> QED BY <1>2, <1>5, <2>3, <3>4, <4>1 DEF Budget
    <3>5. CASE Recording /\ mailbox.digests <= 1 + past.excused
      <4>1. n = 2 \/ mailbox.digests <= n
        BY <1>2, <2>1, <2>5, <3>1, <3>5
      <4> QED BY <1>2, <2>3, <4>1 DEF Budget
    <3> QED BY <3>2, <3>3, <3>4, <3>5 DEF WatchInv, Budget
  <2>7. Covered'
    BY <1>1, <1>2, <1>3, <1>5, <2>3 DEF WatchInv, Covered
  <2> QED BY <1>4, <2>4, <2>6, <2>7 DEF WatchInv
<1>6. CASE /\ file' = W!Empty
           /\ past' = [told |-> None, base |-> W!NoCounts, covered |-> past.covered,
                       excused |-> IF past.excused < 2 THEN past.excused + 1 ELSE past.excused]
  <2> DEFINE n == IF past.excused < 2 THEN past.excused + 1 ELSE past.excused
  <2>1. /\ n \in 0..2 /\ (n = past.excused + 1 \/ n = 2)
    BY <1>2
  <2>2. past' = [told |-> None, base |-> W!NoCounts, covered |-> past.covered, excused |-> n]
    BY <1>6
  <2> HIDE DEF n
  <2>3. past.covered \in BOOLEAN
    BY <1>1 DEF Past
  <2>4. /\ past' \in Past /\ past'.told = None /\ past'.base = W!NoCounts
        /\ past'.excused = n /\ past'.covered = past.covered
    BY <2>1, <2>2, <2>3, WatchFields DEF Past, Signatures
  <2>5. file' \in StateFile /\ file'.sig = None /\ file'.date = "none" /\ file'.restarts = W!NoCounts
    BY <1>6, WatchFields
  <2>6. WatchTypes' /\ Told'
    BY <1>1, <2>4, <2>5 DEF WatchInv, WatchTypes, Told
  <2>7. Budget'
    <3>1. n = 2 \/ mailbox.digests <= n
      BY <1>2, <2>1 DEF WatchInv, Budget
    <3> QED BY <1>2, <2>4, <3>1 DEF Budget
  <2>8. Covered'
    BY <1>1, <1>2, <1>3, <2>4, <2>5 DEF WatchInv, Covered
  <2> QED BY <1>4, <2>6, <2>7, <2>8 DEF WatchInv
<1> QED BY <1>5, <1>6 DEF W!PowerLoss

\* A change of the mail path makes a pass of this moment unsound and leaves the rest.
LEMMA PathPass ==
  ASSUME W!HostWatchAssumption, WatchInv, W!PathChanges
  PROVE  \/ pass = NoRun /\ pass' = NoRun
         \/ /\ pass # NoRun /\ pass' \in Pass /\ pass'.pc = pass.pc /\ pass'.prev = pass.prev
            /\ pass'.date = pass.date /\ pass'.fails = pass.fails /\ pass'.restarts = pass.restarts
            /\ pass'.owed = pass.owed /\ pass'.late = pass.late /\ pass'.digest = pass.digest
            /\ ~pass'.sound
<1>1. pass # NoRun => pass \in Pass
  BY DEF WatchInv, WatchTypes
<1> QED
  <2>1. CASE pass = NoRun
    BY <2>1 DEF W!PathChanges
  <2>2. CASE pass # NoRun
    <3>1. pass' = [pass EXCEPT !.sound = FALSE]
      BY <2>2 DEF W!PathChanges
    <3> QED BY <1>1, <2>2, <3>1 DEF Pass
  <2> QED BY <2>1, <2>2

\* The mail path changes under a pass.
LEMMA PathStep ==
  ASSUME W!HostWatchAssumption, NoRun \notin Pass, WatchInv, W!PathChanges
  PROVE  WatchInv'
<1>1. /\ path \in [smtp : BOOLEAN, credentials : BOOLEAN] /\ (pass # NoRun => pass \in Pass)
      /\ UNCHANGED <<late, grace, world, file, mailbox, past>>
  BY DEF W!PathChanges, WatchInv, WatchTypes
<1>2. path' \in [smtp : BOOLEAN, credentials : BOOLEAN]
  BY <1>1 DEF W!PathChanges
<1>3. \/ pass = NoRun /\ pass' = NoRun
      \/ /\ pass # NoRun /\ pass' \in Pass /\ pass'.pc = pass.pc /\ pass'.prev = pass.prev
         /\ pass'.date = pass.date /\ pass'.fails = pass.fails /\ pass'.restarts = pass.restarts
         /\ pass'.owed = pass.owed /\ pass'.late = pass.late /\ pass'.digest = pass.digest
         /\ ~pass'.sound
  BY PathPass
<1>4. WatchTypes'
  BY <1>1, <1>2, <1>3 DEF WatchInv, WatchTypes
<1>5. Told' /\ Dated'
  BY <1>1, <1>3 DEF WatchInv, Told, Dated
<1>6. Recording' => Recording
  BY <1>3 DEF Recording
<1>7. Recording => Recording' \/ pass' = NoRun
  BY <1>3 DEF Recording
<1>8. Budget'
  <2>1. CASE pass' # NoRun
    BY <1>1, <1>7, <2>1 DEF WatchInv, Budget
  <2>2. CASE pass' = NoRun
    BY <1>1, <1>3, <2>2 DEF WatchInv, Budget, Recording
  <2> QED BY <2>1, <2>2
<1>9. Covered'
  BY <1>1, <1>3, <1>6 DEF WatchInv, Covered
<1> QED BY <1>4, <1>5, <1>8, <1>9 DEF WatchInv

\* The invariant of the health daemon.
LEMMA WatchInductive ==
  ASSUME W!HostWatchAssumption, NoRun \notin Pass
  PROVE  /\ W!Init => WatchInv
         /\ WatchInv /\ [W!Next]_W!vars => WatchInv'
<1>1. ASSUME W!Init PROVE WatchInv
  <2>0. MaxRestarts \in Nat /\ 0 \in 0..MaxRestarts
    BY DEF W!HostWatchAssumption
  <2>1. world \in Platform
    <3>1. [s \in Services |-> 0] \in [Services -> 0..MaxRestarts]
      BY <2>0
    <3> QED BY <1>1, <3>1 DEF W!Init, Platform
  <2>2. mailbox \in Mailbox /\ mailbox.digests = 0
    BY <1>1 DEF W!Init, Mailbox, Signatures
  <2>3. /\ past \in Past /\ past.told = None /\ past.base = W!NoCounts /\ past.excused = 0
        /\ ~past.covered
    BY <1>1, WatchFields DEF W!Init, Past, Signatures
  <2>4. /\ file \in StateFile /\ file.sig = None /\ file.date = "none"
        /\ file.restarts = W!NoCounts /\ pass = NoRun
    BY <1>1, WatchFields DEF W!Init
  <2>5. late \in BOOLEAN /\ grace \in BOOLEAN /\ path \in [smtp : BOOLEAN, credentials : BOOLEAN]
    BY <1>1 DEF W!Init
  <2> QED BY <2>1, <2>2, <2>3, <2>4, <2>5
          DEF WatchInv, WatchTypes, Told, Dated, Budget, Covered, Recording
<1>2. ASSUME WatchInv, [W!Next]_W!vars PROVE WatchInv'
  <2>0. /\ late \in BOOLEAN /\ grace \in BOOLEAN /\ world \in Platform
        /\ path \in [smtp : BOOLEAN, credentials : BOOLEAN]
    BY <1>2 DEF WatchInv, WatchTypes
  <2>1. CASE W!BootPass
    BY <1>2, <2>0, <2>1, PlatformStep DEF W!BootPass
  <2>2. CASE W!Step
    BY <1>2, <2>2, BeginStep, ServiceChecksStep, OtherChecksStep, DecideStep, SendEventStep,
       SendDigestStep, RecordDigestStep DEF W!Step
  <2>3. CASE W!Morning
    BY <1>2, <2>0, <2>3, PlatformStep DEF W!Morning
  <2>4. CASE W!GraceOver
    BY <1>2, <2>0, <2>4, PlatformStep DEF W!GraceOver
  <2>5. CASE W!PlatformChanges
    <3>1. world' \in Platform
      BY <2>0, <2>5, PlatformTyped DEF W!PlatformChanges
    <3> QED BY <1>2, <2>0, <2>5, <3>1, PlatformStep DEF W!PlatformChanges
  <2>6. CASE W!Midnight \/ W!PowerLoss \/ W!PathChanges
    BY <1>2, <2>6, MidnightStep, PowerLossStep, PathStep
  <2>7. CASE UNCHANGED W!vars
    BY <1>2, <2>0, <2>7, PlatformStep DEF W!vars
  <2> QED BY <1>2, <2>1, <2>2, <2>3, <2>4, <2>5, <2>6, <2>7 DEF W!Next
<1> QED BY <1>1, <1>2

\* A working day gets its digest, and a second one only when the first could not
\* be recorded, however mail path, midnights and power losses fall (the digest's
\* date is recorded after the mail was accepted, never before).
THEOREM DigestOfTheDay ==
  ASSUME W!HostWatchAssumption, NoRun \notin Pass
  PROVE  W!Spec => [](W!TypeOK /\ W!DigestArrives /\ W!OneDigest)
<1>1. WatchInv => W!TypeOK
  <2> SUFFICES ASSUME WatchInv PROVE W!TypeOK
    OBVIOUS
  <2>1. /\ late \in BOOLEAN /\ grace \in BOOLEAN
        /\ file \in StateFile /\ (pass # NoRun => pass \in Pass)
        /\ mailbox \in Mailbox /\ past \in Past
    BY DEF WatchInv, WatchTypes
  <2>2. (file.sig = None \/ file.sig \subseteq W!Failures) /\ file.date \in W!Dates
        /\ file.restarts \in W!Counts
    BY <2>1 DEF StateFile, Signatures
  <2>3. mailbox.digests \in 0..3
    BY <2>1 DEF Mailbox
  <2>4. past.base \in W!Counts /\ past.excused \in 0..2
    BY <2>1 DEF Past
  <2>5. pass # NoRun
        => /\ pass.pc \in {"services", "rest", "decide", "event", "digest", "record"}
           /\ pass.date \in {"earlier", "today"} /\ pass.prev.date \in W!Dates
           /\ pass.fails \subseteq W!Failures /\ pass.restarts \in W!Counts
    BY <2>1 DEF Pass, StateFile
  <2> QED BY <2>1, <2>2, <2>3, <2>4, <2>5 DEF W!TypeOK
<1>2. WatchInv => W!DigestArrives
  BY DEF WatchInv, Covered, W!DigestArrives
<1>3. WatchInv => W!OneDigest
  <2> SUFFICES ASSUME WatchInv PROVE mailbox.digests <= 1 + past.excused
    BY DEF W!OneDigest
  <2>1. past.excused \in Int /\ mailbox.digests \in Int /\ mailbox.digests <= 3
    BY WatchFields DEF WatchInv, WatchTypes
  <2> QED BY <2>1 DEF WatchInv, Budget
<1> QED BY <1>1, <1>2, <1>3, WatchInductive, PTL DEF W!Spec

\* One mail per change, and every restart reported: a pass sends an event only
\* for what the last decision did not tell, and leaves no restart since the last
\* baseline out of what it records (transitions.sh; check 5d).
THEOREM ChangesToldOnce ==
  ASSUME W!HostWatchAssumption, NoRun \notin Pass
  PROVE  W!Spec => [][W!NoAlertStorm /\ W!RestartReported]_W!vars
<1>1. ASSUME WatchInv, [W!Next]_W!vars
      PROVE  [W!NoAlertStorm /\ W!RestartReported]_W!vars
  <2>1. ASSUME W!At("decide"), W!Next, ~W!Decide
        PROVE  ~W!At("event")' /\ (~W!At("decide")' => grace')
    <3>1. pass # NoRun /\ pass.pc = "decide" /\ pass \in Pass
      BY <1>1, <2>1 DEF W!At, WatchInv, WatchTypes
    <3>2. CASE W!BootPass \/ W!Step
      BY <2>1, <3>1, <3>2 DEF W!BootPass, W!Step, W!Begin, W!ServiceChecks, W!OtherChecks,
         W!SendEvent, W!SendDigest, W!RecordDigest, W!At
    <3>3. CASE W!Morning \/ W!GraceOver \/ W!PlatformChanges
      BY <3>1, <3>3 DEF W!Morning, W!GraceOver, W!PlatformChanges, W!At
    <3>4. CASE W!PowerLoss
      BY <3>4 DEF W!PowerLoss, W!At
    <3>5. CASE W!Midnight \/ W!PathChanges
      <4>1. pass' \in Pass /\ pass'.pc = "decide"
        BY <1>1, <3>1, <3>5, MidnightPass, PathPass
      <4>2. pass' # NoRun
        BY <4>1
      <4> QED BY <4>1, <4>2 DEF W!At
    <3> QED BY <2>1, <3>2, <3>3, <3>4, <3>5 DEF W!Next
  <2>2. W!Next => W!NoAlertStorm
    <3> SUFFICES ASSUME W!Next, W!At("decide"), W!At("event")'
                 PROVE  pass.fails # past.told
      BY DEF W!NoAlertStorm
    <3>1. W!Decide
      BY <2>1
    <3>2. pass # NoRun /\ pass.pc = "decide" /\ pass \in Pass /\ pass.prev.sig = past.told
      BY <1>1 DEF W!At, WatchInv, WatchTypes, Told
    <3>3. ASSUME pass.fails = pass.prev.sig PROVE FALSE
      BY <3>1, <3>2, <3>3 DEF W!Decide, W!Decision, W!At, Pass
    <3> QED BY <3>2, <3>3
  <2>3. W!Next => W!RestartReported
    <3> SUFFICES ASSUME W!Next, W!At("decide"), ~W!At("decide")', ~grace',
                        NEW s \in Services, past.base[s] >= 0, pass.restarts[s] > past.base[s]
                 PROVE  "restarts" \in file'.sig
      BY DEF W!RestartReported
    <3>1. W!Decide
      BY <2>1
    <3>2. "restarts" \in pass.fails
      BY <1>1 DEF W!At, WatchInv, Told
    <3>3. file'.sig = pass.fails
      BY <3>1 DEF W!Decide, W!Decision, W!Recorded
    <3> QED BY <3>2, <3>3
  <2> QED BY <1>1, <2>2, <2>3
<1> QED BY <1>1, WatchInductive, PTL DEF W!Spec
=============================================================================
