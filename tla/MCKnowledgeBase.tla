--------------------------- MODULE MCKnowledgeBase ---------------------------
(***************************************************************************)
(* Instances of KnowledgeBase: what operators ask for and what may fail     *)
(* with two embedding spaces, three re-indexing tasks, a store that writes  *)
(* late, and two grounded requests.  A part differs from the others in what *)
(* is asked for, what fails and which documents are older than the fence,   *)
(* and keeps to fewer tasks and readers: its behaviours are behaviours of   *)
(* the specification.                                                       *)
(***************************************************************************)
EXTENDS KnowledgeBase, TLC

CONSTANTS d1, t1, t2, t3, g1, g2, i1, i2

VARIABLE part  \* the instance a behaviour is one of

all == <<part, row, stored, points, fence, coll, serving, task, late, up, rebuild, reader, records, suspect, stranded>>

MCDocs == {d1}
MCTasks == {t1, t2, t3}
MCReaders == {g1, g2}
MCIdentities == {i1, i2}

\* Tasks play the same part, and so do readers.
Symmetry == Permutations({t1, t2, t3}) \cup Permutations({g1, g2})

Spaces == INSTANCE KnowledgeBase WITH Legacy <- {},
    Kinds <- {"upload", "reindex", "delete"}, Faults <- {"crash", "vectors", "late"}
Claims == INSTANCE KnowledgeBase WITH Identities <- {i1}, Legacy <- {d1}, Kinds <- {"reindex", "delete"},
    Faults <- {"vectors", "crash", "commit"}, MaxEpoch <- 5
Writes == INSTANCE KnowledgeBase WITH Identities <- {i1}, Legacy <- {d1},
    Kinds <- {"upload", "reindex", "delete"}, Faults <- {"crash", "vectors", "late", "commit", "deploy"}
Grounded == INSTANCE KnowledgeBase WITH Identities <- {i1}, Legacy <- {}, Kinds <- {"upload", "delete"},
    Faults <- {"vectors"}
Forgetting == INSTANCE KnowledgeBase WITH Identities <- {i1}, Legacy <- {}, Kinds <- {"upload", "delete"},
    Faults <- {"vectors", "records"}, MaxEpoch <- 5

ASSUME
    /\ KnowledgeBaseAssumption
    /\ Spaces!KnowledgeBaseAssumption /\ Claims!KnowledgeBaseAssumption /\ Writes!KnowledgeBaseAssumption
    /\ Grounded!KnowledgeBaseAssumption /\ Forgetting!KnowledgeBaseAssumption

\* Bounds: at most so many tasks and readers at a time.
AtMost(tasks, readers) ==
    /\ Cardinality({t \in Tasks : task'[t] # Idle}) <= tasks
    /\ Cardinality({g \in Readers : reader'[g] # Quiet}) <= readers

MCInit ==
    \/ part = "spaces" /\ Spaces!Init
    \/ part = "claims" /\ Claims!Init
    \/ part = "writes" /\ Writes!Init
    \/ part = "grounding" /\ Grounded!Init
    \/ part = "forgetting" /\ Forgetting!Init

MCNext ==
    \/ part = "spaces" /\ Spaces!Next /\ AtMost(2, 0) /\ UNCHANGED part
    \/ part = "claims" /\ Claims!Next /\ AtMost(3, 0) /\ UNCHANGED part
    \/ part = "writes" /\ Writes!Next /\ AtMost(2, 0) /\ UNCHANGED part
    \/ part = "grounding" /\ Grounded!Next /\ AtMost(1, 2) /\ UNCHANGED part
    \/ part = "forgetting" /\ Forgetting!Next /\ AtMost(1, 1) /\ UNCHANGED part

MCSpec == MCInit /\ [][MCNext]_all

\* Two stable answers for one prefix at one epoch are the same where no record expires, and one
\* task at a time re-indexes a document where no upload is under way and no deploy provisions
\* beside a running gateway: ReplayStable and ReindexExclusive of KnowledgeBase, with FencedChange
\* in every part.
ChangesFenced ==
    [][/\ FencedChange
       /\ part # "forgetting" => ReplayStable'
       /\ part = "claims" => ReindexExclusive']_all
==============================================================================
