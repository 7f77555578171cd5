----------------------------- MODULE KnowledgeBase -----------------------------
(***************************************************************************)
(* One tenant's knowledge base: upload, extraction, indexing, re-indexing  *)
(* and deletion of documents, the epoch fence every change is made under,  *)
(* the vector store whose writes may outlive their caller, the operator's  *)
(* offline recovery and rebuild, and the grounding of chat from records    *)
(* that are valid for one epoch.                                           *)
(*                                                                         *)
(* A document's passages are abstracted to the embedding space they are    *)
(* in; its text to whether it has any.  One collection is followed; one    *)
(* created later has another identifier, and its own epoch.                *)
(***************************************************************************)
EXTENDS Naturals, FiniteSets

CONSTANTS
    Docs, Tasks, Readers,
    Identities,         \* embedding identities: runtime, reference, manifest
    Legacy,             \* documents indexed before identities were recorded
    Kinds,              \* "upload", "reindex", "delete": what operators ask for
    Faults,             \* "crash", "vectors", "late", "records", "commit": what goes wrong; "deploy"
    MaxEpoch            \* bound: no more is asked for once the tenant's epoch is there

KnowledgeBaseAssumption ==
    /\ Legacy \subseteq Docs /\ MaxEpoch \in Nat /\ "none" \notin Identities /\ "legacy" \notin Identities
    /\ IsFiniteSet(Tasks)

VARIABLES
    row,        \* document -> status, "none" when there is no row
    stored,     \* document -> what the volume holds: "none", "original", "text", "empty"
    points,     \* document -> the space its passages are in, "none" without passages
    fence,      \* the tenant's epoch row
    coll,       \* the collection's row
    serving,    \* identities the embedding policy can resolve now
    task,       \* requests and the detached tasks they scheduled
    late,       \* vector writes given up on that the store may still apply
    up,         \* whether the gateway runs
    rebuild,    \* the operator's rebuild
    reader,     \* grounding requests
    records,    \* grounding records
    suspect,    \* history: documents whose last change failed midway
    stranded    \* history: documents whose task ended, or died, without a status to rest in

vars == <<row, stored, points, fence, coll, serving, task, late, up, rebuild, reader, records, suspect, stranded>>
content == <<row, stored, points, stranded>>

TRANSIENT_DOCUMENT_STATES == {"extracting", "indexing"}
REINDEXABLE_STATES == {"extracted", "indexed", "error"}
REBUILT_STATES == {"indexed", "extracted"}

Idle == [kind |-> "none", step |-> "idle", docs |-> {}, todo |-> {}, text |-> "none", space |-> "none"]
NoRebuild == [step |-> "idle", todo |-> {}, space |-> "none"]
Quiet == [step |-> "idle", scope |-> "tenant", before |-> <<>>, found |-> {}, seen |-> {}, stable |-> FALSE]

Init ==
    /\ row = [d \in Docs |-> IF d \in Legacy THEN "indexed" ELSE "none"]
    /\ stored = [d \in Docs |-> IF d \in Legacy THEN "text" ELSE "none"]
    /\ points = [d \in Docs |-> IF d \in Legacy THEN "legacy" ELSE "none"]
    /\ fence = [epoch |-> 0, dirty |-> 0, identity |-> "none", requires |-> Legacy # {}, rebuilding |-> FALSE]
    /\ coll = [alive |-> TRUE, epoch |-> 0, dirty |-> 0]
    /\ serving = Identities
    /\ task = [t \in Tasks |-> Idle]
    /\ late = {} /\ up = TRUE /\ rebuild = NoRebuild
    /\ reader = [g \in Readers |-> Quiet]
    /\ records = {} /\ suspect = {} /\ stranded = {}

----------------------------------------------------------------------------
(* The fence and the rows *)

\* mutation: Begin, committed before any content changes
Begin ==
    /\ fence' = [fence EXCEPT !.epoch = @ + 1, !.dirty = @ + 1]
    /\ coll' = [coll EXCEPT !.epoch = @ + 1, !.dirty = @ + 1]

\* _end
Ended(f) == [f EXCEPT !.epoch = @ + 1, !.dirty = IF @ > 0 THEN @ - 1 ELSE @]

End == fence' = Ended(fence) /\ coll' = Ended(coll)

Stranding(d) == stranded' = stranded \cup {d}

\* DocumentStateCommitter.commit: an UPDATE that matches nothing once the row is gone; one that
\* fails is logged, and the task goes on
Commit(d, status) ==
    \/ row' = [row EXCEPT ![d] = IF @ = "none" THEN @ ELSE status] /\ stranded' = stranded \ {d}
    \/ /\ "commit" \in Faults /\ UNCHANGED row
       /\ IF status \in {"indexed", "error"} THEN Stranding(d) ELSE UNCHANGED stranded

Go(t, s) == task' = [task EXCEPT ![t].step = s]
Free(t) == task' = [task EXCEPT ![t] = Idle]
Doc(t) == CHOOSE d \in task[t].docs : TRUE

\* a failure inside run or run_reindex: ERROR is committed, the fence stays as it is
Failed(t) == Commit(Doc(t), "error") /\ Free(t) /\ UNCHANGED <<fence, coll>>

----------------------------------------------------------------------------
(* Upload and ingestion *)

Upload(t, d) ==
    /\ "upload" \in Kinds /\ up /\ task[t] = Idle /\ coll.alive
    /\ row[d] = "none" /\ stored[d] = "none" /\ d \notin suspect
    /\ \A o \in Tasks : d \notin task[o].docs
    /\ Begin
    /\ task' = [task EXCEPT ![t] = [Idle EXCEPT !.kind = "ingest", !.step = "store", !.docs = {d}]]
    /\ suspect' = suspect \cup {d}
    /\ UNCHANGED <<content, serving, late, up, rebuild, reader, records>>

\* bytes, row, claim and End in the request's transaction, then the task is scheduled
Uploaded(t) ==
    /\ up /\ task[t].step = "store" /\ coll.alive
    /\ row' = [row EXCEPT ![Doc(t)] = "extracting"] /\ stranded' = stranded \ {Doc(t)}
    /\ stored' = [stored EXCEPT ![Doc(t)] = "original"]
    /\ End /\ Go(t, "start")
    /\ UNCHANGED <<points, serving, late, up, rebuild, reader, records, suspect>>

UploadFails(t) ==
    /\ up /\ task[t].step = "store"
    /\ stored' \in {stored, [stored EXCEPT ![Doc(t)] = "original"]}
    /\ Free(t)
    /\ UNCHANGED <<row, points, fence, coll, serving, late, up, rebuild, reader, records, suspect, stranded>>

\* run and run_reindex begin with the document, whose read may fail outside every handler, and,
\* for the latter, its stored text
Start(t) ==
    /\ up /\ task[t].step = "start"
    /\ \/ "commit" \in Faults /\ Free(t) /\ Stranding(Doc(t)) /\ UNCHANGED <<row, fence, coll>>
       \/ row[Doc(t)] = "none" /\ Free(t) /\ UNCHANGED <<row, fence, coll, stranded>>
       \/ row[Doc(t)] # "none" /\ task[t].kind = "ingest" /\ Go(t, "extract") /\ UNCHANGED <<row, fence, coll, stranded>>
       \/ /\ row[Doc(t)] # "none" /\ task[t].kind = "reindex"
          /\ IF stored[Doc(t)] \in {"text", "empty"}
             THEN /\ task' = [task EXCEPT ![t].step = "index", ![t].text = stored[Doc(t)]]
                  /\ UNCHANGED <<row, fence, coll, stranded>>
             ELSE Failed(t)
    /\ UNCHANGED <<stored, points, serving, late, up, rebuild, reader, records, suspect>>

\* _extract, then the text is stored, deleted or not, and EXTRACTED committed
Extract(t, text) ==
    /\ up /\ task[t].step = "extract"
    /\ IF text = "none"
       THEN Failed(t) /\ UNCHANGED stored
       ELSE /\ stored' = [stored EXCEPT ![Doc(t)] = text]
            /\ Commit(Doc(t), "extracted")
            /\ task' = [task EXCEPT ![t].step = "index", ![t].text = text]
            /\ UNCHANGED <<fence, coll>>
    /\ UNCHANGED <<points, serving, late, up, rebuild, reader, records, suspect>>

\* _index: INDEXING is committed first
IndexStart(t) ==
    /\ up /\ task[t].step = "index"
    /\ Commit(Doc(t), "indexing") /\ Go(t, "resolve")
    /\ UNCHANGED <<stored, points, fence, coll, serving, late, up, rebuild, reader, records, suspect>>

\* nothing to embed, or the identity the index requires, resolved and embedded
Resolve(t) ==
    /\ up /\ task[t].step = "resolve"
    /\ \/ task[t].text = "empty" /\ Go(t, "begin") /\ UNCHANGED <<row, fence, coll, stranded>>
       \/ /\ task[t].text = "text" /\ ~fence.rebuilding
          /\ \E i \in serving :
                /\ fence.identity \in {"none", i}
                /\ task' = [task EXCEPT ![t].step = "begin", ![t].space = i]
          /\ UNCHANGED <<row, fence, coll, stranded>>
       \/ task[t].text = "text" /\ Failed(t)
    /\ UNCHANGED <<stored, points, serving, late, up, rebuild, reader, records, suspect>>

BeginMutation(t) ==
    /\ up /\ task[t].step = "begin" /\ Begin
    /\ Go(t, IF task[t].kind = "delete" THEN "forget" ELSE IF task[t].space = "none" THEN "delete" ELSE "bind")
    /\ suspect' = suspect \cup task[t].docs
    /\ UNCHANGED <<content, serving, late, up, rebuild, reader, records>>

\* bind_embedding_identity: one space per index, none during a rebuild
\* Mutant: the identity is written without comparing
BindUnchecked(t) ==
    /\ up /\ task[t].step = "bind"
    /\ fence' = [fence EXCEPT !.identity = task[t].space] /\ Go(t, "delete")
    /\ UNCHANGED <<content, coll, serving, late, up, rebuild, reader, records, suspect>>

Bind(t) ==
    /\ up /\ task[t].step = "bind"
    /\ IF ~fence.rebuilding /\ fence.identity \in {"none", task[t].space}
       THEN /\ fence' = [fence EXCEPT !.identity = task[t].space] /\ Go(t, "delete")
            /\ UNCHANGED <<row, coll, stranded>>
       ELSE Failed(t)
    /\ UNCHANGED <<stored, points, serving, late, up, rebuild, reader, records, suspect>>

VectorsDelete(t) ==
    /\ up /\ task[t].step = "delete"
    /\ points' = [points EXCEPT ![Doc(t)] = "none"]
    /\ Go(t, IF task[t].space = "none" THEN "end" ELSE "upsert")
    /\ UNCHANGED <<row, stored, fence, coll, serving, late, up, rebuild, reader, records, suspect, stranded>>

VectorsUpsert(t) ==
    /\ up /\ task[t].step = "upsert"
    /\ points' = [points EXCEPT ![Doc(t)] = task[t].space]
    /\ Go(t, "end")
    /\ UNCHANGED <<row, stored, fence, coll, serving, late, up, rebuild, reader, records, suspect, stranded>>

\* the store errors or its answer is late: the write may still happen
VectorsFail(t) ==
    /\ "vectors" \in Faults /\ up /\ task[t].step \in {"delete", "upsert"}
    /\ Failed(t)
    /\ \/ UNCHANGED late
       \/ /\ "late" \in Faults
          /\ late' = late \cup {<<Doc(t), IF task[t].step = "upsert" THEN task[t].space ELSE "none">>}
    /\ UNCHANGED <<stored, points, serving, up, rebuild, reader, records, suspect>>

LateWrite ==
    \E w \in late :
        /\ late' = late \ {w}
        /\ points' = [points EXCEPT ![w[1]] = w[2]]
        /\ UNCHANGED <<row, stored, fence, coll, serving, task, up, rebuild, reader, records, suspect,
                       stranded>>

EndMutation(t) ==
    /\ up /\ task[t].step = "end"
    /\ End /\ Go(t, "finish")
    /\ UNCHANGED <<content, serving, late, up, rebuild, reader, records, suspect>>

Finish(t) ==
    /\ up /\ task[t].step = "finish"
    /\ Commit(Doc(t), "indexed") /\ Free(t)
    /\ suspect' = IF fence.dirty > 0 THEN suspect ELSE suspect \ {Doc(t)}
    /\ UNCHANGED <<stored, points, fence, coll, serving, late, up, rebuild, reader, records>>

----------------------------------------------------------------------------
(* Re-indexing and deletion *)

ReindexAsk(t, d) ==
    /\ "reindex" \in Kinds /\ up /\ task[t] = Idle /\ row[d] \in REINDEXABLE_STATES
    /\ task' = [task EXCEPT ![t] = [Idle EXCEPT !.kind = "reindex", !.step = "claim", !.docs = {d}]]
    /\ UNCHANGED <<content, fence, coll, serving, late, up, rebuild, reader, records, suspect>>

\* claim_document_status: the UPDATE names the states it may claim from
Claimed(d) ==
    row' = [row EXCEPT ![d] = IF @ = "none" THEN @ ELSE "indexing"] /\ stranded' = stranded \ {d}

\* Mutant: the status is written as it was read
ReindexClaimBlind(t) ==
    /\ up /\ task[t].step = "claim"
    /\ Claimed(Doc(t)) /\ Go(t, "start")
    /\ UNCHANGED <<stored, points, fence, coll, serving, late, up, rebuild, reader, records, suspect>>

ReindexClaim(t) ==
    /\ up /\ task[t].step = "claim"
    /\ IF row[Doc(t)] \in REINDEXABLE_STATES
       THEN Claimed(Doc(t)) /\ Go(t, "start")
       ELSE Free(t) /\ UNCHANGED <<row, stranded>>
    /\ UNCHANGED <<stored, points, fence, coll, serving, late, up, rebuild, reader, records, suspect>>

\* delete_document and delete_collection: refused while any document is being ingested
DeleteAsk(t, ds, whole) ==
    /\ "delete" \in Kinds /\ up /\ task[t] = Idle /\ coll.alive
    /\ \A d \in ds : row[d] \notin TRANSIENT_DOCUMENT_STATES \cup {"none"}
    /\ IF whole THEN ds = {d \in Docs : row[d] # "none"} ELSE Cardinality(ds) = 1
    /\ task' = [task EXCEPT ![t] = [Idle EXCEPT !.kind = "delete", !.step = "begin", !.docs = ds, !.todo = ds,
                                                !.text = IF whole THEN "collection" ELSE "none"]]
    /\ UNCHANGED <<content, fence, coll, serving, late, up, rebuild, reader, records, suspect>>

\* _forget_document: passages, then bytes; the row goes with the transaction
Forget(t, d) ==
    /\ up /\ task[t].step = "forget" /\ d \in task[t].todo
    /\ points' = [points EXCEPT ![d] = "none"]
    /\ stored' = [stored EXCEPT ![d] = "none"]
    /\ task' = [task EXCEPT ![t].todo = @ \ {d}]
    /\ UNCHANGED <<row, fence, coll, serving, late, up, rebuild, reader, records, suspect, stranded>>

ForgetFails(t, d) ==
    /\ "vectors" \in Faults /\ up /\ task[t].step = "forget" /\ d \in task[t].todo
    /\ \/ UNCHANGED <<points, late>>
       \/ points' = [points EXCEPT ![d] = "none"] /\ UNCHANGED late
       \/ "late" \in Faults /\ late' = late \cup {<<d, "none">>} /\ UNCHANGED points
    /\ Free(t)
    /\ UNCHANGED <<row, stored, fence, coll, serving, up, rebuild, reader, records, suspect, stranded>>

\* rows and End in one commit; the collection's row goes only if no document refers to it
DeleteCommit(t) ==
    LET whole == task[t].text = "collection"
        others == {d \in Docs \ task[t].docs : row[d] # "none"}
    IN
    /\ up /\ task[t].step = "forget" /\ task[t].todo = {}
    /\ IF whole /\ others # {} THEN UNCHANGED <<row, fence, coll>>
       ELSE /\ row' = [d \in Docs |-> IF d \in task[t].docs THEN "none" ELSE row[d]]
            /\ fence' = Ended(fence)
            /\ coll' = [Ended(coll) EXCEPT !.alive = @ /\ ~whole]
    /\ Free(t)
    /\ UNCHANGED <<stored, points, serving, late, up, rebuild, reader, records, suspect, stranded>>

----------------------------------------------------------------------------
(* The gateway, the policy and the operator *)

Crash ==
    /\ "crash" \in Faults /\ up /\ up' = FALSE
    /\ task' = [t \in Tasks |-> Idle]
    /\ reader' = [g \in Readers |-> Quiet]
    /\ stranded' = stranded \cup {d \in Docs : row[d] \in TRANSIENT_DOCUMENT_STATES}
    /\ UNCHANGED <<row, stored, points, fence, coll, serving, late, rebuild, records, suspect>>

\* the container's restart policy, which provisions nothing
Restart ==
    /\ ~up /\ rebuild = NoRebuild /\ up' = TRUE
    /\ UNCHANGED <<content, fence, coll, serving, task, late, rebuild, reader, records, suspect>>

\* reconcile_transient_documents, in a deploy's migrate service: before the gateway starts, or
\* while the one it replaces still runs
Provision ==
    /\ rebuild = NoRebuild /\ (up => "deploy" \in Faults)
    /\ row' = [d \in Docs |-> IF row[d] \in TRANSIENT_DOCUMENT_STATES THEN "error" ELSE row[d]]
    /\ stranded' = {}
    /\ UNCHANGED <<stored, points, fence, coll, serving, task, late, up, rebuild, reader, records, suspect>>

ServingChanges(i) ==
    /\ serving' \in {serving \cup {i}, serving \ {i}}
    /\ UNCHANGED <<content, fence, coll, task, late, up, rebuild, reader, records, suspect>>

\* The operator's contract: entrances and jobs stopped, vector writes terminated
WritersStopped == ~up /\ late = {} /\ rebuild = NoRebuild

\* transition without begin_rebuild or verified_identity
Recover ==
    /\ WritersStopped /\ ~fence.rebuilding /\ fence.dirty > 0 /\ fence.epoch < MaxEpoch
    /\ fence' = [fence EXCEPT !.epoch = @ + 1, !.dirty = 0]
    /\ coll' = [coll EXCEPT !.epoch = @ + 1, !.dirty = 0]
    /\ UNCHANGED <<content, serving, task, late, up, rebuild, reader, records, suspect>>

\* _rebuild as far as the reset: refused when a text is missing, then fenced
RebuildStart(i) ==
    LET rebuilt == {d \in Docs : row[d] \in REBUILT_STATES} IN
    /\ WritersStopped /\ i \in serving /\ fence.epoch < MaxEpoch
    /\ \A d \in rebuilt : stored[d] \in {"text", "empty"}
    /\ fence' = [fence EXCEPT !.epoch = @ + 1, !.dirty = @ + 1, !.requires = TRUE, !.rebuilding = TRUE]
    /\ coll' = [coll EXCEPT !.epoch = @ + 1, !.dirty = @ + 1]
    /\ rebuild' = [step |-> "reset", todo |-> rebuilt, space |-> i]
    /\ UNCHANGED <<content, serving, task, late, up, reader, records, suspect>>

RebuildReset ==
    /\ rebuild.step = "reset"
    /\ points' = [d \in Docs |-> "none"]
    /\ rebuild' = [rebuild EXCEPT !.step = "documents"]
    /\ UNCHANGED <<row, stored, fence, coll, serving, task, late, up, reader, records, suspect, stranded>>

RebuildDocument(d) ==
    /\ rebuild.step = "documents" /\ d \in rebuild.todo
    /\ points' = [points EXCEPT ![d] = IF stored[d] = "text" THEN rebuild.space ELSE "none"]
    /\ row' = [row EXCEPT ![d] = "indexed"]
    /\ rebuild' = [rebuild EXCEPT !.todo = @ \ {d}]
    /\ suspect' = suspect \ {d}
    /\ UNCHANGED <<stored, fence, coll, serving, task, late, up, reader, records, stranded>>

RebuildFinish ==
    /\ rebuild.step = "documents" /\ rebuild.todo = {}
    /\ fence' = [fence EXCEPT !.epoch = @ + 1, !.dirty = 0, !.identity = rebuild.space,
                              !.requires = FALSE, !.rebuilding = FALSE]
    /\ coll' = [coll EXCEPT !.epoch = @ + 1, !.dirty = 0]
    /\ rebuild' = NoRebuild
    /\ UNCHANGED <<content, serving, task, late, up, reader, records, suspect>>

RebuildStops ==
    /\ "crash" \in Faults /\ rebuild # NoRebuild /\ rebuild' = NoRebuild
    /\ UNCHANGED <<content, fence, coll, serving, task, late, up, reader, records, suspect>>

----------------------------------------------------------------------------
(* Grounding *)

\* PostgresKnowledgeEpochs.read
View(scope) ==
    IF scope = "tenant" THEN <<fence.epoch, fence.dirty, fence.identity, fence.requires, fence.rebuilding>>
    ELSE IF coll.alive THEN <<coll.epoch, coll.dirty, fence.identity, fence.requires, fence.rebuilding>>
    ELSE <<>>

Hits == {d \in Docs : points[d] # "none"}

Answered(g, found) == reader' = [reader EXCEPT ![g].step = "answered", ![g].found = found, ![g].stable = FALSE]

\* execute and _stable_ground's first read
GroundRead(g, scope) ==
    LET v == View(scope)
        q == [Quiet EXCEPT !.scope = scope, !.before = v, !.seen = Hits]
    IN
    /\ up /\ reader[g].step = "idle"
    /\ reader' = [reader EXCEPT ![g] =
          IF v = <<>> THEN [q EXCEPT !.step = "answered"]
          ELSE IF v[3] = "none" /\ ~v[4] THEN [q EXCEPT !.step = "answered"]
          ELSE IF v[2] # 0 \/ v[4] \/ v[3] = "none" THEN [q EXCEPT !.step = "fresh"]
          ELSE [q EXCEPT !.step = "lookup"]]
    /\ UNCHANGED <<content, fence, coll, serving, task, late, up, rebuild, records, suspect>>

\* identity: the digest a record is stored under
\* Mutant: without the epoch
KeyWithoutEpoch(q) == <<q.scope, q.before[3]>>

Key(q) == <<q.scope, q.before[3], q.before[1]>>

Lookup(g) ==
    LET q == reader[g] mine == {r \in records : r.key = Key(q)} IN
    /\ up /\ q.step = "lookup"
    /\ reader' = [reader EXCEPT ![g] =
          IF mine = {} THEN [q EXCEPT !.step = "search"]
          ELSE [q EXCEPT !.step = "confirm", !.found = (CHOOSE r \in mine : TRUE).found]]
    /\ UNCHANGED <<content, fence, coll, serving, task, late, up, rebuild, records, suspect>>

\* execute_or_empty, and the read after it
Search(g) ==
    LET q == reader[g] IN
    /\ up /\ q.step = "search"
    /\ \E found \in {Hits, {}} :
          /\ found = {} \/ q.before[3] \in serving
          /\ reader' = [reader EXCEPT ![g].step = "check", ![g].found = found]
    /\ UNCHANGED <<content, fence, coll, serving, task, late, up, rebuild, records, suspect>>

Check(g) ==
    /\ up /\ reader[g].step = "check"
    /\ IF View(reader[g].scope) = reader[g].before
       THEN reader' = [reader EXCEPT ![g].step = "store"] ELSE Answered(g, {})
    /\ UNCHANGED <<content, fence, coll, serving, task, late, up, rebuild, records, suspect>>

\* set_grounding_if_absent: the first record stands and everyone uses it
Store(g) ==
    LET q == reader[g] mine == {r \in records : r.key = Key(q)} IN
    /\ up /\ q.step = "store"
    /\ \/ /\ mine = {} /\ records' = records \cup {[key |-> Key(q), found |-> q.found]}
          /\ reader' = [reader EXCEPT ![g].step = "confirm"]
       \/ /\ mine # {} /\ UNCHANGED records
          /\ reader' = [reader EXCEPT ![g].step = "confirm", ![g].found = (CHOOSE r \in mine : TRUE).found]
       \/ /\ "records" \in Faults /\ mine = {} /\ UNCHANGED records       \* the quota is full
          /\ reader' = [reader EXCEPT ![g].step = "confirm"]
    /\ UNCHANGED <<content, fence, coll, serving, task, late, up, rebuild, suspect>>

Confirm(g) ==
    /\ up /\ reader[g].step = "confirm"
    /\ IF View(reader[g].scope) = reader[g].before
       THEN reader' = [reader EXCEPT ![g].step = "answered", ![g].stable = TRUE] ELSE Answered(g, {})
    /\ UNCHANGED <<content, fence, coll, serving, task, late, up, rebuild, records, suspect>>

\* _fresh_ground: whatever is searchable now, and nothing during a rebuild
Fresh(g) ==
    /\ up /\ reader[g].step = "fresh"
    /\ \/ Answered(g, {})
       \/ /\ View(reader[g].scope) # <<>> /\ ~fence.rebuilding
          /\ \/ fence.identity \in serving
             \/ fence.identity = "none" /\ fence.requires
          /\ Answered(g, Hits)
    /\ UNCHANGED <<content, fence, coll, serving, task, late, up, rebuild, records, suspect>>

ReaderLeaves(g) ==
    /\ reader[g].step = "answered"
    /\ reader' = [reader EXCEPT ![g] = Quiet]
    /\ UNCHANGED <<content, fence, coll, serving, task, late, up, rebuild, records, suspect>>

RecordExpires ==
    /\ "records" \in Faults
    /\ \E r \in records : records' = records \ {r}
    /\ UNCHANGED <<content, fence, coll, serving, task, late, up, rebuild, reader, suspect>>

----------------------------------------------------------------------------

Ingestion(t) ==
    \/ Uploaded(t) \/ UploadFails(t) \/ ReindexClaim(t) \/ Start(t)
    \/ \E text \in {"text", "empty", "none"} : Extract(t, text)
    \/ IndexStart(t) \/ Resolve(t) \/ BeginMutation(t) \/ Bind(t)
    \/ VectorsDelete(t) \/ VectorsUpsert(t) \/ VectorsFail(t) \/ EndMutation(t) \/ Finish(t)

Deletion(t) == DeleteCommit(t) \/ \E d \in Docs : Forget(t, d) \/ ForgetFails(t, d)

Asked(t) ==
    fence.epoch < MaxEpoch /\ \E d \in Docs :
        \/ Upload(t, d) \/ ReindexAsk(t, d) \/ DeleteAsk(t, {d}, FALSE)
        \/ \E ds \in SUBSET Docs : DeleteAsk(t, ds, TRUE)

Operator == Recover \/ RebuildReset \/ RebuildFinish \/ RebuildStops
            \/ (\E i \in Identities : RebuildStart(i)) \/ \E d \in Docs : RebuildDocument(d)

Grounding(g) == Lookup(g) \/ Search(g) \/ Check(g) \/ Store(g) \/ Confirm(g) \/ Fresh(g) \/ ReaderLeaves(g)

Next ==
    \/ \E t \in Tasks : Asked(t) \/ Ingestion(t) \/ Deletion(t)
    \/ \E g \in Readers : Grounding(g) \/ \E scope \in {"tenant", "collection"} : GroundRead(g, scope)
    \/ Operator \/ LateWrite \/ Crash \/ Restart \/ Provision \/ RecordExpires
    \/ \E i \in Identities : ServingChanges(i)

Spec == Init /\ [][Next]_vars

----------------------------------------------------------------------------
(* Properties *)

\* Every variable has its type, and both fences count the mutations under way at least.
TypeOK ==
    /\ row \in [Docs -> {"none", "extracted", "indexed", "error"} \cup TRANSIENT_DOCUMENT_STATES]
    /\ stored \in [Docs -> {"none", "original", "text", "empty"}]
    /\ points \in [Docs -> Identities \cup {"none", "legacy"}]
    /\ fence.identity \in Identities \cup {"none"} /\ serving \subseteq Identities
    /\ Cardinality({t \in Tasks : task[t].step \in {"store", "bind", "delete", "upsert", "forget", "end"}})
          <= fence.dirty
    /\ coll.alive => coll.dirty = fence.dirty

\* All passages of an index that claims to be whole are in one embedding space, the one every
\* query is embedded in (bind_embedding_identity, index_rebuilding).
SpaceConsistent ==
    ~fence.requires => \A d \in Docs : points[d] \in {"none", fence.identity}

\* A document that reads INDEXED under a clean fence has its passages, in the space queries are
\* embedded in, unless a change of it failed midway and an operator recovered without rebuilding.
IndexedSearchable ==
    fence.dirty = 0 /\ ~fence.requires =>
        \A d \in Docs \ suspect :
            row[d] = "indexed" /\ stored[d] = "text" => points[d] = fence.identity /\ points[d] # "none"

\* An index that claims to be whole is of one embedding space and has what it says.
IndexWhole == TypeOK /\ SpaceConsistent /\ IndexedSearchable

\* Searchable content changes only under a dirty fence: also a write the store applies after
\* its caller gave up, and after a crash (mutation has no finally).
FencedChange == points' # points => fence.dirty > 0

\* What a stable answer cites is what was searchable when its epoch was read, whatever was
\* changed since, or nothing: records of another epoch are never replayed.
GroundedFromEpoch ==
    \A g \in Readers : reader[g].step = "answered" /\ reader[g].stable => reader[g].found \in {{}, reader[g].seen}

\* Two stable answers for one prefix at one epoch are the same: the first record stands, also
\* one written when the search was down.
ReplayStable ==
    \A g, h \in Readers :
        /\ reader[g].step = "answered" /\ reader[g].stable /\ reader[h].step = "answered" /\ reader[h].stable
        /\ Key(reader[g]) = Key(reader[h])
        => reader[g].found = reader[h].found

\* One document is re-indexed by one task at a time, however many operators ask, when no upload
\* is under way and no deploy provisions beside a running gateway: an upload that committed
\* EXTRACTED may be claimed by a re-index, and its INDEXING then overwrites that claim; a deploy's
\* ERROR gives away the claim of a task that still runs.
ReindexExclusive ==
    \A t, o \in Tasks :
        /\ task[t].kind = "reindex" /\ task[o].kind = "reindex" /\ task[t].docs = task[o].docs
        /\ task[t].step # "claim" /\ task[o].step # "claim"
        => t = o

\* What may not last: a document being extracted or indexed, unless its task died or could not
\* read or write the row, and no deploy has provisioned since.
Transient(d) == row[d] \in TRANSIENT_DOCUMENT_STATES /\ d \notin stranded

====
