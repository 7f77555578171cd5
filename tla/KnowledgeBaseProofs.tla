--------------------------- MODULE KnowledgeBaseProofs ---------------------------
(***************************************************************************)
(* Theorems about KnowledgeBase: what searchable content, the fence and the *)
(* rows say of each other for any documents, tasks and readers.            *)
(***************************************************************************)
EXTENDS KnowledgeBase, FiniteSetTheorems, TLAPS

----------------------------------------------------------------------------
(* The inductive invariants *)

Spaces == Identities \cup {"none"}
ROWS == {"none", "extracted", "indexed", "error"} \cup TRANSIENT_DOCUMENT_STATES
EARLY == {"store", "start", "extract"}
COUNTED == {"store", "bind", "delete", "upsert", "forget", "end"}
LATER == {"bind", "delete", "upsert", "end", "finish"}
TASKS == [kind : {"none", "ingest", "reindex", "delete"},
          step : {"idle", "claim", "index", "resolve", "begin", "forget"} \cup EARLY \cup LATER,
          docs : SUBSET Docs, todo : SUBSET Docs,
          text : {"none", "text", "empty", "collection"}, space : Spaces]

\* What a task holds at each of its steps.
Shape(x) ==
    /\ x.step = "idle" => x = Idle
    /\ x.kind = "none" => x.step = "idle"
    /\ x.kind = "delete" => x.step \in {"begin", "forget"} /\ x.todo \subseteq x.docs
    /\ x.kind \in {"ingest", "reindex"} => \E d \in Docs : x.docs = {d}
    /\ x.step = "forget" => x.kind = "delete"
    /\ x.step \in {"store", "extract"} => x.kind = "ingest"
    /\ x.step = "claim" => x.kind = "reindex"
    /\ x.kind # "delete" /\ x.step \in {"index", "resolve", "begin"} \cup LATER => x.text \in {"text", "empty"}
    /\ x.kind # "delete" /\ x.step \in {"begin"} \cup LATER => (x.space # "none" <=> x.text = "text")
    /\ x.step \in {"bind", "upsert"} => x.space # "none"
    /\ x.step \in EARLY \cup {"claim", "index", "resolve"} => x.space = "none"

Types ==
    /\ row \in [Docs -> ROWS]
    /\ stored \in [Docs -> {"none", "original", "text", "empty"}]
    /\ points \in [Docs -> Spaces \cup {"legacy"}]
    /\ fence \in [epoch : Nat, dirty : Nat, identity : Spaces, requires : BOOLEAN, rebuilding : BOOLEAN]
    /\ coll \in [alive : BOOLEAN, epoch : Nat, dirty : Nat]
    /\ serving \subseteq Identities
    /\ task \in [Tasks -> TASKS] /\ \A t \in Tasks : Shape(task[t])
    /\ late \subseteq Docs \X Spaces
    /\ up \in BOOLEAN
    /\ rebuild \in [step : {"idle", "reset", "documents"}, todo : SUBSET Docs, space : Spaces]
    /\ rebuild.step = "idle" => rebuild = NoRebuild
    /\ rebuild # NoRebuild => rebuild.space # "none"
    /\ suspect \subseteq Docs

\* The mutations under way, and whether the fence counts these and nothing else.
Counted == {t \in Tasks : task[t].step \in COUNTED}
Whole == Cardinality(Counted) = fence.dirty

\* The fence counts every mutation under way and a write the store may still apply; nothing runs
\* while the gateway is down, and a rebuild runs alone under a dirty fence.
Fence ==
    /\ Cardinality(Counted) <= fence.dirty
    /\ late # {} => Cardinality(Counted) < fence.dirty
    /\ ~up => \A t \in Tasks : task[t] = Idle
    /\ rebuild # NoRebuild => ~up /\ late = {} /\ fence.dirty > 0
    /\ coll.alive => coll.dirty = fence.dirty

\* Who writes passages writes them in the bound space.
OneSpace ==
    /\ ~fence.requires => \A d \in Docs : points[d] \in {"none", fence.identity}
    /\ \A t \in Tasks : task[t].step \in {"delete", "upsert", "end", "finish"} /\ task[t].space # "none"
                        => task[t].space = fence.identity
    /\ \A w \in late : w[2] \in {"none", fence.identity}
    /\ rebuild # NoRebuild => fence.requires
    /\ rebuild.step = "documents" => \A d \in Docs : points[d] \in {"none", rebuild.space}

\* A document's passages are there when its text is.
Found(d) == stored[d] = "text" => points[d] = fence.identity /\ fence.identity # "none"

\* A deletion, or a re-index that has not read the text yet.
Bystander(x) == x.kind = "delete" \/ (x.kind = "reindex" /\ x.step \in {"claim", "start"})

\* Until its text is stored an ingestion is alone with its document, but for who took it up after
\* a deploy gave its claim away, and later everyone who works on the document has the text that
\* is stored.
Alone(t) ==
    task[t].kind = "ingest" /\ task[t].step \in EARLY =>
        \A d \in task[t].docs :
            /\ task[t].step = "store" => row[d] = "none"
            /\ task[t].step # "store" => row[d] # "indexed" /\ stored[d] \in {"original", "none"}
            /\ \A o \in Tasks \ {t} : d \in task[o].docs => task[t].step # "store" /\ Bystander(task[o])

Agrees(t) ==
    task[t].kind # "delete" /\ task[t].step \in {"index", "resolve", "begin"} \cup LATER =>
        \A d \in task[t].docs : stored[d] \in {task[t].text, "none"}

OneText == \A t \in Tasks : Alone(t) /\ Agrees(t)

\* Whoever may write a document's passages made it suspect before.
Suspected ==
    /\ \A t \in Tasks : task[t].step \in COUNTED => task[t].docs \subseteq suspect
    /\ \A w \in late : w[1] \in suspect

\* Where nothing is lost, one who has ended leaves what the text says, or to one who still writes it.
Leaves(t) ==
    \A d \in task[t].docs :
        /\ task[t].step = "finish" => d \in suspect \/ Found(d)
        /\ /\ Whole /\ task[t].step \in {"end", "finish"}
           /\ \A o \in Tasks : task[o].step = "upsert" => d \notin task[o].docs
           => Found(d)

\* A rebuild leaves behind what the texts say.
Rebuilt ==
    /\ rebuild.step = "reset" => rebuild.todo = {d \in Docs : row[d] \in REBUILT_STATES}
    /\ rebuild.step = "documents" =>
          \A d \in Docs \ rebuild.todo : row[d] = "indexed" /\ stored[d] = "text" => points[d] = rebuild.space

Searchable ==
    /\ Suspected /\ Rebuilt
    /\ \A t \in Tasks : Leaves(t)
    /\ ~fence.requires => \A d \in Docs \ suspect : row[d] = "indexed" => Found(d)

----------------------------------------------------------------------------
(* Types *)

\* What grounding leaves alone.
Ground == <<row, stored, points, fence, coll, serving, task, late, up, rebuild, suspect>>

\* Grounding reads the index and never changes it.
LEMMA GroundingReads ==
  ASSUME NEW g \in Readers,
         Grounding(g) \/ (\E scope \in {"tenant", "collection"} : GroundRead(g, scope)) \/ RecordExpires
  PROVE  UNCHANGED Ground
  BY DEF Grounding, GroundRead, RecordExpires, Lookup, Search, Check, Store, Confirm, Fresh, ReaderLeaves,
         Ground, content

\* A task that moves to what its place allows keeps the types of all.
LEMMA TaskTyped ==
  ASSUME Types, NEW t \in Tasks, NEW x, task' = [task EXCEPT ![t] = x], x \in TASKS, Shape(x)
  PROVE  task' \in [Tasks -> TASKS] /\ \A o \in Tasks : Shape(task'[o])
  BY DEF Types

LEMMA IdleTyped == Idle \in TASKS /\ Shape(Idle)
  BY DEF TASKS, Shape, Idle, EARLY, LATER, Spaces

\* The document of a task that is not a deletion.
LEMMA DocIn ==
  ASSUME Types, NEW t \in Tasks, task[t].step # "idle", task[t].kind # "delete"
  PROVE  Doc(t) \in Docs /\ task[t].docs = {Doc(t)}
<1>1. task[t] \in TASKS /\ Shape(task[t])
  BY DEF Types
<1>2. PICK d \in Docs : task[t].docs = {d}
  BY <1>1 DEF Shape, TASKS
<1> QED  BY <1>2 DEF Doc

\* Every step of a task moves it alone, to what its place allows.
LEMMA TaskSteps ==
  ASSUME KnowledgeBaseAssumption, Types, NEW t \in Tasks, Asked(t) \/ Ingestion(t) \/ Deletion(t)
  PROVE  \E x \in TASKS : Shape(x) /\ task' = [task EXCEPT ![t] = x]
<1> DEFINE Goal == \E x \in TASKS : Shape(x) /\ task' = [task EXCEPT ![t] = x]
<1>0. task[t] \in TASKS /\ Shape(task[t]) /\ task \in [Tasks -> TASKS]
  BY DEF Types
<1>1. CASE UploadFails(t) \/ (Finish(t)) \/ (DeleteCommit(t)) \/ (\E d \in Docs : ForgetFails(t, d)) \/ VectorsFail(t)
  BY <1>1, IdleTyped DEF UploadFails, Finish, DeleteCommit, ForgetFails, VectorsFail, Free, Failed
<1>2. ASSUME NEW d \in Docs, Upload(t, d) \/ ReindexAsk(t, d) PROVE Goal
  <2>1. ASSUME NEW k \in {"ingest", "reindex"}, NEW s \in {"store", "claim"}, s = "store" <=> k = "ingest"
        PROVE  LET x == [Idle EXCEPT !.kind = k, !.step = s, !.docs = {d}] IN x \in TASKS /\ Shape(x)
    BY <2>1 DEF TASKS, Shape, Idle, EARLY, LATER, Spaces
  <2> QED  BY <2>1, <1>2 DEF Upload, ReindexAsk
<1>3. ASSUME NEW ds \in SUBSET Docs, NEW whole \in BOOLEAN, DeleteAsk(t, ds, whole) PROVE Goal
  BY <1>3, <1>0 DEF DeleteAsk, TASKS, Shape, Idle, EARLY, LATER, Spaces
<1>4. CASE Uploaded(t)
  BY <1>4, <1>0 DEF Uploaded, Go, TASKS, Shape, Idle, EARLY, LATER, Spaces
<1>5. CASE Start(t)
  <2>1. CASE task' = [task EXCEPT ![t] = Idle]
    BY <2>1, IdleTyped
  <2>2. CASE task' = [task EXCEPT ![t].step = "extract"] /\ task[t].kind = "ingest"
    BY <2>2, <1>5, <1>0 DEF Start, TASKS, Shape, Idle, EARLY, LATER, Spaces
  <2>3. CASE /\ task' = [task EXCEPT ![t].step = "index", ![t].text = stored[Doc(t)]]
             /\ stored[Doc(t)] \in {"text", "empty"}
    <3> DEFINE x == [task[t] EXCEPT !.step = "index", !.text = stored[Doc(t)]]
    <3>1. x \in TASKS /\ Shape(x)
      BY <2>3, <1>5, <1>0 DEF Start, TASKS, Shape, Idle, EARLY, LATER, Spaces
    <3>2. task' = [task EXCEPT ![t] = x]
      BY <2>3, <1>0 DEF TASKS
    <3> QED  BY <3>1, <3>2
  <2> QED  BY <1>5, <2>1, <2>2, <2>3 DEF Start, Go, Free, Failed
<1>6. ASSUME NEW text \in {"text", "empty", "none"}, Extract(t, text) PROVE Goal
  BY <1>6, <1>0, IdleTyped DEF Extract, Go, Free, Failed, TASKS, Shape, Idle, EARLY, LATER, Spaces
<1>7. CASE IndexStart(t) \/ VectorsUpsert(t) \/ EndMutation(t)
  BY <1>7, <1>0 DEF IndexStart, VectorsUpsert, EndMutation, Go, TASKS, Shape, Idle, EARLY, LATER, Spaces
<1>8. CASE Resolve(t)
  <2>1. CASE task' = [task EXCEPT ![t] = Idle]
    BY <2>1, IdleTyped
  <2>2. CASE task[t].text = "empty" /\ task' = [task EXCEPT ![t].step = "begin"]
    BY <2>2, <1>8, <1>0 DEF Resolve, TASKS, Shape, Idle, EARLY, LATER, Spaces
  <2>3. ASSUME NEW i \in Identities, task[t].text = "text",
               task' = [task EXCEPT ![t].step = "begin", ![t].space = i]
        PROVE  Goal
    <3> DEFINE x == [task[t] EXCEPT !.step = "begin", !.space = i]
    <3>1. x \in TASKS /\ Shape(x)
      BY <2>3, <1>8, <1>0 DEF Resolve, TASKS, Shape, Idle, EARLY, LATER, Spaces, KnowledgeBaseAssumption
    <3>2. task' = [task EXCEPT ![t] = x]
      BY <2>3, <1>0 DEF TASKS
    <3> QED  BY <3>1, <3>2
  <2>4. serving \subseteq Identities
    BY DEF Types
  <2> QED  BY <1>8, <2>1, <2>2, <2>3, <2>4 DEF Resolve, Go, Free, Failed
<1>9. CASE BeginMutation(t)
  BY <1>9, <1>0 DEF BeginMutation, Go, TASKS, Shape, Idle, EARLY, LATER, Spaces
<1>10. CASE Bind(t) \/ ReindexClaim(t)
  BY <1>10, <1>0, IdleTyped DEF Bind, ReindexClaim, Go, Free, Failed, TASKS, Shape, Idle, EARLY, LATER, Spaces
<1>11. CASE VectorsDelete(t)
  <2>1. CASE task[t].space = "none"
    BY <2>1, <1>11, <1>0 DEF VectorsDelete, Go, TASKS, Shape, Idle, EARLY, LATER, Spaces
  <2>2. CASE task[t].space # "none"
    BY <2>2, <1>11, <1>0 DEF VectorsDelete, Go, TASKS, Shape, Idle, EARLY, LATER, Spaces
  <2> QED  BY <2>1, <2>2
<1>12. ASSUME NEW d \in Docs, Forget(t, d) PROVE Goal
  BY <1>12, <1>0 DEF Forget, TASKS, Shape, Idle, EARLY, LATER, Spaces
<1> QED
  BY <1>1, <1>2, <1>3, <1>4, <1>5, <1>6, <1>7, <1>8, <1>9, <1>10, <1>11, <1>12 DEF Asked, Ingestion, Deletion

\* A mutation begins: both rows are an epoch on and count one mutation more.
LEMMA Begun ==
  ASSUME Types, Begin
  PROVE  /\ fence' = [epoch |-> fence.epoch + 1, dirty |-> fence.dirty + 1, identity |-> fence.identity,
                      requires |-> fence.requires, rebuilding |-> fence.rebuilding]
         /\ coll' = [alive |-> coll.alive, epoch |-> coll.epoch + 1, dirty |-> coll.dirty + 1]
<1>1. /\ fence \in [epoch : Nat, dirty : Nat, identity : Spaces, requires : BOOLEAN, rebuilding : BOOLEAN]
      /\ coll \in [alive : BOOLEAN, epoch : Nat, dirty : Nat]
  BY DEF Types
<1>2. fence' = [epoch |-> fence.epoch + 1, dirty |-> fence.dirty + 1, identity |-> fence.identity,
                requires |-> fence.requires, rebuilding |-> fence.rebuilding]
  BY <1>1 DEF Begin
<1>3. coll' = [alive |-> coll.alive, epoch |-> coll.epoch + 1, dirty |-> coll.dirty + 1]
  BY <1>1 DEF Begin
<1> QED  BY <1>2, <1>3

\* A mutation ends: both rows are an epoch on and count one mutation less.
LEMMA HasEnded ==
  ASSUME Types
  PROVE  /\ Ended(fence) = [epoch |-> fence.epoch + 1, dirty |-> IF fence.dirty > 0 THEN fence.dirty - 1 ELSE 0,
                            identity |-> fence.identity, requires |-> fence.requires,
                            rebuilding |-> fence.rebuilding]
         /\ Ended(coll) = [alive |-> coll.alive, epoch |-> coll.epoch + 1,
                           dirty |-> IF coll.dirty > 0 THEN coll.dirty - 1 ELSE 0]
<1>1. /\ fence \in [epoch : Nat, dirty : Nat, identity : Spaces, requires : BOOLEAN, rebuilding : BOOLEAN]
      /\ coll \in [alive : BOOLEAN, epoch : Nat, dirty : Nat]
  BY DEF Types
<1>2. ASSUME NEW n \in Nat
      PROVE  (IF n > 0 THEN n - 1 ELSE n) = (IF n > 0 THEN n - 1 ELSE 0)
  OBVIOUS
<1> DEFINE n == IF fence.dirty > 0 THEN fence.dirty - 1 ELSE fence.dirty
           m == IF coll.dirty > 0 THEN coll.dirty - 1 ELSE coll.dirty
<1>3. Ended(fence) = [fence EXCEPT !.epoch = @ + 1, !.dirty = n] /\ Ended(coll) = [coll EXCEPT !.epoch = @ + 1, !.dirty = m]
  BY DEF Ended
<1>4. n = (IF fence.dirty > 0 THEN fence.dirty - 1 ELSE 0) /\ m = (IF coll.dirty > 0 THEN coll.dirty - 1 ELSE 0)
  BY <1>1, <1>2
<1> HIDE DEF n, m
<1>5. /\ Ended(fence) = [epoch |-> fence.epoch + 1, dirty |-> n, identity |-> fence.identity,
                         requires |-> fence.requires, rebuilding |-> fence.rebuilding]
      /\ Ended(coll) = [alive |-> coll.alive, epoch |-> coll.epoch + 1, dirty |-> m]
  BY <1>1, <1>3
<1> QED  BY <1>4, <1>5

\* What the steps of a task do to the rows, the bytes, the passages and the fence has its type.
LEMMA TaskData ==
  ASSUME Types, NEW t \in Tasks, Asked(t) \/ Ingestion(t) \/ Deletion(t)
  PROVE  /\ row' \in [Docs -> ROWS]
         /\ stored' \in [Docs -> {"none", "original", "text", "empty"}]
         /\ points' \in [Docs -> Spaces \cup {"legacy"}]
         /\ fence' \in [epoch : Nat, dirty : Nat, identity : Spaces, requires : BOOLEAN, rebuilding : BOOLEAN]
         /\ coll' \in [alive : BOOLEAN, epoch : Nat, dirty : Nat]
         /\ late' \subseteq Docs \X Spaces /\ suspect' \subseteq Docs
         /\ UNCHANGED <<serving, up, rebuild, reader, records>>
<1> DEFINE Goal ==
         /\ row' \in [Docs -> ROWS]
         /\ stored' \in [Docs -> {"none", "original", "text", "empty"}]
         /\ points' \in [Docs -> Spaces \cup {"legacy"}]
         /\ fence' \in [epoch : Nat, dirty : Nat, identity : Spaces, requires : BOOLEAN, rebuilding : BOOLEAN]
         /\ coll' \in [alive : BOOLEAN, epoch : Nat, dirty : Nat]
         /\ late' \subseteq Docs \X Spaces /\ suspect' \subseteq Docs
         /\ UNCHANGED <<serving, up, rebuild, reader, records>>
<1>0. /\ task[t] \in TASKS /\ Shape(task[t])
      /\ row \in [Docs -> ROWS]
      /\ stored \in [Docs -> {"none", "original", "text", "empty"}]
      /\ points \in [Docs -> Spaces \cup {"legacy"}]
      /\ fence \in [epoch : Nat, dirty : Nat, identity : Spaces, requires : BOOLEAN, rebuilding : BOOLEAN]
      /\ coll \in [alive : BOOLEAN, epoch : Nat, dirty : Nat]
      /\ late \subseteq Docs \X Spaces /\ suspect \subseteq Docs
  BY DEF Types
<1>1. task[t].step \notin {"idle", "begin", "forget"} => Doc(t) \in Docs
  BY <1>0, DocIn DEF Shape
<1>3. /\ Ended(fence) \in [epoch : Nat, dirty : Nat, identity : Spaces, requires : BOOLEAN, rebuilding : BOOLEAN]
      /\ Ended(coll) \in [alive : BOOLEAN, epoch : Nat, dirty : Nat]
  BY <1>0, HasEnded
<1>4. ASSUME NEW d \in Docs, NEW s \in ROWS, Commit(d, s) PROVE row' \in [Docs -> ROWS]
  BY <1>0, <1>4 DEF Commit
<1>5. Begin => /\ fence' \in [epoch : Nat, dirty : Nat, identity : Spaces, requires : BOOLEAN, rebuilding : BOOLEAN]
               /\ coll' \in [alive : BOOLEAN, epoch : Nat, dirty : Nat]
  BY <1>0, Begun
<1>6. ASSUME NEW d \in Docs, Upload(t, d) \/ ReindexAsk(t, d) \/ Forget(t, d) \/ ForgetFails(t, d) PROVE Goal
  BY <1>6, <1>0, <1>5 DEF Upload, ReindexAsk, Forget, ForgetFails, content, Spaces
<1>7. ASSUME NEW ds \in SUBSET Docs, NEW whole \in BOOLEAN, DeleteAsk(t, ds, whole) PROVE Goal
  BY <1>7, <1>0 DEF DeleteAsk, content
<1>8. CASE Uploaded(t)
  BY <1>8, <1>0, <1>1, <1>3 DEF Uploaded, End, ROWS, TRANSIENT_DOCUMENT_STATES
<1>9. CASE UploadFails(t)
  BY <1>9, <1>0, <1>1 DEF UploadFails
<1>10. {"error", "indexing", "extracted", "indexed"} \subseteq ROWS
  BY DEF ROWS, TRANSIENT_DOCUMENT_STATES
<1>11. CASE Start(t) \/ ReindexClaim(t) \/ IndexStart(t) \/ Resolve(t) \/ Finish(t) \/ VectorsFail(t)
  <2>1. task[t].space \in Spaces /\ "none" \in Spaces
    BY <1>0 DEF TASKS, Spaces
  <2>3. ReindexClaim(t) => UNCHANGED row \/ row' \in [Docs -> ROWS]
    BY <1>0, <1>1, <1>10 DEF ReindexClaim, Claimed
  <2>2. UNCHANGED row \/ row' \in [Docs -> ROWS]
    BY <2>3, <1>11, <1>1, <1>4, <1>10 DEF Start, IndexStart, Resolve, Finish, VectorsFail, Failed
  <2> QED  BY <2>1, <2>2, <1>11, <1>0, <1>1
           DEF Start, ReindexClaim, IndexStart, Resolve, Finish, VectorsFail, Failed
<1>12. ASSUME NEW text \in {"text", "empty", "none"}, Extract(t, text) PROVE Goal
  <2>1. row' \in [Docs -> ROWS]
    BY <1>12, <1>1, <1>4, <1>10 DEF Extract, Failed
  <2> QED  BY <2>1, <1>12, <1>0, <1>1 DEF Extract, Failed
<1>13. CASE BeginMutation(t)
  BY <1>13, <1>0, <1>5 DEF BeginMutation, content, TASKS
<1>14. CASE Bind(t)
  <2>1. row' \in [Docs -> ROWS]
    BY <1>14, <1>0, <1>1, <1>4, <1>10 DEF Bind, Failed
  <2> QED  BY <2>1, <1>14, <1>0, <1>1 DEF Bind, Failed, TASKS
<1>15. CASE VectorsDelete(t) \/ VectorsUpsert(t)
  BY <1>15, <1>0, <1>1 DEF VectorsDelete, VectorsUpsert, TASKS, Spaces
<1>16. CASE EndMutation(t)
  BY <1>16, <1>0, <1>3 DEF EndMutation, End, content
<1>17. CASE DeleteCommit(t)
  <2>1. row' \in [Docs -> ROWS]
    BY <1>17, <1>0 DEF DeleteCommit, ROWS
  <2>2. coll' \in [alive : BOOLEAN, epoch : Nat, dirty : Nat]
    BY <1>17, <1>0, <1>3 DEF DeleteCommit
  <2> QED  BY <2>1, <2>2, <1>17, <1>0, <1>3 DEF DeleteCommit
<1> QED
  BY <1>6, <1>7, <1>8, <1>9, <1>11, <1>12, <1>13, <1>14, <1>15, <1>16, <1>17 DEF Asked, Ingestion, Deletion

LEMMA TypesStep ==
  ASSUME KnowledgeBaseAssumption, Types, [Next]_vars
  PROVE  Types'
<1>1. CASE \E t \in Tasks : Asked(t) \/ Ingestion(t) \/ Deletion(t)
  <2>1. PICK t \in Tasks : Asked(t) \/ Ingestion(t) \/ Deletion(t)
    BY <1>1
  <2>2. task' \in [Tasks -> TASKS] /\ \A o \in Tasks : Shape(task'[o])
    BY <2>1, TaskSteps, TaskTyped
  <2> QED  BY <2>1, <2>2, TaskData DEF Types
<1>2. CASE \E g \in Readers : Grounding(g) \/ \E scope \in {"tenant", "collection"} : GroundRead(g, scope)
  BY <1>2, GroundingReads DEF Ground, Types
<1>3. CASE RecordExpires \/ UNCHANGED vars
  BY <1>3 DEF RecordExpires, vars, content, Types
<1>4. CASE LateWrite
  <2>1. PICK w \in late : late' = late \ {w} /\ points' = [points EXCEPT ![w[1]] = w[2]]
    BY <1>4 DEF LateWrite
  <2>2. w[1] \in Docs /\ w[2] \in Spaces
    BY DEF Types
  <2> QED  BY <2>1, <2>2, <1>4 DEF LateWrite, Types
<1>5. CASE Crash
  BY <1>5, IdleTyped DEF Crash, content, Types
<1>6. CASE Restart \/ Provision
  <2>1. CASE Restart
    BY <2>1 DEF Restart, content, Types
  <2>2. CASE Provision
    <3>1. row' \in [Docs -> ROWS]
      BY <2>2 DEF Provision, Types, ROWS
    <3> QED  BY <2>2, <3>1 DEF Provision, Types
  <2> QED  BY <1>6, <2>1, <2>2
<1>7. CASE \E i \in Identities : ServingChanges(i)
  BY <1>7 DEF ServingChanges, content, Types
<1>8. CASE Operator
  <2>1. ASSUME NEW i \in Identities, RebuildStart(i) PROVE Types'
    <3>1. fence.epoch + 1 \in Nat /\ fence.dirty + 1 \in Nat /\ coll.epoch + 1 \in Nat /\ coll.dirty + 1 \in Nat
      BY DEF Types
    <3>2. fence' = [epoch |-> fence.epoch + 1, dirty |-> fence.dirty + 1, identity |-> fence.identity,
                    requires |-> TRUE, rebuilding |-> TRUE]
      BY <2>1 DEF RebuildStart, Types
    <3>3. coll' = [alive |-> coll.alive, epoch |-> coll.epoch + 1, dirty |-> coll.dirty + 1]
      BY <2>1 DEF RebuildStart, Types
    <3>4. rebuild' \in [step : {"idle", "reset", "documents"}, todo : SUBSET Docs, space : Spaces]
          /\ rebuild'.step # "idle" /\ rebuild'.space # "none"
      BY <2>1 DEF RebuildStart, Spaces, KnowledgeBaseAssumption
    <3> QED  BY <2>1, <3>1, <3>2, <3>3, <3>4, ZenonT(60) DEF RebuildStart, content, Types
  <2>2. CASE Recover
    <3>1. fence' = [epoch |-> fence.epoch + 1, dirty |-> 0, identity |-> fence.identity,
                    requires |-> fence.requires, rebuilding |-> fence.rebuilding]
      BY <2>2 DEF Recover, Types
    <3>2. coll' = [alive |-> coll.alive, epoch |-> coll.epoch + 1, dirty |-> 0]
      BY <2>2 DEF Recover, Types
    <3> QED  BY <2>2, <3>1, <3>2 DEF Recover, content, Types
  <2>3. CASE RebuildReset
    BY <2>3 DEF RebuildReset, Types, Spaces, NoRebuild
  <2>4. ASSUME NEW d \in Docs, RebuildDocument(d) PROVE Types'
    BY <2>4 DEF RebuildDocument, Types, Spaces, NoRebuild, ROWS
  <2>5. CASE RebuildFinish
    <3>1. fence' = [epoch |-> fence.epoch + 1, dirty |-> 0, identity |-> rebuild.space,
                    requires |-> FALSE, rebuilding |-> FALSE]
      BY <2>5 DEF RebuildFinish, Types
    <3>2. coll' = [alive |-> coll.alive, epoch |-> coll.epoch + 1, dirty |-> 0]
      BY <2>5 DEF RebuildFinish, Types
    <3>3. rebuild.space \in Spaces /\ fence.epoch + 1 \in Nat /\ coll.epoch + 1 \in Nat /\ coll.alive \in BOOLEAN
      BY DEF Types
    <3>4. rebuild' = NoRebuild /\ UNCHANGED <<content, serving, task, late, up, suspect>>
      BY <2>5 DEF RebuildFinish
    <3>5. NoRebuild \in [step : {"idle", "reset", "documents"}, todo : SUBSET Docs, space : Spaces]
      BY DEF NoRebuild, Spaces
    <3> QED  BY <3>1, <3>2, <3>3, <3>4, <3>5 DEF content, Types
  <2>6. CASE RebuildStops
    BY <2>6 DEF RebuildStops, Types, Spaces, NoRebuild, content
  <2> QED  BY <1>8, <2>1, <2>2, <2>3, <2>4, <2>5, <2>6 DEF Operator
<1> QED
  BY <1>1, <1>2, <1>3, <1>4, <1>5, <1>6, <1>7, <1>8 DEF Next

----------------------------------------------------------------------------
(* The fence *)

\* A set of tasks is finite, and so is the set of mutations under way.
LEMMA CountedFinite ==
  ASSUME KnowledgeBaseAssumption
  PROVE  IsFiniteSet(Counted) /\ Cardinality(Counted) \in Nat
  BY FS_Subset, FS_CardinalityType DEF KnowledgeBaseAssumption, Counted

\* One task moves: the count changes by that task.
LEMMA CountMoves ==
  ASSUME KnowledgeBaseAssumption, Types, NEW t \in Tasks, NEW x \in TASKS, task' = [task EXCEPT ![t] = x]
  PROVE  /\ (t \in Counted <=> x.step \in COUNTED) => Cardinality(Counted') = Cardinality(Counted)
         /\ t \notin Counted /\ x.step \in COUNTED => Cardinality(Counted') = Cardinality(Counted) + 1
         /\ t \in Counted /\ x.step \notin COUNTED => Cardinality(Counted') + 1 = Cardinality(Counted)
         /\ t \in Counted => Cardinality(Counted) > 0
<1>1. IsFiniteSet(Counted) /\ Cardinality(Counted) \in Nat
  BY CountedFinite
<1>2. \A o \in Tasks : task'[o] = IF o = t THEN x ELSE task[o]
  BY DEF Types
<1>3. ASSUME t \in Counted <=> x.step \in COUNTED PROVE Cardinality(Counted') = Cardinality(Counted)
  <2>1. Counted' = Counted
    BY <1>2, <1>3 DEF Counted
  <2> QED  BY <2>1
<1>4. ASSUME t \notin Counted, x.step \in COUNTED PROVE Cardinality(Counted') = Cardinality(Counted) + 1
  <2>1. Counted' = Counted \cup {t}
    BY <1>2, <1>4 DEF Counted
  <2> QED  BY <2>1, <1>1, <1>4, FS_AddElement
<1>5. ASSUME t \in Counted, x.step \notin COUNTED PROVE Cardinality(Counted') + 1 = Cardinality(Counted)
  <2>1. Counted = Counted' \cup {t} /\ t \notin Counted' /\ Counted' \subseteq Counted
    BY <1>2, <1>5 DEF Counted
  <2>2. IsFiniteSet(Counted')
    BY <2>1, <1>1, FS_Subset
  <2>3. Cardinality(Counted' \cup {t}) = Cardinality(Counted') + 1
    BY <2>1, <2>2, FS_AddElement
  <2> QED  BY <2>1, <2>3
<1>6. t \in Counted => Cardinality(Counted) > 0
  BY <1>1, FS_EmptySet
<1> QED  BY <1>3, <1>4, <1>5, <1>6

\* A mutation begins, ends, is given up on, or none does; both rows count the same.
Begins(t) ==
    /\ t \notin Counted /\ t \in Counted' /\ late' = late
    /\ fence'.dirty = fence.dirty + 1 /\ coll'.dirty = coll.dirty + 1 /\ coll'.alive = coll.alive
    /\ fence'.epoch = fence.epoch + 1 /\ coll'.epoch = coll.epoch + 1
Ends(t) ==
    /\ t \in Counted /\ t \notin Counted' /\ late' = late
    /\ fence'.dirty = (IF fence.dirty > 0 THEN fence.dirty - 1 ELSE 0)
    /\ coll'.dirty = (IF coll.dirty > 0 THEN coll.dirty - 1 ELSE 0) /\ (coll'.alive => coll.alive)
    /\ fence'.epoch = fence.epoch + 1 /\ coll'.epoch = coll.epoch + 1
GivesUp(t) ==
    /\ t \in Counted /\ t \notin Counted'
    /\ fence' = fence /\ coll' = coll
GoesOn(t) ==
    /\ t \in Counted <=> t \in Counted'
    /\ late' = late /\ fence'.dirty = fence.dirty /\ fence'.epoch = fence.epoch /\ coll' = coll

LEMMA TaskFence ==
  ASSUME KnowledgeBaseAssumption, Types, NEW t \in Tasks, Asked(t) \/ Ingestion(t) \/ Deletion(t)
  PROVE  Begins(t) \/ Ends(t) \/ GivesUp(t) \/ GoesOn(t)
<1> DEFINE Goal == Begins(t) \/ Ends(t) \/ GivesUp(t) \/ GoesOn(t)
<1>0. task[t] \in TASKS /\ Shape(task[t]) /\ task \in [Tasks -> TASKS]
  BY DEF Types
<1>a. (t \in Counted <=> task[t].step \in COUNTED) /\ (t \in Counted' <=> task'[t].step \in COUNTED)
  BY DEF Counted
<1>b. ASSUME NEW s, Go(t, s) PROVE task'[t].step = s
  BY <1>b, <1>0 DEF Go, TASKS
<1>c. Free(t) => task'[t].step = "idle"
  BY <1>0 DEF Free, Idle
<1>1. ASSUME NEW d \in Docs, Upload(t, d) PROVE Goal
  <2>1. t \notin Counted /\ t \in Counted'
    BY <1>1, <1>0, <1>a DEF Upload, COUNTED, Idle
  <2>2. Begin /\ late' = late
    BY <1>1 DEF Upload
  <2> QED  BY <2>1, <2>2, Begun DEF Begins
<1>2. CASE BeginMutation(t)
  <2>1. t \notin Counted /\ t \in Counted'
    BY <1>2, <1>a, <1>b DEF BeginMutation, COUNTED
  <2> QED  BY <2>1, <1>2, Begun DEF BeginMutation, Begins
<1>3. CASE Uploaded(t) \/ EndMutation(t)
  <2>1. t \in Counted /\ t \notin Counted'
    BY <1>3, <1>a, <1>b DEF Uploaded, EndMutation, COUNTED
  <2> QED  BY <2>1, <1>3, HasEnded DEF Uploaded, EndMutation, End, Ends
<1>4. CASE DeleteCommit(t)
  <2>1. t \in Counted /\ t \notin Counted'
    BY <1>4, <1>a, <1>c DEF DeleteCommit, COUNTED
  <2>2. \/ UNCHANGED <<fence, coll>>
        \/ fence' = Ended(fence) /\ \E whole \in BOOLEAN : coll' = [Ended(coll) EXCEPT !.alive = @ /\ ~whole]
    BY <1>4 DEF DeleteCommit
  <2>3. late' = late
    BY <1>4 DEF DeleteCommit
  <2>4. ASSUME NEW whole \in BOOLEAN, coll' = [Ended(coll) EXCEPT !.alive = @ /\ ~whole]
        PROVE  /\ coll'.dirty = (IF coll.dirty > 0 THEN coll.dirty - 1 ELSE 0) /\ (coll'.alive => coll.alive)
               /\ coll'.epoch = coll.epoch + 1
    <3>1. coll' = [alive |-> coll.alive /\ ~whole, epoch |-> coll.epoch + 1,
                   dirty |-> IF coll.dirty > 0 THEN coll.dirty - 1 ELSE 0]
      BY <2>4, HasEnded
    <3> QED  BY <3>1
  <2> QED  BY <2>1, <2>2, <2>3, <2>4, HasEnded DEF Ends, GivesUp
<1>5. CASE UploadFails(t) \/ VectorsFail(t) \/ \E d \in Docs : ForgetFails(t, d)
  <2>1. t \in Counted /\ t \notin Counted' /\ UNCHANGED <<fence, coll>>
    BY <1>5, <1>a, <1>c DEF UploadFails, VectorsFail, ForgetFails, Failed, COUNTED
  <2> QED  BY <2>1 DEF GivesUp
<1>6. CASE Bind(t)
  <2>1. CASE Failed(t)
    <3>1. t \in Counted /\ t \notin Counted'
      BY <2>1, <1>6, <1>a, <1>c DEF Bind, Failed, COUNTED
    <3> QED  BY <3>1, <2>1 DEF GivesUp, Failed
  <2>2. CASE fence' = [fence EXCEPT !.identity = task[t].space] /\ Go(t, "delete") /\ UNCHANGED coll
    <3>1. t \in Counted /\ t \in Counted'
      BY <2>2, <1>6, <1>a, <1>b DEF Bind, COUNTED
    <3>2. fence'.dirty = fence.dirty /\ fence'.epoch = fence.epoch /\ late' = late
      BY <2>2, <1>6 DEF Types, Bind
    <3> QED  BY <3>1, <3>2, <2>2 DEF GoesOn
  <2> QED  BY <1>6, <2>1, <2>2 DEF Bind
<1>7. CASE VectorsDelete(t) \/ VectorsUpsert(t)
  <2>1. t \in Counted /\ t \in Counted'
    BY <1>7, <1>a, <1>b DEF VectorsDelete, VectorsUpsert, COUNTED
  <2> QED  BY <2>1, <1>7 DEF VectorsDelete, VectorsUpsert, GoesOn
<1>8. CASE \E d \in Docs : Forget(t, d)
  <2>1. t \in Counted /\ t \in Counted'
    BY <1>8, <1>0, <1>a DEF Forget, COUNTED, TASKS
  <2> QED  BY <2>1, <1>8 DEF Forget, GoesOn
<1>9. CASE Start(t) \/ IndexStart(t) \/ ReindexClaim(t) \/ Finish(t)
  <2>1. t \notin Counted /\ t \notin Counted'
    BY <1>9, <1>0, <1>a, <1>b, <1>c DEF Start, IndexStart, ReindexClaim, Finish, Failed, COUNTED, TASKS
  <2> QED  BY <2>1, <1>9 DEF Start, IndexStart, ReindexClaim, Finish, Failed, GoesOn
<1>10. ASSUME NEW text \in {"text", "empty", "none"}, Extract(t, text) PROVE Goal
  <2>1. t \notin Counted /\ t \notin Counted'
    BY <1>10, <1>0, <1>a, <1>c DEF Extract, Failed, COUNTED, TASKS
  <2> QED  BY <2>1, <1>10 DEF Extract, Failed, GoesOn
<1>11. CASE Resolve(t)
  <2>1. t \notin Counted /\ t \notin Counted'
    BY <1>11, <1>0, <1>a, <1>b, <1>c DEF Resolve, Failed, COUNTED, TASKS
  <2> QED  BY <2>1, <1>11 DEF Resolve, Failed, GoesOn
<1>12. ASSUME NEW d \in Docs, ReindexAsk(t, d) PROVE Goal
  <2>1. t \notin Counted /\ t \notin Counted'
    BY <1>12, <1>0, <1>a DEF ReindexAsk, COUNTED, Idle
  <2> QED  BY <2>1, <1>12 DEF ReindexAsk, GoesOn
<1>13. ASSUME NEW ds \in SUBSET Docs, NEW whole \in BOOLEAN, DeleteAsk(t, ds, whole) PROVE Goal
  <2>1. t \notin Counted /\ t \notin Counted'
    BY <1>13, <1>0, <1>a DEF DeleteAsk, COUNTED, Idle
  <2> QED  BY <2>1, <1>13 DEF DeleteAsk, GoesOn
<1> QED
  BY <1>1, <1>2, <1>3, <1>4, <1>5, <1>6, <1>7, <1>8, <1>9, <1>10, <1>11, <1>12, <1>13
  DEF Asked, Ingestion, Deletion

\* No task acts while the gateway is down.
LEMMA TaskNeedsUp ==
  ASSUME NEW t \in Tasks, Asked(t) \/ Ingestion(t) \/ Deletion(t)
  PROVE  up
  BY DEF Asked, Ingestion, Deletion, Upload, Uploaded, UploadFails, Start, Extract, IndexStart, Resolve,
         BeginMutation, Bind, VectorsDelete, VectorsUpsert, VectorsFail, EndMutation, Finish, ReindexAsk,
         ReindexClaim, DeleteAsk, Forget, ForgetFails, DeleteCommit

\* With nothing running nothing is counted.
LEMMA NoneCounted ==
  ASSUME \A t \in Tasks : task[t] = Idle
  PROVE  Counted = {} /\ Cardinality(Counted) = 0
<1>1. Counted = {}
  BY DEF Counted, COUNTED, Idle
<1> QED  BY <1>1, FS_EmptySet

LEMMA FenceStep ==
  ASSUME KnowledgeBaseAssumption, Types, Fence, [Next]_vars
  PROVE  Fence'
<1>0. /\ fence.dirty \in Nat /\ coll.dirty \in Nat /\ Cardinality(Counted) \in Nat
      /\ Types' /\ fence'.dirty \in Nat /\ coll'.dirty \in Nat
  <2>1. Types'
    BY TypesStep
  <2> QED  BY <2>1, CountedFinite DEF Types
<1>1. CASE \E t \in Tasks : Asked(t) \/ Ingestion(t) \/ Deletion(t)
  <2>1. PICK t \in Tasks : Asked(t) \/ Ingestion(t) \/ Deletion(t)
    BY <1>1
  <2>2. PICK x \in TASKS : Shape(x) /\ task' = [task EXCEPT ![t] = x]
    BY <2>1, TaskSteps
  <2>3. t \in Counted' <=> x.step \in COUNTED
    BY <2>2 DEF Counted, Types
  <2>4. Begins(t) \/ Ends(t) \/ GivesUp(t) \/ GoesOn(t)
    BY <2>1, TaskFence
  <2>5. UNCHANGED <<up, rebuild>> /\ up /\ rebuild = NoRebuild
    BY <2>1, TaskData, TaskNeedsUp DEF Fence
  <2>6. Cardinality(Counted') \in Nat
    <3>1. Counted' \subseteq Tasks
      BY DEF Counted
    <3> QED  BY <3>1, FS_Subset, FS_CardinalityType DEF KnowledgeBaseAssumption
  <2>7. CASE Begins(t)
    <3>1. Cardinality(Counted') = Cardinality(Counted) + 1
      BY <2>7, <2>2, <2>3, CountMoves DEF Begins
    <3> QED  BY <3>1, <2>7, <2>5, <1>0 DEF Begins, Fence
  <2>8. CASE Ends(t)
    <3>1. Cardinality(Counted') + 1 = Cardinality(Counted)
      BY <2>8, <2>2, <2>3, CountMoves DEF Ends
    <3> QED  BY <3>1, <2>8, <2>5, <2>6, <1>0 DEF Ends, Fence
  <2>9. CASE GivesUp(t)
    <3>1. Cardinality(Counted') + 1 = Cardinality(Counted)
      BY <2>9, <2>2, <2>3, CountMoves DEF GivesUp
    <3> QED  BY <3>1, <2>9, <2>5, <2>6, <1>0 DEF GivesUp, Fence
  <2>10. CASE GoesOn(t)
    <3>1. Cardinality(Counted') = Cardinality(Counted)
      BY <2>10, <2>2, <2>3, CountMoves DEF GoesOn
    <3> QED  BY <3>1, <2>10, <2>5, <1>0 DEF GoesOn, Fence
  <2> QED  BY <2>4, <2>7, <2>8, <2>9, <2>10
<1>2. CASE \E g \in Readers : Grounding(g) \/ \E scope \in {"tenant", "collection"} : GroundRead(g, scope)
  <2>1. UNCHANGED Ground
    BY <1>2, GroundingReads
  <2>2. Counted' = Counted
    BY <2>1 DEF Ground, Counted
  <2> QED  BY <2>1, <2>2 DEF Ground, Fence
<1>3. CASE RecordExpires \/ UNCHANGED vars \/ \E i \in Identities : ServingChanges(i)
  <2>1. UNCHANGED <<fence, coll, task, late, up, rebuild>>
    BY <1>3 DEF RecordExpires, vars, ServingChanges
  <2>2. Counted' = Counted
    BY <2>1 DEF Counted
  <2> QED  BY <2>1, <2>2 DEF Fence
<1>4. CASE LateWrite
  <2>1. UNCHANGED <<fence, coll, task, up, rebuild>> /\ late # {} /\ late' \subseteq late
    BY <1>4 DEF LateWrite
  <2>2. Counted' = Counted
    BY <2>1 DEF Counted
  <2> QED  BY <2>1, <2>2, <1>0 DEF Fence
<1>5. CASE Crash
  <2>1. /\ UNCHANGED <<fence, coll, late, rebuild>> /\ up /\ up' = FALSE
        /\ \A t \in Tasks : task'[t] = Idle
    BY <1>5 DEF Crash
  <2>2. Counted' = {}
    BY <2>1 DEF Counted, COUNTED, Idle
  <2>3. Cardinality(Counted') = 0
    BY <2>2, FS_EmptySet
  <2> QED  BY <2>1, <2>3, <1>0 DEF Fence
<1>6. CASE Restart \/ Provision
  <2>1. UNCHANGED <<fence, coll, task, late, rebuild>> /\ (up' = TRUE \/ up' = up) /\ rebuild = NoRebuild
    BY <1>6 DEF Restart, Provision
  <2>2. Counted' = Counted
    BY <2>1 DEF Counted
  <2> QED  BY <2>1, <2>2 DEF Fence
<1>7. CASE Operator
  <2>1. UNCHANGED <<task, late, up>>
    BY <1>7 DEF Operator, Recover, RebuildStart, RebuildReset, RebuildDocument, RebuildFinish, RebuildStops
  <2>2. Counted' = Counted
    BY <2>1 DEF Counted
  <2>3. ~up /\ late = {}
    BY <1>7 DEF Operator, Recover, RebuildStart, RebuildReset, RebuildDocument, RebuildFinish, RebuildStops,
                WritersStopped, NoRebuild, Fence
  <2>4. Cardinality(Counted) = 0
    BY <2>3, NoneCounted DEF Fence
  <2>5. coll'.alive => coll'.dirty = fence'.dirty
    <3>1. ASSUME NEW i \in Identities, RebuildStart(i) PROVE coll'.alive => coll'.dirty = fence'.dirty
      BY <3>1 DEF RebuildStart, Types, Fence
    <3>2. CASE Recover
      BY <3>2 DEF Recover, Types, Fence
    <3>3. CASE RebuildFinish
      BY <3>3 DEF RebuildFinish, Types, Fence
    <3>4. CASE RebuildReset \/ RebuildStops \/ \E d \in Docs : RebuildDocument(d)
      BY <3>4 DEF RebuildReset, RebuildStops, RebuildDocument, Fence
    <3> QED  BY <1>7, <3>1, <3>2, <3>3, <3>4 DEF Operator
  <2>6. rebuild' # NoRebuild => fence'.dirty > 0
    <3>1. ASSUME NEW i \in Identities, RebuildStart(i) PROVE fence'.dirty > 0
      BY <3>1, <1>0 DEF RebuildStart, Types
    <3>2. CASE RebuildFinish \/ RebuildStops
      BY <3>2 DEF RebuildFinish, RebuildStops
    <3>3. CASE RebuildReset \/ Recover \/ \E d \in Docs : RebuildDocument(d)
      BY <3>3 DEF RebuildReset, RebuildDocument, Recover, WritersStopped, NoRebuild, Fence
    <3> QED  BY <1>7, <3>1, <3>2, <3>3 DEF Operator
  <2> QED  BY <2>1, <2>2, <2>3, <2>4, <2>5, <2>6, <1>0 DEF Fence
<1> QED
  BY <1>1, <1>2, <1>3, <1>4, <1>5, <1>6, <1>7 DEF Next

LEMMA FenceInit ==
  ASSUME KnowledgeBaseAssumption, Init
  PROVE  Types /\ Fence
<1>1. Types
  <2>1. /\ row \in [Docs -> ROWS]
        /\ stored \in [Docs -> {"none", "original", "text", "empty"}]
        /\ points \in [Docs -> Spaces \cup {"legacy"}]
    BY DEF Init, ROWS, Spaces
  <2>2. task \in [Tasks -> TASKS] /\ \A t \in Tasks : Shape(task[t])
    BY IdleTyped DEF Init
  <2>3. /\ fence \in [epoch : Nat, dirty : Nat, identity : Spaces, requires : BOOLEAN, rebuilding : BOOLEAN]
        /\ coll \in [alive : BOOLEAN, epoch : Nat, dirty : Nat]
        /\ rebuild \in [step : {"idle", "reset", "documents"}, todo : SUBSET Docs, space : Spaces]
    BY DEF Init, Spaces, NoRebuild
  <2> QED  BY <2>1, <2>2, <2>3 DEF Init, Types
<1>2. \A t \in Tasks : task[t] = Idle
  BY DEF Init
<1> QED  BY <1>1, <1>2, NoneCounted DEF Init, Fence

\* Every variable of the index has its type, the fence counts what is under way, and a rebuild
\* runs alone (KnowledgeMutation, _end, the operator's contract).
THEOREM FenceCounts ==
  ASSUME KnowledgeBaseAssumption
  PROVE  Spec => [](Types /\ Fence)
<1>1. Types /\ Fence /\ [Next]_vars => (Types /\ Fence)'
  BY TypesStep, FenceStep
<1> QED  BY FenceInit, <1>1, PTL DEF Spec

\* Passages are written by who is counted, by the store late, and by a rebuild.
LEMMA OnlyCountedWrite ==
  ASSUME Types, NEW t \in Tasks, Asked(t) \/ Ingestion(t) \/ Deletion(t), points' # points
  PROVE  t \in Counted
<1>1. CASE Asked(t)
  BY <1>1 DEF Asked, Upload, ReindexAsk, DeleteAsk, content
<1>2. CASE Ingestion(t)
  <2>1. VectorsDelete(t) \/ VectorsUpsert(t)
    BY <1>2 DEF Ingestion, Uploaded, UploadFails, ReindexClaim, Start, Extract, IndexStart, Resolve, BeginMutation,
                Bind, VectorsFail, EndMutation, Finish, content
  <2> QED  BY <2>1 DEF VectorsDelete, VectorsUpsert, Counted, COUNTED
<1>3. CASE Deletion(t)
  BY <1>3 DEF Deletion, DeleteCommit, Forget, ForgetFails, Counted, COUNTED
<1> QED  BY <1>1, <1>2, <1>3

LEMMA ChangeIsFenced ==
  ASSUME KnowledgeBaseAssumption, Types, Fence, [Next]_vars
  PROVE  FencedChange
<1> SUFFICES ASSUME points' # points PROVE fence.dirty > 0
  BY DEF FencedChange
<1>0. fence.dirty \in Nat /\ Cardinality(Counted) \in Nat
  BY CountedFinite DEF Types
<1>1. CASE \E t \in Tasks : Asked(t) \/ Ingestion(t) \/ Deletion(t)
  <2>1. PICK t \in Tasks : t \in Counted
    BY <1>1, OnlyCountedWrite
  <2>2. Cardinality(Counted) > 0
    <3>1. Cardinality(Counted) # 0
      BY <2>1, CountedFinite, FS_EmptySet
    <3> QED  BY <3>1, <1>0
  <2> QED  BY <2>2, <1>0 DEF Fence
<1>2. CASE LateWrite
  BY <1>2, <1>0 DEF LateWrite, Fence
<1>3. CASE Operator
  <2>1. rebuild # NoRebuild
    BY <1>3 DEF Operator, Recover, RebuildStart, RebuildReset, RebuildDocument, RebuildFinish, RebuildStops,
                content, NoRebuild
  <2> QED  BY <2>1 DEF Fence
<1>4. ~(\E g \in Readers : Grounding(g) \/ \E scope \in {"tenant", "collection"} : GroundRead(g, scope))
  BY GroundingReads DEF Ground
<1>5. ~(RecordExpires \/ Crash \/ Restart \/ Provision \/ UNCHANGED vars \/ \E i \in Identities : ServingChanges(i))
  BY DEF RecordExpires, Crash, Restart, Provision, ServingChanges, vars, content
<1> QED  BY <1>1, <1>2, <1>3, <1>4, <1>5 DEF Next

\* Searchable content changes only under a dirty fence, whoever writes it and whatever crashed.
THEOREM ContentIsFenced ==
  ASSUME KnowledgeBaseAssumption
  PROVE  Spec => [][FencedChange]_vars
<1>1. (Types /\ Fence) /\ [Next]_vars => [FencedChange]_vars
  BY ChangeIsFenced
<1> QED  BY FenceCounts, <1>1, PTL DEF Spec

----------------------------------------------------------------------------
(* One embedding space *)

\* A write of one document's passages.
Writes(d, space) == points' = [points EXCEPT ![d] = space]

\* What a step of a task does to the fence's identity and claim, and to passages.
LEMMA TaskSpace ==
  ASSUME KnowledgeBaseAssumption, Types, OneSpace, NEW t \in Tasks, Asked(t) \/ Ingestion(t) \/ Deletion(t)
  PROVE  /\ fence'.requires = fence.requires
         /\ fence'.identity = fence.identity \/ fence.identity = "none"
         /\ points' = points \/ \E d \in Docs : Writes(d, "none") \/ (fence.identity # "none" /\ Writes(d, fence.identity))
         /\ \A w \in late' \ late : w[2] \in {"none", fence.identity} /\ fence' = fence
         /\ task'[t].step \in {"delete", "upsert", "end", "finish"} /\ task'[t].space # "none"
            => task'[t].space = fence'.identity
<1> DEFINE Goal ==
         /\ fence'.requires = fence.requires
         /\ fence'.identity = fence.identity \/ fence.identity = "none"
         /\ points' = points \/ \E d \in Docs : Writes(d, "none") \/ (fence.identity # "none" /\ Writes(d, fence.identity))
         /\ \A w \in late' \ late : w[2] \in {"none", fence.identity} /\ fence' = fence
         /\ task'[t].step \in {"delete", "upsert", "end", "finish"} /\ task'[t].space # "none"
            => task'[t].space = fence'.identity
<1>0. task[t] \in TASKS /\ Shape(task[t]) /\ task \in [Tasks -> TASKS]
  BY DEF Types
<1>a. task[t].step \in {"delete", "upsert", "end", "finish"} /\ task[t].space # "none"
      => task[t].space = fence.identity
  BY DEF OneSpace
<1>b. ASSUME NEW s, Go(t, s) PROVE task'[t].step = s /\ task'[t].space = task[t].space
  BY <1>b, <1>0 DEF Go, TASKS
<1>c. Free(t) => task'[t].step = "idle"
  BY <1>0 DEF Free, Idle
<1>d. /\ Begin => fence'.requires = fence.requires /\ fence'.identity = fence.identity
      /\ End => fence'.requires = fence.requires /\ fence'.identity = fence.identity
  BY Begun, HasEnded DEF End
<1>1. ASSUME NEW d \in Docs, Upload(t, d) \/ ReindexAsk(t, d) PROVE Goal
  <2>1. task'[t].step \in {"store", "claim"}
    BY <1>1, <1>0 DEF Upload, ReindexAsk, Idle
  <2>2. points' = points /\ late' = late /\ (Begin \/ fence' = fence)
    BY <1>1 DEF Upload, ReindexAsk, content
  <2> QED  BY <2>1, <2>2, <1>d
<1>2. ASSUME NEW ds \in SUBSET Docs, NEW whole \in BOOLEAN, DeleteAsk(t, ds, whole) PROVE Goal
  <2>1. task'[t].step = "begin"
    BY <1>2, <1>0 DEF DeleteAsk, Idle
  <2> QED  BY <2>1, <1>2 DEF DeleteAsk, content
<1>3. CASE Uploaded(t)
  BY <1>3, <1>b, <1>d DEF Uploaded
<1>4. CASE UploadFails(t) \/ \E d \in Docs : ForgetFails(t, d)
  <2>1. task'[t].step = "idle" /\ fence' = fence
    BY <1>4, <1>c DEF UploadFails, ForgetFails
  <2>2. CASE UploadFails(t)
    BY <2>1, <2>2 DEF UploadFails
  <2>3. ASSUME NEW d \in Docs, ForgetFails(t, d) PROVE Goal
    <3>1. \A w \in late' \ late : w[2] = "none"
      BY <2>3 DEF ForgetFails
    <3>2. points' = points \/ Writes(d, "none")
      BY <2>3 DEF ForgetFails, Writes
    <3> QED  BY <3>1, <3>2, <2>1
  <2> QED  BY <1>4, <2>2, <2>3
<1>5. CASE Start(t)
  <2>1. task'[t].step \in {"idle", "extract", "index"}
    BY <1>5, <1>0, <1>b, <1>c DEF Start, Failed, TASKS
  <2> QED  BY <2>1, <1>5 DEF Start, Failed
<1>6. ASSUME NEW text \in {"text", "empty", "none"}, Extract(t, text) PROVE Goal
  <2>1. task'[t].step \in {"idle", "index"}
    BY <1>6, <1>0, <1>c DEF Extract, Failed, TASKS
  <2> QED  BY <2>1, <1>6 DEF Extract, Failed
<1>7. CASE IndexStart(t) \/ ReindexClaim(t)
  BY <1>7, <1>b, <1>c DEF IndexStart, ReindexClaim
<1>8. CASE Resolve(t)
  <2>1. task'[t].step \in {"idle", "begin"}
    BY <1>8, <1>0, <1>b, <1>c DEF Resolve, Failed, TASKS
  <2> QED  BY <2>1, <1>8 DEF Resolve, Failed
<1>9. CASE BeginMutation(t)
  <2>1. task'[t].step \in {"forget", "bind", "delete"} /\ task'[t].space = task[t].space
        /\ (task'[t].step = "delete" => task[t].space = "none")
    BY <1>9, <1>b DEF BeginMutation
  <2> QED  BY <2>1, <1>9, <1>d DEF BeginMutation, content
<1>10. CASE Bind(t)
  <2>1. CASE Failed(t)
    BY <2>1, <1>10, <1>c DEF Bind, Failed
  <2>2. CASE /\ fence.identity \in {"none", task[t].space}
             /\ fence' = [fence EXCEPT !.identity = task[t].space] /\ Go(t, "delete")
    <3>1. fence'.requires = fence.requires /\ fence'.identity = task[t].space
      BY <2>2 DEF Types
    <3> QED  BY <3>1, <2>2, <1>10, <1>b DEF Bind
  <2> QED  BY <1>10, <2>1, <2>2 DEF Bind
<1>11. CASE VectorsDelete(t)
  <2>1. Doc(t) \in Docs
    BY <1>11, <1>0, DocIn DEF VectorsDelete, Shape
  <2>2. /\ task'[t].step \in {"end", "upsert"} /\ task'[t].space = task[t].space
        /\ Writes(Doc(t), "none") /\ task[t].step = "delete"
        /\ late' = late /\ fence' = fence
    BY <1>11, <1>b DEF VectorsDelete, Writes
  <2> QED  BY <2>1, <2>2, <1>a
<1>12. CASE VectorsUpsert(t)
  <2>1. Doc(t) \in Docs /\ task[t].space # "none"
    BY <1>12, <1>0, DocIn DEF VectorsUpsert, Shape
  <2>2. Writes(Doc(t), task[t].space) /\ task[t].space = fence.identity
    BY <2>1, <1>12, <1>a DEF VectorsUpsert, Writes
  <2> QED  BY <2>1, <2>2, <1>12, <1>b DEF VectorsUpsert
<1>13. CASE VectorsFail(t)
  <2>1. task'[t].step = "idle" /\ fence' = fence /\ points' = points
    BY <1>13, <1>c DEF VectorsFail, Failed
  <2>2. \A w \in late' \ late : w[2] = (IF task[t].step = "upsert" THEN task[t].space ELSE "none")
    BY <1>13 DEF VectorsFail
  <2>3. task[t].step = "upsert" => task[t].space = fence.identity
    BY <1>0, <1>a DEF Shape
  <2> QED  BY <2>1, <2>2, <2>3
<1>14. CASE EndMutation(t)
  BY <1>14, <1>a, <1>b, <1>d DEF EndMutation, content
<1>15. CASE Finish(t)
  BY <1>15, <1>c DEF Finish
<1>16. ASSUME NEW d \in Docs, Forget(t, d) PROVE Goal
  <2>1. task'[t].step = "forget"
    BY <1>16, <1>0 DEF Forget, TASKS
  <2>2. Writes(d, "none") /\ late' = late /\ fence' = fence
    BY <1>16 DEF Forget, Writes
  <2> QED  BY <2>1, <2>2
<1>17. CASE DeleteCommit(t)
  <2>1. fence'.requires = fence.requires /\ fence'.identity = fence.identity
    BY <1>17, HasEnded DEF DeleteCommit
  <2> QED  BY <2>1, <1>17, <1>c DEF DeleteCommit
<1> QED
  BY <1>1, <1>2, <1>3, <1>4, <1>5, <1>6, <1>7, <1>8, <1>9, <1>10, <1>11, <1>12, <1>13, <1>14, <1>15, <1>16, <1>17
  DEF Asked, Ingestion, Deletion

LEMMA SpaceStep ==
  ASSUME KnowledgeBaseAssumption, Types, Fence, OneSpace, [Next]_vars
  PROVE  OneSpace'
<1>0. points \in [Docs -> Spaces \cup {"legacy"}] /\ task \in [Tasks -> TASKS]
  BY DEF Types
<1>1. CASE \E t \in Tasks : Asked(t) \/ Ingestion(t) \/ Deletion(t)
  <2>1. PICK t \in Tasks : Asked(t) \/ Ingestion(t) \/ Deletion(t)
    BY <1>1
  <2>2. PICK x \in TASKS : Shape(x) /\ task' = [task EXCEPT ![t] = x]
    BY <2>1, TaskSteps
  <2>3. /\ fence'.requires = fence.requires
        /\ fence'.identity = fence.identity \/ fence.identity = "none"
        /\ points' = points \/ \E d \in Docs : Writes(d, "none") \/ (fence.identity # "none" /\ Writes(d, fence.identity))
        /\ \A w \in late' \ late : w[2] \in {"none", fence.identity} /\ fence' = fence
        /\ task'[t].step \in {"delete", "upsert", "end", "finish"} /\ task'[t].space # "none"
           => task'[t].space = fence'.identity
    BY <2>1, TaskSpace
  <2>4. UNCHANGED rebuild /\ rebuild = NoRebuild
    BY <2>1, TaskData, TaskNeedsUp DEF Fence
  <2>5. ~fence'.requires => \A d \in Docs : points'[d] \in {"none", fence'.identity}
    BY <2>3, <1>0 DEF OneSpace, Writes
  <2>6. \A o \in Tasks : task'[o].step \in {"delete", "upsert", "end", "finish"} /\ task'[o].space # "none"
                         => task'[o].space = fence'.identity
    <3> SUFFICES ASSUME NEW o \in Tasks, o # t, task'[o].step \in {"delete", "upsert", "end", "finish"},
                        task'[o].space # "none"
                 PROVE  task'[o].space = fence'.identity
      BY <2>3
    <3>1. task'[o] = task[o]
      BY <2>2, <1>0
    <3> QED  BY <3>1, <2>3 DEF OneSpace
  <2>7. \A w \in late' : w[2] \in {"none", fence'.identity}
    BY <2>3 DEF OneSpace
  <2> QED  BY <2>3, <2>4, <2>5, <2>6, <2>7 DEF OneSpace, NoRebuild
<1>2. CASE \E g \in Readers : Grounding(g) \/ \E scope \in {"tenant", "collection"} : GroundRead(g, scope)
  BY <1>2, GroundingReads DEF Ground, OneSpace
<1>3. CASE RecordExpires \/ UNCHANGED vars \/ \E i \in Identities : ServingChanges(i)
  BY <1>3 DEF RecordExpires, vars, ServingChanges, content, OneSpace
<1>4. CASE LateWrite
  <2>1. PICK w \in late : late' = late \ {w} /\ points' = [points EXCEPT ![w[1]] = w[2]]
    BY <1>4 DEF LateWrite
  <2>2. UNCHANGED <<fence, task, rebuild>> /\ rebuild = NoRebuild
    BY <1>4 DEF LateWrite, Fence
  <2>3. \A d \in Docs : points'[d] = points[d] \/ points'[d] \in {"none", fence.identity}
    BY <2>1, <1>0 DEF OneSpace
  <2> QED  BY <2>1, <2>2, <2>3 DEF OneSpace, NoRebuild
<1>5. CASE Crash
  BY <1>5 DEF Crash, content, OneSpace, Idle
<1>6. CASE Restart \/ Provision
  BY <1>6 DEF Restart, Provision, content, OneSpace
<1>7. CASE Operator
  <2>1. UNCHANGED <<task, late>> /\ ~up /\ late = {}
    BY <1>7 DEF Operator, Recover, RebuildStart, RebuildReset, RebuildDocument, RebuildFinish, RebuildStops,
                WritersStopped, NoRebuild, Fence
  <2>2. \A t \in Tasks : task'[t].step = "idle"
    BY <2>1 DEF Fence, Idle
  <2>3. ASSUME NEW i \in Identities, RebuildStart(i) PROVE OneSpace'
    <3>1. fence'.requires
      BY <2>3 DEF RebuildStart, Types
    <3> QED  BY <2>1, <2>2, <2>3, <3>1 DEF RebuildStart, content, OneSpace
  <2>4. CASE Recover
    <3>1. fence'.requires = fence.requires /\ fence'.identity = fence.identity
      BY <2>4 DEF Recover, Types
    <3> QED  BY <2>1, <2>2, <2>4, <3>1 DEF Recover, content, OneSpace, WritersStopped, NoRebuild
  <2>5. CASE RebuildReset
    BY <2>1, <2>2, <2>5 DEF RebuildReset, OneSpace, NoRebuild
  <2>6. ASSUME NEW d \in Docs, RebuildDocument(d) PROVE OneSpace'
    <3>1. fence' = fence /\ rebuild'.space = rebuild.space /\ rebuild.step = "documents" /\ rebuild' # NoRebuild
      BY <2>6 DEF RebuildDocument, NoRebuild, Types
    <3>2. \A e \in Docs : points'[e] \in {"none", rebuild.space}
      BY <2>6, <1>0 DEF RebuildDocument, OneSpace
    <3> QED  BY <2>1, <2>2, <3>1, <3>2 DEF OneSpace, NoRebuild
  <2>7. CASE RebuildFinish
    <3>1. fence'.identity = rebuild.space /\ rebuild' = NoRebuild /\ points' = points
      BY <2>7 DEF RebuildFinish, content, Types
    <3> QED  BY <2>1, <2>2, <2>7, <3>1 DEF OneSpace, NoRebuild, RebuildFinish
  <2>8. CASE RebuildStops
    BY <2>1, <2>2, <2>8 DEF RebuildStops, OneSpace, NoRebuild, content
  <2> QED  BY <1>7, <2>3, <2>4, <2>5, <2>6, <2>7, <2>8 DEF Operator
<1> QED
  BY <1>1, <1>2, <1>3, <1>4, <1>5, <1>6, <1>7 DEF Next

\* All passages of an index that claims to be whole are in the space queries are embedded in:
\* whoever uploads, re-indexes, deletes or rebuilds meanwhile, and whatever fails.
THEOREM SpacesStayOne ==
  ASSUME KnowledgeBaseAssumption
  PROVE  Spec => [](OneSpace /\ SpaceConsistent)
<1>1. Init => OneSpace
  <2> SUFFICES ASSUME Init PROVE OneSpace
    OBVIOUS
  <2>1. ~fence.requires => \A d \in Docs : points[d] \in {"none", fence.identity}
    BY DEF Init
  <2> QED  BY <2>1 DEF Init, OneSpace, Idle, NoRebuild
<1>2. (Types /\ Fence) /\ OneSpace /\ [Next]_vars => OneSpace'
  BY SpaceStep
<1>3. OneSpace => SpaceConsistent
  BY DEF OneSpace, SpaceConsistent
<1> QED  BY FenceCounts, <1>1, <1>2, <1>3, PTL DEF Spec

----------------------------------------------------------------------------
(* One text *)

\* What documents a step of a task takes: none, fresh ones, or ones at rest.
Takes(t) ==
    \/ task'[t].docs = task[t].docs \/ task'[t].docs = {}
    \/ \A d \in task'[t].docs : row[d] \notin TRANSIENT_DOCUMENT_STATES \cup {"none"}
    \/ \E d \in Docs : /\ task'[t].docs = {d} /\ row[d] = "none"
                       /\ \A o \in Tasks : d \notin task[o].docs

\* An ingestion that has not stored its text is as alone as it was.
StaysAlone(t) ==
    task'[t].kind = "ingest" /\ task'[t].step \in EARLY =>
        \A d \in task'[t].docs :
            /\ task'[t].step = "store" => row'[d] = "none"
            /\ task'[t].step # "store" => row'[d] # "indexed" /\ stored'[d] \in {"original", "none"}
            /\ \A o \in Tasks \ {t} : d \in task[o].docs => task'[t].step # "store" /\ Bystander(task[o])

\* Whoever takes up a document that exists has not read its text; a new one nobody else has.
LEMMA TaskJoins ==
  ASSUME KnowledgeBaseAssumption, Types, NEW t \in Tasks, Asked(t) \/ Ingestion(t) \/ Deletion(t),
         NEW d \in task'[t].docs, d \notin task[t].docs
  PROVE  \/ row[d] # "none" /\ Bystander(task'[t])
         \/ row[d] = "none" /\ \A o \in Tasks : d \notin task[o].docs
<1>0. task \in [Tasks -> TASKS]
  BY DEF Types
<1>1. ASSUME NEW e \in Docs, Upload(t, e) PROVE row[d] = "none" /\ \A o \in Tasks : d \notin task[o].docs
  <2>1. task'[t].docs = {e}
    BY <1>0, <1>1 DEF Upload, Idle
  <2> QED  BY <2>1, <1>1 DEF Upload
<1>2. ASSUME NEW e \in Docs, ReindexAsk(t, e) PROVE row[d] # "none" /\ Bystander(task'[t])
  <2>1. task'[t].docs = {e} /\ task'[t].kind = "reindex" /\ task'[t].step = "claim"
    BY <1>0, <1>2 DEF ReindexAsk, Idle
  <2> QED  BY <2>1, <1>2 DEF ReindexAsk, Bystander, REINDEXABLE_STATES
<1>3. ASSUME NEW ds \in SUBSET Docs, NEW whole \in BOOLEAN, DeleteAsk(t, ds, whole)
      PROVE  row[d] # "none" /\ Bystander(task'[t])
  <2>1. task'[t].docs = ds /\ task'[t].kind = "delete"
    BY <1>0, <1>3 DEF DeleteAsk, Idle
  <2> QED  BY <2>1, <1>3 DEF DeleteAsk, Bystander
<1>4. ~(Ingestion(t) \/ Deletion(t))
  <2> SUFFICES ASSUME Ingestion(t) \/ Deletion(t) PROVE task'[t].docs = task[t].docs \/ task'[t].docs = {}
    OBVIOUS
  <2> QED  BY <1>0 DEF Ingestion, Deletion, Uploaded, UploadFails, ReindexClaim, Start, Extract, IndexStart,
                       Resolve, BeginMutation, Bind, VectorsDelete, VectorsUpsert, VectorsFail, EndMutation, Finish,
                       DeleteCommit, Forget, ForgetFails, Failed, Go, Free, Idle, TASKS
<1> QED  BY <1>1, <1>2, <1>3, <1>4 DEF Asked

\* While there is no text, who has not read it goes on without, or ends.
LEMMA BystanderStays ==
  ASSUME KnowledgeBaseAssumption, Types, NEW t \in Tasks, Asked(t) \/ Ingestion(t) \/ Deletion(t),
         Bystander(task[t]), NEW d \in task[t].docs, stored[d] \in {"original", "none"}
  PROVE  /\ d \in task'[t].docs => Bystander(task'[t])
         /\ row'[d] = "indexed" => row[d] = "indexed"
<1>0. /\ task \in [Tasks -> TASKS] /\ task[t] \in TASKS /\ Shape(task[t]) /\ d \in Docs /\ row \in [Docs -> ROWS]
      /\ task[t] # Idle
  BY DEF Types, TASKS, Idle
<1>1. ~Asked(t)
  BY <1>0 DEF Asked, Upload, ReindexAsk, DeleteAsk
<1>2. CASE task[t].kind = "delete"
  <2>1. BeginMutation(t) \/ Deletion(t)
    BY <1>0, <1>1, <1>2 DEF Ingestion, Uploaded, UploadFails, ReindexClaim, Start, Extract, IndexStart, Resolve, Bind,
         VectorsDelete, VectorsUpsert, VectorsFail, EndMutation, Finish, Shape
  <2>2. row' = row \/ row'[d] = "none" \/ row'[d] = row[d]
    BY <2>1, <1>0 DEF BeginMutation, Deletion, DeleteCommit, Forget, ForgetFails, content
  <2>3. task'[t].kind = "delete" \/ task'[t].docs = {}
    BY <2>1, <1>0, <1>2 DEF BeginMutation, Deletion, DeleteCommit, Forget, ForgetFails, Go, Free, Idle, TASKS
  <2> QED  BY <2>2, <2>3 DEF Bystander
<1>3. CASE task[t].kind = "reindex" /\ task[t].step \in {"claim", "start"}
  <2>1. ReindexClaim(t) \/ Start(t)
    BY <1>1, <1>3 DEF Ingestion, Deletion, Uploaded, UploadFails, Extract, IndexStart, Resolve, BeginMutation, Bind,
         VectorsDelete, VectorsUpsert, VectorsFail, EndMutation, Finish, DeleteCommit, Forget, ForgetFails
  <2>2. task[t].docs = {Doc(t)} /\ d = Doc(t)
    BY <1>3, <1>0, DocIn
  <2>3. CASE ReindexClaim(t)
    BY <2>2, <2>3, <1>0, <1>3 DEF ReindexClaim, Claimed, Go, Free, Idle, TASKS, Bystander
  <2>4. CASE Start(t)
    <3>1. Free(t) \/ Failed(t)
      BY <2>2, <2>4, <1>3 DEF Start
    <3>2. task'[t].docs = {}
      BY <3>1, <1>0 DEF Failed, Free, Idle
    <3>3. row'[d] = row[d] \/ row'[d] = "error"
      BY <2>2, <2>4, <1>3, <1>0 DEF Start, Failed, Commit
    <3> QED  BY <3>2, <3>3
  <2> QED  BY <2>1, <2>3, <2>4
<1> QED  BY <1>2, <1>3 DEF Bystander

\* A step of a task changes the rows of its documents, and the bytes of one it is alone with, or
\* forgets bytes.
LEMMA TaskRows ==
  ASSUME KnowledgeBaseAssumption, Types, OneText, NEW t \in Tasks, Asked(t) \/ Ingestion(t) \/ Deletion(t)
  PROVE  /\ \A d \in Docs \ task[t].docs : row'[d] = row[d]
         /\ \A d \in Docs : \/ stored'[d] \in {stored[d], "none"}
                            \/ d \in task[t].docs /\ task[t].kind = "ingest" /\ task[t].step \in EARLY
         /\ Takes(t)
         /\ StaysAlone(t)
         /\ Agrees(t)'
<1> DEFINE G1 == \A d \in Docs \ task[t].docs : row'[d] = row[d]
           G2 == \A d \in Docs : \/ stored'[d] \in {stored[d], "none"}
                                 \/ d \in task[t].docs /\ task[t].kind = "ingest" /\ task[t].step \in EARLY
           G3 == Takes(t)
           G4 == StaysAlone(t)
           G5 == Agrees(t)'
           Goal == G1 /\ G2 /\ G3 /\ G4 /\ G5
<1>0. /\ task[t] \in TASKS /\ Shape(task[t]) /\ task \in [Tasks -> TASKS]
      /\ row \in [Docs -> ROWS] /\ stored \in [Docs -> {"none", "original", "text", "empty"}]
      /\ Alone(t) /\ Agrees(t)
  BY DEF Types, OneText
<1>a. task[t].step \notin {"idle", "begin", "forget"} => Doc(t) \in Docs /\ task[t].docs = {Doc(t)}
  BY <1>0, DocIn DEF Shape
<1>b. ASSUME NEW s, Go(t, s)
      PROVE  /\ task'[t].step = s /\ task'[t].kind = task[t].kind /\ task'[t].docs = task[t].docs
             /\ task'[t].text = task[t].text
  BY <1>b, <1>0 DEF Go, TASKS
<1>c. Free(t) => task'[t].step = "idle" /\ task'[t].docs = {} /\ task'[t].kind = "none"
  BY <1>0 DEF Free, Idle
<1>d. ASSUME NEW d \in Docs, NEW s, Commit(d, s) PROVE \A e \in Docs \ {d} : row'[e] = row[e]
  BY <1>0, <1>d DEF Commit
<1>e. ASSUME Free(t), UNCHANGED stored, \/ UNCHANGED row
                                        \/ \E d \in task[t].docs, s \in ROWS : Commit(d, s) /\ d \in Docs
      PROVE Goal
  <2>1. G1
    BY <1>e, <1>d
  <2> QED  BY <2>1, <1>c, <1>e DEF Takes, Agrees, StaysAlone, EARLY, LATER
<1>1. ASSUME NEW d \in Docs, Upload(t, d) PROVE Goal
  <2>1. task'[t].kind = "ingest" /\ task'[t].step = "store" /\ task'[t].docs = {d}
    BY <1>1, <1>0 DEF Upload, Idle
  <2> QED  BY <2>1, <1>1 DEF Upload, content, Takes, Agrees, StaysAlone, EARLY, LATER
<1>2. ASSUME NEW d \in Docs, ReindexAsk(t, d) PROVE Goal
  <2>1. task'[t].kind = "reindex" /\ task'[t].step = "claim" /\ task'[t].docs = {d}
    BY <1>2, <1>0 DEF ReindexAsk, Idle
  <2> QED  BY <2>1, <1>2 DEF ReindexAsk, content, Takes, Agrees, StaysAlone, EARLY, LATER, REINDEXABLE_STATES,
                              TRANSIENT_DOCUMENT_STATES
<1>3. ASSUME NEW ds \in SUBSET Docs, NEW whole \in BOOLEAN, DeleteAsk(t, ds, whole) PROVE Goal
  <2>1. task'[t].kind = "delete" /\ task'[t].step = "begin" /\ task'[t].docs = ds
    BY <1>3, <1>0 DEF DeleteAsk, Idle
  <2> QED  BY <2>1, <1>3 DEF DeleteAsk, content, Takes, Agrees, StaysAlone, EARLY, LATER
<1>4. CASE Uploaded(t)
  <2>1. task[t].kind = "ingest" /\ task[t].step = "store" /\ task[t].docs = {Doc(t)} /\ Doc(t) \in Docs
    BY <1>4, <1>0, <1>a DEF Uploaded, Shape
  <2>2. task'[t].step = "start" /\ task'[t].docs = {Doc(t)} /\ task'[t].kind = "ingest"
    BY <1>4, <1>b, <2>1 DEF Uploaded
  <2>3. row' = [row EXCEPT ![Doc(t)] = "extracting"] /\ stored' = [stored EXCEPT ![Doc(t)] = "original"]
    BY <1>4 DEF Uploaded
  <2> QED  BY <2>1, <2>2, <2>3, <1>0 DEF Takes, Agrees, StaysAlone, Alone, EARLY, LATER
<1>5. CASE UploadFails(t)
  <2>1. task[t].kind = "ingest" /\ task[t].step = "store" /\ task[t].docs = {Doc(t)} /\ Doc(t) \in Docs
    BY <1>5, <1>0, <1>a DEF UploadFails, Shape
  <2>2. task'[t].step = "idle" /\ task'[t].docs = {} /\ task'[t].kind = "none" /\ UNCHANGED row
    BY <1>5, <1>c DEF UploadFails
  <2>3. stored' \in {stored, [stored EXCEPT ![Doc(t)] = "original"]}
    BY <1>5 DEF UploadFails
  <2> QED  BY <2>1, <2>2, <2>3, <1>0 DEF Takes, Agrees, StaysAlone, EARLY, LATER
<1>6. CASE Start(t)
  <2>1. task[t].docs = {Doc(t)} /\ Doc(t) \in Docs /\ task[t].step = "start"
    BY <1>6, <1>a DEF Start
  <2>2. CASE Free(t) /\ UNCHANGED row
    BY <2>2, <1>6, <1>e DEF Start
  <2>3. CASE Failed(t)
    BY <2>1, <2>3, <1>6, <1>e DEF Start, Failed, ROWS
  <2>4. CASE task[t].kind = "ingest" /\ Go(t, "extract") /\ UNCHANGED row
    BY <2>1, <2>4, <1>6, <1>0, <1>b DEF Start, Takes, Agrees, StaysAlone, Alone, EARLY, LATER
  <2>5. CASE /\ task[t].kind = "reindex" /\ UNCHANGED row
             /\ task' = [task EXCEPT ![t].step = "index", ![t].text = stored[Doc(t)]]
    <3>1. task'[t].kind = "reindex" /\ task'[t].docs = task[t].docs /\ task'[t].text = stored[Doc(t)]
      BY <2>5, <1>0 DEF TASKS
    <3>2. stored' = stored
      BY <1>6 DEF Start
    <3> QED  BY <2>1, <2>5, <3>1, <3>2 DEF Takes, Agrees, StaysAlone
  <2> QED  BY <1>6, <2>2, <2>3, <2>4, <2>5 DEF Start
<1>7. ASSUME NEW text \in {"text", "empty", "none"}, Extract(t, text) PROVE Goal
  <2>1. task[t].docs = {Doc(t)} /\ Doc(t) \in Docs /\ task[t].step = "extract" /\ task[t].kind = "ingest"
    BY <1>7, <1>0, <1>a DEF Extract, Shape
  <2>2. CASE Failed(t) /\ UNCHANGED stored
    BY <2>1, <2>2, <1>e DEF Failed, ROWS
  <2>3. CASE /\ stored' = [stored EXCEPT ![Doc(t)] = text] /\ Commit(Doc(t), "extracted")
             /\ task' = [task EXCEPT ![t].step = "index", ![t].text = text]
    <3>1. /\ task'[t].kind = "ingest" /\ task'[t].docs = task[t].docs /\ task'[t].text = text
          /\ task'[t].step = "index"
      BY <2>3, <2>1, <1>0 DEF TASKS
    <3>2. \A e \in Docs \ {Doc(t)} : row'[e] = row[e]
      BY <2>1, <2>3, <1>d
    <3> QED  BY <2>1, <2>3, <3>1, <3>2, <1>0 DEF Takes, Agrees, StaysAlone, EARLY
  <2> QED  BY <1>7, <2>2, <2>3 DEF Extract
<1>8. CASE IndexStart(t)
  <2>1. task[t].docs = {Doc(t)} /\ Doc(t) \in Docs /\ task[t].step = "index"
    BY <1>8, <1>a DEF IndexStart
  <2>2. task'[t].docs = task[t].docs /\ task'[t].step = "resolve" /\ task'[t].kind = task[t].kind
        /\ task'[t].text = task[t].text /\ stored' = stored
    BY <1>8, <1>b DEF IndexStart
  <2>3. \A e \in Docs \ {Doc(t)} : row'[e] = row[e]
    BY <1>8, <2>1, <1>d DEF IndexStart
  <2> QED  BY <2>1, <2>2, <2>3, <1>0 DEF Takes, Agrees, StaysAlone, EARLY
<1>9. CASE Resolve(t)
  <2>1. task[t].docs = {Doc(t)} /\ Doc(t) \in Docs /\ task[t].step = "resolve" /\ stored' = stored
    BY <1>9, <1>a DEF Resolve
  <2>2. CASE Failed(t)
    BY <2>1, <2>2, <1>e DEF Failed, ROWS
  <2>3. CASE Go(t, "begin") /\ UNCHANGED row
    BY <2>1, <2>3, <1>0, <1>b DEF Takes, Agrees, StaysAlone, EARLY
  <2>4. ASSUME NEW i \in serving, task' = [task EXCEPT ![t].step = "begin", ![t].space = i], UNCHANGED row
        PROVE  Goal
    <3>1. task'[t].docs = task[t].docs /\ task'[t].step = "begin" /\ task'[t].kind = task[t].kind
          /\ task'[t].text = task[t].text
      BY <2>4, <1>0 DEF TASKS
    <3> QED  BY <2>1, <2>4, <3>1, <1>0 DEF Takes, Agrees, StaysAlone, EARLY
  <2> QED  BY <1>9, <2>2, <2>3, <2>4 DEF Resolve
<1>10. CASE BeginMutation(t)
  <2>1. /\ task[t].step = "begin" /\ UNCHANGED content
        /\ \E s \in {"forget", "delete", "bind"} : Go(t, s)
    BY <1>10 DEF BeginMutation
  <2> QED  BY <2>1, <1>0, <1>b DEF content, Takes, Agrees, StaysAlone, EARLY, LATER
<1>11. CASE Bind(t)
  <2>1. task[t].docs = {Doc(t)} /\ Doc(t) \in Docs /\ task[t].step = "bind" /\ stored' = stored
    BY <1>11, <1>a DEF Bind
  <2>2. CASE Failed(t)
    BY <2>1, <2>2, <1>e DEF Failed, ROWS
  <2>3. CASE Go(t, "delete") /\ UNCHANGED row
    BY <2>1, <2>3, <1>0, <1>b DEF Takes, Agrees, StaysAlone, EARLY, LATER
  <2> QED  BY <1>11, <2>2, <2>3 DEF Bind
<1>12. CASE VectorsDelete(t) \/ VectorsUpsert(t) \/ EndMutation(t)
  <2>1. /\ task[t].step \in LATER /\ UNCHANGED <<row, stored>>
        /\ \E s \in {"end", "upsert", "finish"} : Go(t, s)
    BY <1>12 DEF VectorsDelete, VectorsUpsert, EndMutation, LATER, content
  <2> QED  BY <2>1, <1>0, <1>b DEF Takes, Agrees, StaysAlone, EARLY, LATER
<1>13. CASE VectorsFail(t)
  <2>1. task[t].docs = {Doc(t)} /\ Doc(t) \in Docs /\ Failed(t) /\ stored' = stored
    BY <1>13, <1>a DEF VectorsFail
  <2> QED  BY <2>1, <1>e DEF Failed, ROWS
<1>14. CASE Finish(t)
  <2>1. task[t].docs = {Doc(t)} /\ Doc(t) \in Docs /\ Commit(Doc(t), "indexed") /\ Free(t) /\ stored' = stored
    BY <1>14, <1>a DEF Finish
  <2> QED  BY <2>1, <1>e DEF ROWS
<1>15. CASE ReindexClaim(t)
  <2>1. task[t].docs = {Doc(t)} /\ Doc(t) \in Docs /\ task[t].step = "claim" /\ stored' = stored
    BY <1>15, <1>a DEF ReindexClaim
  <2>2. CASE Claimed(Doc(t)) /\ Go(t, "start")
    <3>1. \A e \in Docs \ {Doc(t)} : row'[e] = row[e]
      BY <2>1, <2>2, <1>0 DEF Claimed
    <3>2. task[t].kind # "ingest"
      BY <2>1, <1>0 DEF Shape
    <3> QED  BY <2>1, <2>2, <3>1, <3>2, <1>b DEF Takes, Agrees, StaysAlone, EARLY, LATER
  <2>3. CASE Free(t) /\ UNCHANGED row
    BY <2>1, <2>3, <1>e
  <2> QED  BY <1>15, <2>2, <2>3 DEF ReindexClaim
<1>16. ASSUME NEW d \in Docs, Forget(t, d) PROVE Goal
  <2>1. task'[t].docs = task[t].docs /\ task'[t].kind = task[t].kind /\ task[t].step = "forget"
    BY <1>16, <1>0 DEF Forget, TASKS
  <2>2. row' = row /\ stored' = [stored EXCEPT ![d] = "none"] /\ task[t].kind = "delete"
    BY <1>16, <1>0 DEF Forget, Shape
  <2> QED  BY <2>1, <2>2, <1>0 DEF Takes, Agrees, StaysAlone
<1>17. ASSUME NEW d \in Docs, ForgetFails(t, d) PROVE Goal
  BY <1>17, <1>e DEF ForgetFails
<1>18. CASE DeleteCommit(t)
  <2>1. G1
    BY <1>18, <1>0 DEF DeleteCommit
  <2> QED  BY <2>1, <1>18, <1>c DEF DeleteCommit, Takes, Agrees, StaysAlone, EARLY, LATER
<1> QED
  BY <1>1, <1>2, <1>3, <1>4, <1>5, <1>6, <1>7, <1>8, <1>9, <1>10, <1>11, <1>12, <1>13, <1>14, <1>15, <1>16, <1>17,
     <1>18
  DEF Asked, Ingestion, Deletion

LEMMA TextStep ==
  ASSUME KnowledgeBaseAssumption, Types, Fence, OneText, [Next]_vars
  PROVE  OneText'
<1>0. task \in [Tasks -> TASKS] /\ \A t \in Tasks : Shape(task[t]) /\ task[t].docs \subseteq Docs
  BY DEF Types, TASKS
<1>1. CASE \E t \in Tasks : Asked(t) \/ Ingestion(t) \/ Deletion(t)
  <2>1. PICK t \in Tasks : Asked(t) \/ Ingestion(t) \/ Deletion(t)
    BY <1>1
  <2>2. PICK x \in TASKS : task' = [task EXCEPT ![t] = x]
    BY <2>1, TaskSteps
  <2>3. /\ \A d \in Docs \ task[t].docs : row'[d] = row[d]
        /\ \A d \in Docs : \/ stored'[d] \in {stored[d], "none"}
                           \/ d \in task[t].docs /\ task[t].kind = "ingest" /\ task[t].step \in EARLY
        /\ Takes(t) /\ Agrees(t)'
        /\ StaysAlone(t)
    BY <2>1, TaskRows
  <2>4. \A o \in Tasks \ {t} : task'[o] = task[o]
    BY <2>2, <1>0
  <2>5. Alone(t)'
    BY <2>3, <2>4 DEF Alone, StaysAlone
  <2>6. ASSUME NEW o \in Tasks \ {t} PROVE Alone(o)' /\ Agrees(o)'
    <3>1. task'[o] = task[o] /\ Alone(o) /\ Agrees(o) /\ Alone(t) /\ task[o].docs \subseteq Docs
      BY <2>4, <1>0 DEF OneText
    <3>2. Agrees(o)'
      <4> SUFFICES ASSUME task[o].kind # "delete", task[o].step \in {"index", "resolve", "begin"} \cup LATER,
                          NEW d \in task[o].docs
                   PROVE  stored'[d] \in {task[o].text, "none"}
        BY <3>1 DEF Agrees
      <4>1. ~(d \in task[t].docs /\ task[t].kind = "ingest" /\ task[t].step \in EARLY)
        BY <3>1 DEF Alone, Bystander, LATER
      <4> QED  BY <2>3, <3>1, <4>1 DEF Agrees
    <3>3. Alone(o)'
      <4> SUFFICES ASSUME task[o].kind = "ingest", task[o].step \in EARLY, NEW d \in task[o].docs
                   PROVE  /\ task[o].step = "store" => row'[d] = "none"
                          /\ task[o].step # "store" => row'[d] # "indexed" /\ stored'[d] \in {"original", "none"}
                          /\ \A u \in Tasks \ {o} : d \in task'[u].docs => task[o].step # "store" /\ Bystander(task'[u])
        BY <3>1 DEF Alone
      <4>1. /\ task[o].step = "store" => row[d] = "none"
            /\ task[o].step # "store" => row[d] # "indexed" /\ stored[d] \in {"original", "none"}
            /\ \A u \in Tasks \ {o} : d \in task[u].docs => task[o].step # "store" /\ Bystander(task[u])
        BY <3>1 DEF Alone
      <4>2. d \in Docs /\ (d \in task[t].docs => task[t].kind # "ingest")
        BY <4>1, <3>1 DEF Bystander
      <4>3. CASE d \in task[t].docs
        <5>1. Bystander(task[t]) /\ task[o].step # "store" /\ stored[d] \in {"original", "none"}
          BY <4>1, <4>3
        <5>2. (d \in task'[t].docs => Bystander(task'[t])) /\ (row'[d] = "indexed" => row[d] = "indexed")
          BY <4>3, <5>1, <2>1, BystanderStays
        <5>3. stored'[d] \in {"original", "none"}
          BY <4>2, <4>3, <5>1, <2>3
        <5> QED  BY <4>1, <5>1, <5>2, <5>3, <2>4
      <4>4. CASE d \notin task[t].docs
        <5>1. row'[d] = row[d] /\ (stored[d] \in {"original", "none"} => stored'[d] \in {"original", "none"})
          BY <4>2, <4>4, <2>3
        <5>2. d \in task'[t].docs => row[d] # "none" /\ Bystander(task'[t])
          BY <4>4, <2>1, TaskJoins
        <5> QED  BY <4>1, <5>1, <5>2, <2>4
      <4> QED  BY <4>3, <4>4
    <3> QED  BY <3>2, <3>3
  <2> QED  BY <2>3, <2>5, <2>6 DEF OneText
<1>2. CASE \E g \in Readers : Grounding(g) \/ \E scope \in {"tenant", "collection"} : GroundRead(g, scope)
  BY <1>2, GroundingReads DEF Ground, OneText, Alone, Agrees
<1>3. CASE RecordExpires \/ UNCHANGED vars \/ LateWrite \/ \E i \in Identities : ServingChanges(i)
  BY <1>3 DEF RecordExpires, vars, LateWrite, ServingChanges, content, OneText, Alone, Agrees
<1>4. CASE Crash
  BY <1>4 DEF Crash, content, OneText, Alone, Agrees, Idle
<1>6. CASE Restart \/ Provision
  <2>1. UNCHANGED <<stored, task>> /\ \A d \in Docs : row'[d] = row[d] \/ (row[d] \in TRANSIENT_DOCUMENT_STATES /\ row'[d] = "error")
    <3>1. CASE Restart
      BY <3>1 DEF Restart, content
    <3>2. CASE Provision
      BY <3>2 DEF Provision
    <3> QED  BY <1>6, <3>1, <3>2
  <2>2. ASSUME NEW t \in Tasks PROVE Alone(t)' /\ Agrees(t)'
    <3>1. Alone(t) /\ Agrees(t)
      BY DEF OneText
    <3> QED  BY <2>1, <3>1, <1>0 DEF Alone, Agrees, TRANSIENT_DOCUMENT_STATES
  <2> QED  BY <2>2 DEF OneText
<1>5. CASE Operator
  <2>1. UNCHANGED task /\ ~up
    BY <1>5 DEF Operator, Recover, RebuildStart, RebuildReset, RebuildDocument, RebuildFinish,
                RebuildStops, WritersStopped, NoRebuild, Fence
  <2>2. \A t \in Tasks : task'[t] = Idle
    BY <2>1 DEF Fence
  <2> QED  BY <2>2 DEF OneText, Alone, Agrees, Idle
<1> QED
  BY <1>1, <1>2, <1>3, <1>4, <1>5, <1>6 DEF Next

----------------------------------------------------------------------------
(* What reads INDEXED is searchable *)

\* A step of a task clears suspicion only as it finishes under a clean fence; only then does a
\* row come to read INDEXED.
LEMMA TaskSuspects ==
  ASSUME KnowledgeBaseAssumption, Types, Suspected, NEW t \in Tasks, Asked(t) \/ Ingestion(t) \/ Deletion(t)
  PROVE  /\ suspect \subseteq suspect' \/ Finish(t)
         /\ task'[t].step \in COUNTED => task'[t].docs \subseteq suspect'
         /\ \A w \in late' \ late : w[1] \in suspect
         /\ \A d \in Docs : row'[d] = "indexed" => row[d] = "indexed" \/ Finish(t)
         /\ task'[t].step \in {"end", "finish"} =>
               VectorsUpsert(t) \/ (VectorsDelete(t) /\ task[t].space = "none") \/ EndMutation(t)
<1> DEFINE Goal == 
         /\ suspect \subseteq suspect' \/ Finish(t)
         /\ task'[t].step \in COUNTED => task'[t].docs \subseteq suspect'
         /\ \A w \in late' \ late : w[1] \in suspect
         /\ \A d \in Docs : row'[d] = "indexed" => row[d] = "indexed" \/ Finish(t)
         /\ task'[t].step \in {"end", "finish"} =>
               VectorsUpsert(t) \/ (VectorsDelete(t) /\ task[t].space = "none") \/ EndMutation(t)
<1>0. /\ task[t] \in TASKS /\ Shape(task[t]) /\ task \in [Tasks -> TASKS] /\ row \in [Docs -> ROWS]
      /\ task[t].step \in COUNTED => task[t].docs \subseteq suspect
  BY DEF Types, Suspected
<1>a. task[t].step \notin {"idle", "begin", "forget"} => Doc(t) \in Docs /\ task[t].docs = {Doc(t)}
  BY <1>0, DocIn DEF Shape
<1>b. ASSUME NEW s, Go(t, s) PROVE task'[t].step = s /\ task'[t].docs = task[t].docs
  BY <1>b, <1>0 DEF Go, TASKS
<1>c. Free(t) => task'[t].step = "idle"
  BY <1>0 DEF Free, Idle
<1>d. ASSUME NEW d \in Docs, NEW s \in ROWS \ {"indexed"}, Commit(d, s)
      PROVE  \A e \in Docs : row'[e] = "indexed" => row[e] = "indexed"
  BY <1>0, <1>d DEF Commit
<1>e. ASSUME Free(t), UNCHANGED <<suspect, late>>, \/ UNCHANGED row
                                                   \/ \E d \in Docs, s \in ROWS \ {"indexed"} : Commit(d, s)
      PROVE Goal
  BY <1>e, <1>c, <1>d DEF COUNTED
<1>f. {"error", "extracted", "indexing", "extracting"} \subseteq ROWS \ {"indexed"}
  BY DEF ROWS, TRANSIENT_DOCUMENT_STATES
<1>1. ASSUME NEW d \in Docs, Upload(t, d) PROVE Goal
  <2>1. task'[t].step = "store" /\ task'[t].docs = {d}
    BY <1>1, <1>0 DEF Upload, Idle
  <2> QED  BY <2>1, <1>1 DEF Upload, content
<1>2. ASSUME NEW d \in Docs, ReindexAsk(t, d) PROVE Goal
  <2>1. task'[t].step = "claim"
    BY <1>2, <1>0 DEF ReindexAsk, Idle
  <2> QED  BY <2>1, <1>2 DEF ReindexAsk, content, COUNTED
<1>3. ASSUME NEW ds \in SUBSET Docs, NEW whole \in BOOLEAN, DeleteAsk(t, ds, whole) PROVE Goal
  <2>1. task'[t].step = "begin"
    BY <1>3, <1>0 DEF DeleteAsk, Idle
  <2> QED  BY <2>1, <1>3 DEF DeleteAsk, content, COUNTED
<1>4. CASE Uploaded(t)
  <2>1. task'[t].step = "start" /\ Doc(t) \in Docs
    BY <1>4, <1>a, <1>b DEF Uploaded
  <2>2. row' = [row EXCEPT ![Doc(t)] = "extracting"] /\ UNCHANGED <<suspect, late>>
    BY <1>4 DEF Uploaded
  <2> QED  BY <2>1, <2>2, <1>0 DEF COUNTED
<1>5. CASE UploadFails(t)
  BY <1>5, <1>e DEF UploadFails
<1>6. CASE Start(t)
  <2>1. Doc(t) \in Docs /\ UNCHANGED <<suspect, late>>
    BY <1>6, <1>a DEF Start
  <2>2. CASE Free(t) /\ UNCHANGED row
    BY <2>1, <2>2, <1>e
  <2>3. CASE Failed(t)
    BY <2>1, <2>3, <1>e, <1>f DEF Failed
  <2>4. CASE task'[t].step \in {"extract", "index"} /\ UNCHANGED row
    BY <2>1, <2>4 DEF COUNTED
  <2>5. task' = [task EXCEPT ![t].step = "index", ![t].text = stored[Doc(t)]] => task'[t].step = "index"
    BY <1>0 DEF TASKS
  <2> QED  BY <1>6, <1>b, <2>2, <2>3, <2>4, <2>5 DEF Start
<1>7. ASSUME NEW text \in {"text", "empty", "none"}, Extract(t, text) PROVE Goal
  <2>1. Doc(t) \in Docs /\ UNCHANGED <<suspect, late>>
    BY <1>7, <1>a DEF Extract
  <2>2. CASE Failed(t)
    BY <2>1, <2>2, <1>e, <1>f DEF Failed
  <2>3. CASE /\ Commit(Doc(t), "extracted")
             /\ task' = [task EXCEPT ![t].step = "index", ![t].text = text]
    <3>1. task'[t].step = "index"
      BY <2>3, <1>0 DEF TASKS
    <3>2. \A e \in Docs : row'[e] = "indexed" => row[e] = "indexed"
      BY <2>1, <2>3, <1>d, <1>f
    <3> QED  BY <2>1, <3>1, <3>2 DEF COUNTED
  <2> QED  BY <1>7, <2>2, <2>3 DEF Extract
<1>8. CASE IndexStart(t) \/ ReindexClaim(t)
  <2>1. Doc(t) \in Docs /\ UNCHANGED <<suspect, late>>
    BY <1>8, <1>a DEF IndexStart, ReindexClaim
  <2>2. CASE (Commit(Doc(t), "indexing") \/ Claimed(Doc(t))) /\ \E s \in {"resolve", "start"} : Go(t, s)
    <3>1. \A e \in Docs : row'[e] = "indexed" => row[e] = "indexed"
      BY <2>1, <2>2, <1>0, <1>d, <1>f DEF Claimed
    <3> QED  BY <2>1, <2>2, <3>1, <1>b DEF COUNTED
  <2>3. CASE Free(t) /\ UNCHANGED row
    BY <2>1, <2>3, <1>e
  <2> QED  BY <1>8, <2>2, <2>3 DEF IndexStart, ReindexClaim
<1>9. CASE Resolve(t)
  <2>1. Doc(t) \in Docs /\ UNCHANGED <<suspect, late>>
    BY <1>9, <1>a DEF Resolve
  <2>2. CASE Failed(t)
    BY <2>1, <2>2, <1>e, <1>f DEF Failed
  <2>3. CASE Go(t, "begin") /\ UNCHANGED row
    BY <2>1, <2>3, <1>b DEF COUNTED
  <2>4. ASSUME NEW i \in serving, task' = [task EXCEPT ![t].step = "begin", ![t].space = i], UNCHANGED row
        PROVE  Goal
    <3>1. task'[t].step = "begin"
      BY <2>4, <1>0 DEF TASKS
    <3> QED  BY <2>1, <2>4, <3>1 DEF COUNTED
  <2> QED  BY <1>9, <2>2, <2>3, <2>4 DEF Resolve
<1>10. CASE BeginMutation(t)
  <2>1. /\ suspect' = suspect \cup task[t].docs /\ UNCHANGED <<row, late>>
        /\ \E s \in {"forget", "delete", "bind"} : Go(t, s)
    BY <1>10 DEF BeginMutation, content
  <2> QED  BY <2>1, <1>b
<1>11. CASE Bind(t)
  <2>1. Doc(t) \in Docs /\ UNCHANGED <<suspect, late>> /\ task[t].step = "bind"
    BY <1>11, <1>a DEF Bind
  <2>2. CASE Failed(t)
    BY <2>1, <2>2, <1>e, <1>f DEF Failed
  <2>3. CASE Go(t, "delete") /\ UNCHANGED row
    BY <2>1, <2>3, <1>0, <1>b DEF COUNTED
  <2> QED  BY <1>11, <2>2, <2>3 DEF Bind
<1>12. CASE VectorsDelete(t)
  <2>1. UNCHANGED <<row, suspect, late>> /\ task'[t].docs = task[t].docs /\ task[t].step \in COUNTED
        /\ (task'[t].step = "end" => task[t].space = "none") /\ task'[t].step \in {"end", "upsert"}
    BY <1>12, <1>b DEF VectorsDelete, COUNTED
  <2> QED  BY <2>1, <1>12, <1>0
<1>13. CASE VectorsUpsert(t)
  <2>1. UNCHANGED <<row, suspect, late>> /\ task'[t].docs = task[t].docs /\ task[t].step \in COUNTED
    BY <1>13, <1>b DEF VectorsUpsert, COUNTED
  <2> QED  BY <2>1, <1>13, <1>0
<1>14. CASE EndMutation(t)
  <2>1. UNCHANGED <<row, suspect, late>> /\ task'[t].step = "finish"
    BY <1>14, <1>b DEF EndMutation, content
  <2> QED  BY <2>1, <1>14 DEF COUNTED
<1>15. CASE VectorsFail(t)
  <2>1. Doc(t) \in Docs /\ UNCHANGED suspect /\ Failed(t) /\ Doc(t) \in suspect
    BY <1>15, <1>0, <1>a DEF VectorsFail, COUNTED
  <2>2. \A w \in late' \ late : w[1] = Doc(t)
    BY <1>15 DEF VectorsFail
  <2>3. \A e \in Docs : row'[e] = "indexed" => row[e] = "indexed"
    BY <2>1, <1>d, <1>f DEF Failed
  <2> QED  BY <2>1, <2>2, <2>3, <1>c DEF Failed, COUNTED
<1>16. CASE Finish(t)
  BY <1>16, <1>c DEF Finish, COUNTED
<1>17. ASSUME NEW d \in Docs, Forget(t, d) PROVE Goal
  <2>1. task'[t].docs = task[t].docs /\ task'[t].step = "forget" /\ task[t].step = "forget"
    BY <1>17, <1>0 DEF Forget, TASKS
  <2> QED  BY <2>1, <1>17, <1>0 DEF Forget, COUNTED
<1>18. ASSUME NEW d \in Docs, ForgetFails(t, d) PROVE Goal
  <2>1. d \in suspect
    BY <1>18, <1>0 DEF ForgetFails, Shape, COUNTED
  <2>2. \A w \in late' \ late : w[1] = d
    BY <1>18 DEF ForgetFails
  <2> QED  BY <2>1, <2>2, <1>18, <1>c DEF ForgetFails, COUNTED
<1>19. CASE DeleteCommit(t)
  <2>1. UNCHANGED <<suspect, late>> /\ Free(t)
    BY <1>19 DEF DeleteCommit
  <2>2. \A e \in Docs : row'[e] = "indexed" => row[e] = "indexed"
    BY <1>19, <1>0 DEF DeleteCommit
  <2> QED  BY <2>1, <2>2, <1>c DEF COUNTED
<1> QED
  BY <1>1, <1>2, <1>3, <1>4, <1>5, <1>6, <1>7, <1>8, <1>9, <1>10, <1>11, <1>12, <1>13, <1>14, <1>15, <1>16, <1>17,
     <1>18, <1>19
  DEF Asked, Ingestion, Deletion

\* What is there stays there, unless its bytes are replaced by who is alone with them, or its
\* passages deleted to be written again, or to be forgotten.
LEMMA FoundKept ==
  ASSUME KnowledgeBaseAssumption, Types, OneSpace, OneText, NEW t \in Tasks,
         Asked(t) \/ Ingestion(t) \/ Deletion(t), NEW d \in Docs, Found(d)
  PROVE  \/ Found(d)'
         \/ d \in task[t].docs /\ task[t].kind = "ingest" /\ task[t].step \in EARLY
         \/ d \in task[t].docs /\ task[t].step = "delete" /\ VectorsDelete(t)
         \/ d \in task[t].docs /\ task[t].step = "forget" /\ GivesUp(t)
<1>0. /\ task[t] \in TASKS /\ Shape(task[t]) /\ points \in [Docs -> Spaces \cup {"legacy"}]
      /\ stored \in [Docs -> {"none", "original", "text", "empty"}]
  BY DEF Types
<1>1. fence'.identity = fence.identity \/ fence.identity = "none"
  BY TaskSpace
<1>2. stored'[d] \in {stored[d], "none"} \/ (d \in task[t].docs /\ task[t].kind = "ingest" /\ task[t].step \in EARLY)
  BY TaskRows
<1>3. CASE points'[d] = points[d]
  BY <1>1, <1>2, <1>3 DEF Found
<1>4. CASE points'[d] # points[d]
  <2>1. t \in Counted
    BY <1>4, OnlyCountedWrite
  <2>2. VectorsDelete(t) \/ VectorsUpsert(t) \/ (\E e \in Docs : Forget(t, e) \/ ForgetFails(t, e))
    <3>1. CASE Asked(t)
      BY <3>1, <1>4 DEF Asked, Upload, ReindexAsk, DeleteAsk, content
    <3>2. CASE Ingestion(t)
      BY <3>2, <1>4 DEF Ingestion, Uploaded, UploadFails, ReindexClaim, Start, Extract, IndexStart, Resolve,
                        BeginMutation, Bind, VectorsFail, EndMutation, Finish, content
    <3>3. CASE Deletion(t)
      BY <3>3, <1>4 DEF Deletion, DeleteCommit
    <3> QED  BY <3>1, <3>2, <3>3
  <2>3. CASE VectorsDelete(t)
    <3>1. d = Doc(t) /\ task[t].docs = {Doc(t)}
      BY <2>3, <1>0, <1>4, DocIn DEF VectorsDelete, Shape
    <3> QED  BY <2>3, <3>1 DEF VectorsDelete
  <2>4. CASE VectorsUpsert(t)
    <3>1. task[t].space = fence.identity /\ task[t].space # "none" /\ fence' = fence
      BY <2>4, <1>0 DEF VectorsUpsert, OneSpace, Shape
    <3>2. points'[d] = task[t].space
      BY <2>4, <1>0, <1>4 DEF VectorsUpsert
    <3> QED  BY <3>1, <3>2 DEF Found
  <2>5. ASSUME NEW e \in Docs, Forget(t, e) PROVE Found(d)'
    <3>1. e = d /\ stored'[d] = "none"
      BY <2>5, <1>0, <1>4 DEF Forget
    <3> QED  BY <3>1 DEF Found
  <2>6. ASSUME NEW e \in Docs, ForgetFails(t, e)
        PROVE  d \in task[t].docs /\ task[t].step = "forget" /\ GivesUp(t)
    <3>1. e = d /\ task[t].kind = "delete" /\ task[t].step = "forget" /\ UNCHANGED <<fence, coll>>
      BY <2>6, <1>0, <1>4 DEF ForgetFails, Shape
    <3>2. d \in task[t].docs
      BY <2>6, <1>0, <3>1 DEF ForgetFails, Shape
    <3>3. task'[t].step = "idle"
      BY <2>6 DEF ForgetFails, Free, Types, Idle
    <3>4. t \notin Counted'
      BY <3>3 DEF Counted, COUNTED
    <3> QED  BY <2>1, <3>1, <3>2, <3>4 DEF GivesUp
  <2> QED  BY <2>2, <2>3, <2>4, <2>5, <2>6
<1> QED  BY <1>3, <1>4

\* After a step of a task the fence counts what is under way, and that alone, only if it did before.
LEMMA WholeBefore ==
  ASSUME KnowledgeBaseAssumption, Types, Fence, NEW t \in Tasks, Asked(t) \/ Ingestion(t) \/ Deletion(t), Whole'
  PROVE  Whole /\ ~GivesUp(t)
<1>0. fence.dirty \in Nat /\ Cardinality(Counted) \in Nat /\ Cardinality(Counted) <= fence.dirty
  BY CountedFinite DEF Types, Fence
<1>1. PICK x \in TASKS : task' = [task EXCEPT ![t] = x]
  BY TaskSteps
<1>2. t \in Counted' <=> x.step \in COUNTED
  BY <1>1 DEF Counted, Types
<1>3. Cardinality(Counted') \in Nat
  <2>1. Counted' \subseteq Tasks
    BY DEF Counted
  <2> QED  BY <2>1, FS_Subset, FS_CardinalityType DEF KnowledgeBaseAssumption
<1>4. Cardinality(Counted') = fence'.dirty
  BY DEF Whole
<1>5. /\ t \in Counted /\ t \in Counted' => Cardinality(Counted') = Cardinality(Counted)
      /\ t \notin Counted /\ t \notin Counted' => Cardinality(Counted') = Cardinality(Counted)
      /\ t \notin Counted /\ t \in Counted' => Cardinality(Counted') = Cardinality(Counted) + 1
      /\ t \in Counted /\ t \notin Counted' => Cardinality(Counted') + 1 = Cardinality(Counted)
  BY <1>1, <1>2, CountMoves
<1>6. ~GivesUp(t)
  BY <1>0, <1>3, <1>4, <1>5 DEF GivesUp
<1>7. CASE Begins(t)
  BY <1>7, <1>0, <1>4, <1>5, <1>6 DEF Begins, Whole
<1>8. CASE Ends(t)
  BY <1>8, <1>0, <1>3, <1>4, <1>5, <1>6 DEF Ends, Whole
<1>9. CASE GoesOn(t)
  BY <1>9, <1>0, <1>4, <1>5, <1>6 DEF GoesOn, Whole
<1> QED  BY <1>6, <1>7, <1>8, <1>9, TaskFence

\* Under a clean fence nothing is under way and nothing is lost.
LEMMA CleanIsWhole ==
  ASSUME KnowledgeBaseAssumption, Types, Fence, ~(fence.dirty > 0)
  PROVE  Whole /\ Counted = {} /\ late = {} /\ fence.dirty = 0
<1>1. fence.dirty = 0 /\ Cardinality(Counted) = 0 /\ late = {}
  BY CountedFinite DEF Types, Fence
<1> QED  BY <1>1, CountedFinite, FS_EmptySet DEF Whole

\* A task that finishes and leaves its document unsuspected leaves its passages too.
LEMMA FinishFinds ==
  ASSUME KnowledgeBaseAssumption, Types, Fence, Searchable, NEW t \in Tasks, Finish(t)
  PROVE  /\ task[t].docs = {Doc(t)} /\ Doc(t) \in Docs
         /\ \A d \in Docs \ {Doc(t)} : row'[d] = row[d] /\ (d \in suspect <=> d \in suspect')
         /\ Doc(t) \in suspect' => Doc(t) \in suspect
         /\ Doc(t) \notin suspect' => Found(Doc(t))
         /\ suspect' # suspect => Counted = {} /\ late = {}
<1>1. task[t].docs = {Doc(t)} /\ Doc(t) \in Docs /\ task[t].step = "finish"
  <2>1. Shape(task[t])
    BY DEF Types
  <2> QED  BY <2>1, DocIn DEF Finish, Shape
<1>2. (UNCHANGED row \/ row' = [row EXCEPT ![Doc(t)] = IF @ = "none" THEN @ ELSE "indexed"])
      /\ suspect' = IF fence.dirty > 0 THEN suspect ELSE suspect \ {Doc(t)}
  BY DEF Finish, Commit
<1>3. \A d \in Docs \ {Doc(t)} : row'[d] = row[d]
  BY <1>2 DEF Types
<1>4. Leaves(t)
  BY DEF Searchable
<1>5. CASE fence.dirty > 0
  BY <1>1, <1>2, <1>3, <1>4, <1>5 DEF Leaves
<1>6. CASE ~(fence.dirty > 0)
  <2>1. Whole /\ Counted = {} /\ late = {}
    BY <1>6, CleanIsWhole
  <2>2. \A o \in Tasks : task[o].step # "upsert"
    BY <2>1 DEF Counted, COUNTED
  <2>3. Found(Doc(t))
    BY <1>1, <1>4, <2>1, <2>2 DEF Leaves
  <2> QED  BY <1>1, <1>2, <1>3, <1>6, <2>1, <2>3
<1> QED  BY <1>5, <1>6

LEMMA SearchTask ==
  ASSUME KnowledgeBaseAssumption, Types, Fence, OneSpace, OneText, Searchable, NEW t \in Tasks,
         Asked(t) \/ Ingestion(t) \/ Deletion(t)
  PROVE  Searchable'
<1>0. /\ task[t] \in TASKS /\ Shape(task[t]) /\ task \in [Tasks -> TASKS] /\ row \in [Docs -> ROWS]
      /\ \A o \in Tasks : task[o].docs \subseteq Docs
  BY DEF Types, TASKS
<1>1. PICK x \in TASKS : Shape(x) /\ task' = [task EXCEPT ![t] = x]
  BY TaskSteps
<1>2. \A o \in Tasks \ {t} : task'[o] = task[o]
  BY <1>0, <1>1
<1>3. /\ suspect \subseteq suspect' \/ Finish(t)
      /\ task'[t].step \in COUNTED => task'[t].docs \subseteq suspect'
      /\ \A w \in late' \ late : w[1] \in suspect
      /\ \A d \in Docs : row'[d] = "indexed" => row[d] = "indexed" \/ Finish(t)
      /\ task'[t].step \in {"end", "finish"} =>
            VectorsUpsert(t) \/ (VectorsDelete(t) /\ task[t].space = "none") \/ EndMutation(t)
  BY TaskSuspects DEF Searchable
<1>4. Suspected'
  <2>1. CASE Finish(t) /\ suspect' # suspect
    <3>1. Counted = {} /\ late = {} /\ late' = late
      BY <2>1, FinishFinds DEF Finish
    <3>2. \A o \in Tasks : task'[o].step \notin COUNTED
      <4>1. task'[t].step = "idle"
        BY <2>1, <1>0 DEF Finish, Free, Idle
      <4> QED  BY <4>1, <3>1, <1>2 DEF Counted, COUNTED
    <3> QED  BY <3>1, <3>2 DEF Suspected
  <2>2. CASE ~(Finish(t) /\ suspect' # suspect)
    <3>1. suspect \subseteq suspect'
      BY <2>2, <1>3
    <3>2. \A o \in Tasks : task'[o].step \in COUNTED => task'[o].docs \subseteq suspect'
      <4> SUFFICES ASSUME NEW o \in Tasks, o # t, task'[o].step \in COUNTED PROVE task'[o].docs \subseteq suspect'
        BY <1>3
      <4>1. task'[o] = task[o]
        BY <1>2
      <4> QED  BY <4>1, <3>1 DEF Searchable, Suspected
    <3>3. \A w \in late' : w[1] \in suspect'
      BY <3>1, <1>3 DEF Searchable, Suspected
    <3> QED  BY <3>2, <3>3 DEF Suspected
  <2> QED  BY <2>1, <2>2
<1>5. Rebuilt'
  <2>1. rebuild' = NoRebuild
    BY TaskData, TaskNeedsUp DEF Fence
  <2> QED  BY <2>1 DEF Rebuilt, NoRebuild
<1>6. ASSUME NEW d \in Docs, Found(d), d \notin suspect'
      PROVE  Found(d)' \/ (d \in task[t].docs /\ task[t].kind = "ingest" /\ task[t].step \in EARLY)
  <2>1. task[t].step \in {"delete", "forget"} => ~Finish(t) /\ task[t].docs \subseteq suspect
    BY DEF Finish, Searchable, Suspected, COUNTED
  <2> QED  BY <1>3, <1>6, <2>1, FoundKept
<1>7. ~fence'.requires => \A d \in Docs \ suspect' : row'[d] = "indexed" => Found(d)'
  <2> SUFFICES ASSUME ~fence'.requires, NEW d \in Docs \ suspect', row'[d] = "indexed" PROVE Found(d)'
    OBVIOUS
  <2>1. fence'.requires = fence.requires
    BY TaskSpace
  <2>2. CASE Finish(t) /\ d = Doc(t)
    <3>1. Found(d) /\ task[t].step \notin EARLY
      BY <2>2, FinishFinds DEF Finish, EARLY
    <3> QED  BY <3>1, <1>6
  <2>3. CASE ~(Finish(t) /\ d = Doc(t))
    <3>1. row[d] = "indexed" /\ d \notin suspect
      BY <2>3, <1>3, FinishFinds
    <3>2. Found(d)
      BY <3>1, <2>1 DEF Searchable
    <3>3. ~(d \in task[t].docs /\ task[t].kind = "ingest" /\ task[t].step \in EARLY)
      BY <3>1 DEF OneText, Alone
    <3> QED  BY <3>2, <3>3, <1>6
  <2> QED  BY <2>2, <2>3
<1>8. ASSUME NEW o \in Tasks \ {t} PROVE Leaves(o)'
  <2>1. task'[o] = task[o] /\ Leaves(o) /\ task[o].docs \subseteq Docs
    BY <1>0, <1>2 DEF Searchable
  <2> SUFFICES ASSUME NEW d \in task[o].docs, task[o].step \in {"end", "finish"}
               PROVE  /\ task[o].step = "finish" => d \in suspect' \/ Found(d)'
                      /\ /\ Whole' /\ task[o].step \in {"end", "finish"}
                         /\ \A u \in Tasks : task'[u].step = "upsert" => d \notin task'[u].docs
                         => Found(d)'
    BY <2>1 DEF Leaves
  <2>2. ~(d \in task[t].docs /\ task[t].kind = "ingest" /\ task[t].step \in EARLY)
    <3>1. ~Bystander(task[o])
      BY DEF Types, Shape, Bystander
    <3> QED  BY <3>1 DEF OneText, Alone
  <2>3. ASSUME task[o].step = "finish", d \notin suspect' PROVE Found(d)'
    <3>1. CASE d \notin suspect
      <4>1. Found(d)
        BY <2>1, <2>3, <3>1 DEF Leaves
      <4> QED  BY <2>1, <2>2, <2>3, <4>1, <1>6
    <3>2. CASE d \in suspect
      <4>1. Finish(t) /\ d = Doc(t)
        BY <2>1, <2>3, <3>2, <1>3, FinishFinds
      <4>2. Found(d)
        BY <4>1, <2>3, FinishFinds
      <4> QED  BY <2>1, <2>2, <2>3, <4>2, <1>6
    <3> QED  BY <3>1, <3>2
  <2>4. ASSUME Whole', task[o].step \in {"end", "finish"},
               \A u \in Tasks : task'[u].step = "upsert" => d \notin task'[u].docs
        PROVE  Found(d)'
    <3>1. Whole /\ ~GivesUp(t)
      BY <2>4, WholeBefore
    <3>2. CASE \A u \in Tasks : task[u].step = "upsert" => d \notin task[u].docs
      <4>1. Found(d)
        BY <2>1, <2>4, <3>1, <3>2 DEF Leaves
      <4>2. CASE d \in task[t].docs /\ VectorsDelete(t)
        <5>1. task[t].step = "delete" /\ task[t].kind # "delete" /\ task[t].docs = {Doc(t)}
          BY <4>2, <1>0, DocIn DEF VectorsDelete, Shape
        <5>2. task'[t].docs = task[t].docs /\ task'[t].step = (IF task[t].space = "none" THEN "end" ELSE "upsert")
          BY <4>2, <1>0 DEF VectorsDelete, Go, TASKS
        <5>3. task[t].space = "none"
          BY <4>2, <5>2, <2>4
        <5>4. task[t].text # "text" /\ stored[d] \in {task[t].text, "none"}
          BY <4>2, <5>1, <5>3, <1>0 DEF Shape, OneText, Agrees, LATER
        <5>5. stored' = stored
          BY <4>2 DEF VectorsDelete
        <5> QED  BY <5>4, <5>5 DEF Found
      <4> QED  BY <2>1, <2>2, <3>1, <4>1, <4>2, FoundKept
    <3>3. CASE \E u \in Tasks : task[u].step = "upsert" /\ d \in task[u].docs
      <4>1. task[t].step = "upsert" /\ d \in task[t].docs
        BY <3>3, <2>4, <1>2
      <4>2. t \in Counted
        BY <4>1 DEF Counted, COUNTED
      <4>3. VectorsUpsert(t)
        <5>1. VectorsUpsert(t) \/ VectorsFail(t)
          <6>0. task[t] # Idle
            BY <4>1 DEF Idle
          <6>1. ~Asked(t)
            BY <6>0 DEF Asked, Upload, ReindexAsk, DeleteAsk
          <6>2. ~Deletion(t)
            BY <4>1 DEF Deletion, DeleteCommit, Forget, ForgetFails
          <6>3. ~(Uploaded(t) \/ UploadFails(t) \/ ReindexClaim(t) \/ Start(t) \/ IndexStart(t) \/ Resolve(t)
                  \/ BeginMutation(t) \/ Bind(t) \/ VectorsDelete(t) \/ EndMutation(t) \/ Finish(t))
            BY <4>1 DEF Uploaded, UploadFails, ReindexClaim, Start, IndexStart, Resolve, BeginMutation, Bind,
                        VectorsDelete, EndMutation, Finish
          <6>4. ~(\E text \in {"text", "empty", "none"} : Extract(t, text))
            BY <4>1 DEF Extract
          <6> QED  BY <6>1, <6>2, <6>3, <6>4 DEF Ingestion
        <5>2. VectorsFail(t) => GivesUp(t)
          <6> SUFFICES ASSUME VectorsFail(t) PROVE GivesUp(t)
            OBVIOUS
          <6>1. task'[t].step = "idle" /\ UNCHANGED <<fence, coll>>
            BY <1>0 DEF VectorsFail, Failed, Free, Idle
          <6> QED  BY <6>1, <4>2 DEF GivesUp, Counted, COUNTED
        <5> QED  BY <5>1, <5>2, <3>1
      <4>4. d = Doc(t) /\ task[t].space # "none" /\ task[t].space = fence.identity /\ fence' = fence
        <5>1. task[t].kind # "delete" /\ task[t].space # "none" /\ task[t].space = fence.identity
          BY <4>1, <1>0 DEF Shape, OneSpace
        <5>2. task[t].docs = {Doc(t)}
          BY <4>1, <5>1, DocIn
        <5> QED  BY <4>1, <4>3, <5>1, <5>2 DEF VectorsUpsert
      <4>5. points'[d] = task[t].space
        BY <4>3, <4>4, <2>1 DEF VectorsUpsert, Types
      <4> QED  BY <4>4, <4>5 DEF Found
    <3> QED  BY <3>2, <3>3
  <2> QED  BY <2>3, <2>4
<1>9. Leaves(t)'
  <2> SUFFICES ASSUME NEW d \in task'[t].docs, task'[t].step \in {"end", "finish"}
               PROVE  /\ task'[t].step = "finish" => d \in suspect' \/ Found(d)'
                      /\ /\ Whole'
                         /\ \A u \in Tasks : task'[u].step = "upsert" => d \notin task'[u].docs
                         => Found(d)'
    BY DEF Leaves
  <2>1. CASE VectorsUpsert(t)
    <3>1. task[t].docs = {Doc(t)} /\ Doc(t) \in Docs /\ task[t].space # "none" /\ task[t].space = fence.identity
          /\ fence' = fence /\ task'[t].docs = task[t].docs
      BY <2>1, <1>0, DocIn DEF VectorsUpsert, Shape, OneSpace, Go, TASKS
    <3>2. points'[d] = task[t].space
      BY <2>1, <3>1 DEF VectorsUpsert, Types
    <3> QED  BY <3>1, <3>2 DEF Found
  <2>2. CASE VectorsDelete(t) /\ task[t].space = "none"
    <3>1. task[t].step = "delete" /\ task[t].kind # "delete" /\ stored' = stored /\ task'[t].docs = task[t].docs
      BY <2>2, <1>0 DEF VectorsDelete, Shape, Go, TASKS
    <3>2. task[t].text # "text" /\ stored[d] \in {task[t].text, "none"}
      BY <2>2, <3>1, <1>0 DEF Shape, OneText, Agrees, LATER
    <3> QED  BY <3>1, <3>2 DEF Found
  <2>3. CASE EndMutation(t)
    <3>1. /\ task[t].step = "end" /\ task'[t].step = "finish" /\ task'[t].docs = task[t].docs
          /\ UNCHANGED <<content, suspect>> /\ End
      BY <2>3, <1>0 DEF EndMutation, Go, TASKS
    <3>2. d \in suspect'
      BY <3>1 DEF Searchable, Suspected, COUNTED
    <3>3. ASSUME Whole', \A u \in Tasks : task'[u].step = "upsert" => d \notin task'[u].docs
          PROVE  Found(d)'
      <4>1. Whole
        BY <3>3, WholeBefore
      <4>2. \A u \in Tasks : task[u].step = "upsert" => d \notin task[u].docs
        BY <3>1, <3>3, <1>2
      <4>3. Found(d)
        BY <3>1, <4>1, <4>2 DEF Searchable, Leaves
      <4>4. fence'.identity = fence.identity
        BY <3>1, HasEnded DEF End
      <4> QED  BY <3>1, <4>3, <4>4 DEF Found, content
    <3> QED  BY <3>2, <3>3
  <2> QED  BY <1>3, <2>1, <2>2, <2>3
<1> QED  BY <1>4, <1>5, <1>7, <1>8, <1>9 DEF Searchable

LEMMA SearchStep ==
  ASSUME KnowledgeBaseAssumption, Types, Fence, OneSpace, OneText, Searchable, [Next]_vars
  PROVE  Searchable'
<1>0. points \in [Docs -> Spaces \cup {"legacy"}] /\ row \in [Docs -> ROWS]
  BY DEF Types
<1>1. CASE \E t \in Tasks : Asked(t) \/ Ingestion(t) \/ Deletion(t)
  BY <1>1, SearchTask
<1>2. CASE \/ \E g \in Readers : Grounding(g) \/ \E scope \in {"tenant", "collection"} : GroundRead(g, scope)
           \/ RecordExpires \/ UNCHANGED vars \/ \E i \in Identities : ServingChanges(i)
  <2>1. UNCHANGED <<row, stored, points, fence, task, late, rebuild, suspect>>
    <3>1. CASE \E g \in Readers : Grounding(g) \/ \E scope \in {"tenant", "collection"} : GroundRead(g, scope)
      BY <3>1, GroundingReads DEF Ground
    <3>2. CASE RecordExpires \/ UNCHANGED vars \/ \E i \in Identities : ServingChanges(i)
      BY <3>2 DEF RecordExpires, vars, ServingChanges, content
    <3> QED  BY <1>2, <3>1, <3>2
  <2>2. (Whole' <=> Whole) /\ \A d \in Docs : Found(d)' <=> Found(d)
    BY <2>1 DEF Whole, Counted, Found
  <2>3. \A t \in Tasks : task[t].docs \subseteq Docs
    BY DEF Types, TASKS
  <2>4. \A t \in Tasks : Leaves(t)'
    BY <2>1, <2>2, <2>3 DEF Searchable, Leaves
  <2> QED  BY <2>1, <2>2, <2>4 DEF Searchable, Suspected, Rebuilt
<1>3. CASE LateWrite
  <2>1. PICK w \in late : late' = late \ {w} /\ points' = [points EXCEPT ![w[1]] = w[2]]
    BY <1>3 DEF LateWrite
  <2>2. UNCHANGED <<row, stored, fence, task, rebuild, suspect>> /\ rebuild = NoRebuild /\ w[1] \in suspect
    BY <1>3, <2>1 DEF LateWrite, Fence, Searchable, Suspected
  <2>3. ~Whole'
    <3>1. Cardinality(Counted) < fence.dirty
      BY <2>1 DEF Fence
    <3> QED  BY <3>1, <2>2, CountedFinite DEF Whole, Counted, Types
  <2>4. \A d \in Docs \ suspect : Found(d) => Found(d)'
    BY <2>1, <2>2, <1>0 DEF Found
  <2>5. \A t \in Tasks : task[t].docs \subseteq Docs
    BY DEF Types, TASKS
  <2>6. \A t \in Tasks : Leaves(t)'
    BY <2>2, <2>3, <2>4, <2>5 DEF Searchable, Leaves
  <2>7. Suspected' /\ Rebuilt'
    BY <2>1, <2>2 DEF Searchable, Suspected, Rebuilt, NoRebuild
  <2> QED  BY <2>2, <2>4, <2>6, <2>7 DEF Searchable
<1>5. CASE Restart \/ Provision
  <2>1. UNCHANGED <<stored, points, fence, task, late, rebuild, suspect>> /\ rebuild = NoRebuild
        /\ \A d \in Docs : row'[d] = "indexed" => row[d] = "indexed"
    BY <1>5 DEF Restart, Provision, content
  <2>2. (Whole' <=> Whole) /\ \A d \in Docs : Found(d)' <=> Found(d)
    BY <2>1 DEF Whole, Counted, Found
  <2>3. \A t \in Tasks : task[t].docs \subseteq Docs
    BY DEF Types, TASKS
  <2>4. \A t \in Tasks : Leaves(t)'
    BY <2>1, <2>2, <2>3 DEF Searchable, Leaves
  <2> QED  BY <2>1, <2>2, <2>4 DEF Searchable, Suspected, Rebuilt, NoRebuild
<1>4. CASE Crash \/ Operator
  <2>1. \A t \in Tasks : task'[t] = Idle
    <3>1. CASE Crash
      BY <3>1 DEF Crash
    <3>2. CASE Operator
      BY <3>2 DEF Operator, Recover, RebuildStart, RebuildReset, RebuildDocument, RebuildFinish,
                  RebuildStops, WritersStopped, NoRebuild, Fence
    <3> QED  BY <1>4, <3>1, <3>2
  <2>2. \A t \in Tasks : Leaves(t)'
    BY <2>1 DEF Leaves, Idle
  <2>3. \A t \in Tasks : task'[t].step \notin COUNTED
    BY <2>1 DEF Idle, COUNTED
  <2>4. CASE Crash
    <3>1. UNCHANGED <<row, stored, points, fence, late, rebuild, suspect>>
      BY <2>4 DEF Crash, content
    <3>2. \A d \in Docs : Found(d)' <=> Found(d)
      BY <3>1 DEF Found
    <3> QED  BY <2>2, <2>3, <3>1, <3>2 DEF Searchable, Suspected, Rebuilt
  <2>6. CASE Operator
    <3>1. late = {} /\ late' = {}
      BY <2>6 DEF Operator, Recover, RebuildStart, RebuildReset, RebuildDocument, RebuildFinish,
                  RebuildStops, WritersStopped, NoRebuild, Fence
    <3>2. Suspected'
      BY <2>3, <3>1 DEF Suspected
    <3>3. ASSUME NEW i \in Identities, RebuildStart(i) PROVE Searchable'
      <4>1. fence'.requires /\ UNCHANGED content /\ rebuild'.step = "reset"
            /\ rebuild'.todo = {d \in Docs : row[d] \in REBUILT_STATES}
        BY <3>3 DEF RebuildStart, Types
      <4> QED  BY <2>2, <3>2, <4>1 DEF Searchable, Rebuilt, content
    <3>4. CASE Recover
      <4>1. fence'.requires = fence.requires /\ fence'.identity = fence.identity
            /\ UNCHANGED <<content, rebuild, suspect>>
        BY <3>4 DEF Recover, Types
      <4>2. \A d \in Docs : Found(d)' <=> Found(d)
        BY <4>1 DEF Found, content
      <4> QED  BY <2>2, <3>2, <4>1, <4>2 DEF Searchable, Rebuilt, content
    <3>5. CASE RebuildReset
      <4>1. rebuild.step = "reset" /\ rebuild # NoRebuild /\ UNCHANGED <<row, stored, fence, suspect>>
        BY <3>5 DEF RebuildReset, NoRebuild
      <4>2. rebuild'.step = "documents" /\ rebuild'.todo = rebuild.todo
        BY <3>5 DEF RebuildReset, Types
      <4>3. Rebuilt'
        BY <4>1, <4>2 DEF Searchable, Rebuilt, REBUILT_STATES
      <4> QED  BY <2>2, <3>2, <4>1, <4>3 DEF Searchable, OneSpace
    <3>6. ASSUME NEW d \in Docs, RebuildDocument(d) PROVE Searchable'
      <4>1. /\ rebuild.step = "documents" /\ rebuild # NoRebuild /\ UNCHANGED <<stored, fence>>
            /\ rebuild'.step = "documents" /\ rebuild'.todo = rebuild.todo \ {d} /\ rebuild'.space = rebuild.space
        BY <3>6 DEF RebuildDocument, NoRebuild, Types
      <4>2. /\ points'[d] = (IF stored[d] = "text" THEN rebuild.space ELSE "none")
            /\ \A e \in Docs \ {d} : points'[e] = points[e] /\ row'[e] = row[e]
        BY <3>6, <1>0 DEF RebuildDocument
      <4>3. Rebuilt'
        BY <4>1, <4>2 DEF Searchable, Rebuilt
      <4> QED  BY <2>2, <3>2, <4>1, <4>3 DEF Searchable, OneSpace
    <3>7. CASE RebuildFinish
      <4>1. /\ fence'.identity = rebuild.space /\ UNCHANGED <<content, suspect>> /\ rebuild' = NoRebuild
            /\ rebuild.step = "documents" /\ rebuild.todo = {}
        BY <3>7 DEF RebuildFinish, Types
      <4>2. rebuild.space # "none"
        BY <4>1 DEF NoRebuild, Types
      <4>3. \A d \in Docs : row[d] = "indexed" => Found(d)'
        BY <4>1, <4>2 DEF Searchable, Rebuilt, Found, content
      <4> QED  BY <2>2, <3>2, <4>1, <4>3 DEF Searchable, Rebuilt, NoRebuild, content
    <3>8. CASE RebuildStops
      <4>1. /\ UNCHANGED <<content, fence, suspect>> /\ rebuild' = NoRebuild
        BY <3>8 DEF RebuildStops
      <4>2. \A d \in Docs : Found(d)' <=> Found(d)
        BY <4>1 DEF Found, content
      <4> QED  BY <2>2, <3>2, <4>1, <4>2 DEF Searchable, Rebuilt, NoRebuild, content
    <3> QED  BY <2>6, <3>3, <3>4, <3>5, <3>6, <3>7, <3>8 DEF Operator
  <2> QED  BY <1>4, <2>4, <2>6
<1> QED
  BY <1>1, <1>2, <1>3, <1>4, <1>5 DEF Next

\* The two rows agree on what is under way at least, in the state every property of it reads.
LEMMA TypesShown ==
  ASSUME Types, Fence
  PROVE  TypeOK
<1>1. {t \in Tasks : task[t].step \in {"store", "bind", "delete", "upsert", "forget", "end"}} = Counted
  BY DEF Counted, COUNTED
<1> QED  BY <1>1 DEF Types, Fence, TypeOK, ROWS, Spaces

IndexInv == Types /\ Fence /\ OneSpace /\ OneText /\ Searchable

LEMMA IndexInit ==
  ASSUME KnowledgeBaseAssumption, Init
  PROVE  IndexInv
<1>1. Types /\ Fence
  BY FenceInit
<1>2. OneSpace
  <2>1. ~fence.requires => \A d \in Docs : points[d] \in {"none", fence.identity}
    BY DEF Init
  <2> QED  BY <2>1 DEF Init, OneSpace, Idle, NoRebuild
<1>3. OneText
  BY DEF Init, OneText, Alone, Agrees, Idle
<1>4. Searchable
  <2>1. ~fence.requires => \A d \in Docs : row[d] # "indexed"
    BY DEF Init
  <2>2. \A t \in Tasks : task[t] = Idle
    BY DEF Init
  <2> QED  BY <2>1, <2>2 DEF Init, Searchable, Suspected, Leaves, Rebuilt, Idle, NoRebuild, COUNTED
<1> QED  BY <1>1, <1>2, <1>3, <1>4 DEF IndexInv

\* The inductive invariant: what the fence counts, the space that is bound, the text that tasks
\* share, and who may have damaged a document's passages.
THEOREM IndexInvariant ==
  ASSUME KnowledgeBaseAssumption
  PROVE  Spec => []IndexInv
<1>1. IndexInv /\ [Next]_vars => IndexInv'
  BY TypesStep, FenceStep, SpaceStep, TextStep, SearchStep DEF IndexInv
<1> QED  BY IndexInit, <1>1, PTL DEF Spec

\* An index that claims to be whole is of one embedding space, and a document that reads INDEXED
\* under a clean fence has its passages: whatever was uploaded, re-indexed, deleted, given up on,
\* written late, crashed, recovered or rebuilt meanwhile.
THEOREM IndexStaysWhole ==
  ASSUME KnowledgeBaseAssumption
  PROVE  Spec => []IndexWhole
<1>1. IndexInv => IndexWhole
  <2> SUFFICES ASSUME IndexInv PROVE IndexWhole
    OBVIOUS
  <2>1. TypeOK
    BY TypesShown DEF IndexInv
  <2>2. SpaceConsistent
    BY DEF IndexInv, OneSpace, SpaceConsistent
  <2>3. IndexedSearchable
    BY DEF IndexInv, Searchable, Found, IndexedSearchable
  <2> QED  BY <2>1, <2>2, <2>3 DEF IndexWhole
<1> QED  BY IndexInvariant, <1>1, PTL

----------------------------------------------------------------------------
(* Grounding *)

SCOPES == {"tenant", "collection"}
Epoch(scope) == IF scope = "tenant" THEN fence.epoch ELSE coll.epoch
Alive(scope) == scope = "collection" => coll.alive

READERS == [step : {"idle", "lookup", "search", "check", "store", "confirm", "fresh", "answered"},
            scope : SCOPES, before : {<<>>} \cup (Nat \X Nat \X Spaces \X BOOLEAN \X BOOLEAN),
            found : SUBSET Docs, seen : SUBSET Docs, stable : BOOLEAN]
RECORDS == [key : SCOPES \X Spaces \X Nat, found : SUBSET Docs]

\* A reader whose answer may still become, or is, a stable one.
Grounds(q) ==
    \/ q.step \in {"lookup", "search", "check", "store", "confirm"}
    \/ q.step = "answered" /\ q.stable

\* While the epoch a reader read is the current one, what it saw is what is searchable; it found
\* that or nothing, and so did a record it may find.
Sound(q) ==
    /\ q.before # <<>>
    /\ q.before[1] <= Epoch(q.scope)
    /\ q.before[1] = Epoch(q.scope) => Alive(q.scope) /\ fence.dirty = 0 /\ Hits = q.seen
    /\ q.step = "check" /\ q.before[1] = Epoch(q.scope) => q.found \in {{}, q.seen}
    /\ q.step \in {"store", "confirm", "answered"} => q.found \in {{}, q.seen}
    /\ \A r \in records : r.key = Key(q) => r.found \in {{}, q.seen}

Recorded(r) ==
    /\ r.key[3] <= Epoch(r.key[1])
    /\ r.key[3] = Epoch(r.key[1]) => Alive(r.key[1]) /\ fence.dirty = 0 /\ r.found \in {{}, Hits}

OneEpoch ==
    /\ reader \in [Readers -> READERS] /\ records \subseteq RECORDS
    /\ \A g \in Readers : Grounds(reader[g]) => Sound(reader[g])
    /\ \A g, h \in Readers : Grounds(reader[g]) /\ Grounds(reader[h]) /\ Key(reader[g]) = Key(reader[h])
                             => reader[g].seen = reader[h].seen
    /\ \A r \in records : Recorded(r)

\* A step goes on to another epoch in both rows, or leaves epochs and counts as they are.
LEMMA EpochMoves ==
  ASSUME KnowledgeBaseAssumption, Types, Fence, [Next]_vars
  PROVE  \/ fence'.epoch = fence.epoch + 1 /\ coll'.epoch = coll.epoch + 1
         \/ /\ fence'.epoch = fence.epoch /\ fence'.dirty = fence.dirty
            /\ coll'.epoch = coll.epoch /\ coll'.alive = coll.alive
<1>1. CASE \E t \in Tasks : Asked(t) \/ Ingestion(t) \/ Deletion(t)
  BY <1>1, TaskFence DEF Begins, Ends, GivesUp, GoesOn
<1>2. CASE \E g \in Readers : Grounding(g) \/ \E scope \in {"tenant", "collection"} : GroundRead(g, scope)
  BY <1>2, GroundingReads DEF Ground
<1>3. CASE \/ RecordExpires \/ UNCHANGED vars \/ LateWrite \/ Crash \/ Restart \/ Provision
           \/ \E i \in Identities : ServingChanges(i)
  BY <1>3 DEF RecordExpires, vars, LateWrite, Crash, Restart, Provision, ServingChanges
<1>4. CASE Operator
  <2>1. ASSUME NEW i \in Identities, RebuildStart(i)
        PROVE  fence'.epoch = fence.epoch + 1 /\ coll'.epoch = coll.epoch + 1
    BY <2>1 DEF RebuildStart, Types
  <2>2. CASE Recover \/ RebuildFinish
    BY <2>2 DEF Recover, RebuildFinish, Types
  <2>3. CASE RebuildReset \/ RebuildStops \/ \E d \in Docs : RebuildDocument(d)
    BY <2>3 DEF RebuildReset, RebuildStops, RebuildDocument
  <2> QED  BY <1>4, <2>1, <2>2, <2>3 DEF Operator
<1> QED  BY <1>1, <1>2, <1>3, <1>4 DEF Next

\* Whoever does not ground leaves every reader and every record, or drops some.
LEMMA OthersKeepEpoch ==
  ASSUME KnowledgeBaseAssumption, Types, Fence, OneEpoch, [Next]_vars,
         records' \subseteq records, reader' \in [Readers -> READERS],
         \A g \in Readers : reader'[g] = reader[g] \/ reader'[g] = Quiet
  PROVE  OneEpoch'
<1>1. /\ fence.epoch \in Nat /\ coll.epoch \in Nat /\ fence.dirty \in Nat
      /\ \A q \in READERS : q.before # <<>> => q.before[1] \in Nat
      /\ \A r \in RECORDS : r.key[3] \in Nat /\ r.key[1] \in SCOPES
  BY DEF Types, READERS, RECORDS
<1>2. Quiet \in READERS /\ ~Grounds(Quiet)
  BY DEF Quiet, READERS, SCOPES, Grounds
<1>3. ASSUME NEW scope, NEW e \in Nat, e <= Epoch(scope),
             e = Epoch(scope) => Alive(scope) /\ fence.dirty = 0
      PROVE  /\ e <= Epoch(scope)'
             /\ e = Epoch(scope)' => e = Epoch(scope) /\ Alive(scope)' /\ fence'.dirty = 0 /\ Hits' = Hits
  <2>1. CASE fence'.epoch = fence.epoch + 1 /\ coll'.epoch = coll.epoch + 1
    BY <2>1, <1>1, <1>3 DEF Epoch
  <2>2. CASE /\ fence'.epoch = fence.epoch /\ fence'.dirty = fence.dirty
             /\ coll'.epoch = coll.epoch /\ coll'.alive = coll.alive
    <3>1. fence.dirty = 0 => points' = points
      BY ChangeIsFenced DEF FencedChange
    <3> QED  BY <2>2, <3>1, <1>3 DEF Epoch, Alive, Hits
  <2> QED  BY <2>1, <2>2, EpochMoves
<1>4. ASSUME NEW q \in READERS, Sound(q) PROVE Sound(q)'
  <2>1. q.before[1] \in Nat /\ q.before # <<>>
    BY <1>1, <1>4 DEF Sound
  <2>2. /\ q.before[1] <= Epoch(q.scope)'
        /\ q.before[1] = Epoch(q.scope)' =>
              q.before[1] = Epoch(q.scope) /\ Alive(q.scope)' /\ fence'.dirty = 0 /\ Hits' = Hits
    <3>1. q.before[1] <= Epoch(q.scope)
      BY <1>4 DEF Sound
    <3>2. q.before[1] = Epoch(q.scope) => Alive(q.scope) /\ fence.dirty = 0
      BY <1>4 DEF Sound
    <3> QED  BY <1>3, <2>1, <3>1, <3>2
  <2>3. \A r \in records' : r.key = Key(q) => r.found \in {{}, q.seen}
    BY <1>4 DEF Sound
  <2>4. q.before[1] = Epoch(q.scope) => Hits = q.seen
    BY <1>4 DEF Sound
  <2>5. /\ q.step = "check" /\ q.before[1] = Epoch(q.scope) => q.found \in {{}, q.seen}
        /\ q.step \in {"store", "confirm", "answered"} => q.found \in {{}, q.seen}
    BY <1>4 DEF Sound
  <2>6. q.before[1] = Epoch(q.scope)' => Alive(q.scope)' /\ fence'.dirty = 0 /\ Hits' = q.seen
    BY <2>2, <2>4
  <2>7. q.step = "check" /\ q.before[1] = Epoch(q.scope)' => q.found \in {{}, q.seen}
    BY <2>2, <2>5
  <2> QED  BY <2>1, <2>2, <2>3, <2>5, <2>6, <2>7 DEF Sound, Key
<1>5. ASSUME NEW r \in records PROVE Recorded(r)'
  <2>1. r.key[3] \in Nat /\ Recorded(r)
    BY <1>1 DEF OneEpoch
  <2>2. r.key[3] <= Epoch(r.key[1]) /\ (r.key[3] = Epoch(r.key[1]) => Alive(r.key[1]) /\ fence.dirty = 0)
    BY <2>1 DEF Recorded
  <2>3. /\ r.key[3] <= Epoch(r.key[1])'
        /\ r.key[3] = Epoch(r.key[1])' =>
              r.key[3] = Epoch(r.key[1]) /\ Alive(r.key[1])' /\ fence'.dirty = 0 /\ Hits' = Hits
    BY <1>3, <2>1, <2>2
  <2> QED  BY <2>1, <2>3 DEF Recorded
<1>6. ASSUME NEW g \in Readers, Grounds(reader[g])'
      PROVE  reader'[g] = reader[g] /\ Sound(reader[g])'
  <2>1. reader'[g] = reader[g] /\ Grounds(reader[g])
    BY <1>2, <1>6 DEF Grounds
  <2>2. Sound(reader[g]) /\ reader[g] \in READERS
    BY <2>1 DEF OneEpoch
  <2> DEFINE q == reader[g]
  <2>3. ASSUME NEW x \in READERS, x = reader[g] PROVE Sound(x)'
    BY <1>4, <2>2, <2>3
  <2>4. \A x \in READERS : x = reader[g] => Sound(x)'
    BY <2>3
  <2> QED  BY <2>1, <2>2, <2>4 DEF Sound, Key
<1>7. reader' \in [Readers -> READERS] /\ records' \subseteq RECORDS
  BY DEF OneEpoch
<1>8. \A g, h \in Readers :
        Grounds(reader[g])' /\ Grounds(reader[h])' /\ Key(reader[g])' = Key(reader[h])' => reader'[g].seen = reader'[h].seen
  <2> SUFFICES ASSUME NEW g \in Readers, NEW h \in Readers, Grounds(reader[g])', Grounds(reader[h])',
                      Key(reader[g])' = Key(reader[h])'
               PROVE  reader'[g].seen = reader'[h].seen
    OBVIOUS
  <2>1. reader'[g] = reader[g] /\ reader'[h] = reader[h]
    BY <1>6
  <2>2. Grounds(reader[g]) /\ Grounds(reader[h]) /\ Key(reader[g]) = Key(reader[h])
    BY <2>1 DEF Grounds, Key
  <2> QED  BY <2>1, <2>2 DEF OneEpoch
<1>9. \A r \in records' : Recorded(r)'
  BY <1>5
<1> QED  BY <1>6, <1>7, <1>8, <1>9 DEF OneEpoch, READERS, RECORDS, SCOPES

\* A key says whose it is.
LEMMA KeySays ==
  ASSUME NEW p, NEW q, Key(p) = Key(q)
  PROVE  p.scope = q.scope /\ p.before[3] = q.before[3] /\ p.before[1] = q.before[1]
  BY DEF Key

\* One reader's step, made while nothing it reads changes.
LEMMA OneReaderSteps ==
  ASSUME OneEpoch, NEW g \in Readers, NEW q \in READERS, reader' = [reader EXCEPT ![g] = q],
         UNCHANGED <<fence, coll, points, records>>,
         Grounds(q) => Sound(q),
         Grounds(q) => \A h \in Readers : Grounds(reader[h]) /\ Key(reader[h]) = Key(q) => reader[h].seen = q.seen
  PROVE  OneEpoch'
<1>1. reader' \in [Readers -> READERS] /\ reader'[g] = q /\ \A h \in Readers : h # g => reader'[h] = reader[h]
  BY DEF OneEpoch
<1>2. ASSUME NEW h \in Readers, Grounds(reader[h])' PROVE Sound(reader[h])'
  <2>1. Grounds(reader'[h])
    BY <1>2 DEF Grounds
  <2>2. Sound(reader'[h])
    BY <1>1, <2>1 DEF OneEpoch
  <2> QED  BY <2>2 DEF Sound, Epoch, Alive, Hits, Key
<1>3. ASSUME NEW h \in Readers, NEW o \in Readers, Grounds(reader[h])', Grounds(reader[o])',
             Key(reader[h])' = Key(reader[o])'
      PROVE  reader'[h].seen = reader'[o].seen
  <2>1. Grounds(reader'[h]) /\ Grounds(reader'[o]) /\ Key(reader'[h]) = Key(reader'[o])
    BY <1>3 DEF Grounds, Key
  <2>2. CASE h # g /\ o # g
    BY <1>1, <2>1, <2>2 DEF OneEpoch
  <2>3. CASE h = g /\ o # g
    BY <1>1, <2>1, <2>3
  <2>4. CASE h # g /\ o = g
    BY <1>1, <2>1, <2>4
  <2>5. CASE h = g /\ o = g
    BY <2>5
  <2> QED  BY <2>2, <2>3, <2>4, <2>5
<1>4. \A r \in records' : Recorded(r)'
  BY DEF OneEpoch, Recorded, Epoch, Alive, Hits
<1>5. records' \subseteq RECORDS
  BY DEF OneEpoch
<1> QED  BY <1>1, <1>2, <1>3, <1>4, <1>5 DEF OneEpoch, READERS, RECORDS, SCOPES

\* A reader that keeps what it read and saw goes on soundly if what it found is sound.
LEMMA ReaderGoesOn ==
  ASSUME OneEpoch, NEW g \in Readers, NEW q \in READERS, reader' = [reader EXCEPT ![g] = q],
         UNCHANGED <<fence, coll, points, records>>,
         q.scope = reader[g].scope, q.before = reader[g].before, q.seen = reader[g].seen,
         Grounds(q) => Grounds(reader[g]),
         Grounds(q) /\ q.step = "check" /\ q.before[1] = Epoch(q.scope) => q.found \in {{}, q.seen},
         Grounds(q) /\ q.step \in {"store", "confirm", "answered"} => q.found \in {{}, q.seen}
  PROVE  OneEpoch'
<1>1. Key(q) = Key(reader[g])
  BY DEF Key
<1>2. Grounds(q) => Sound(q)
  <2> SUFFICES ASSUME Grounds(q) PROVE Sound(q)
    OBVIOUS
  <2>1. Sound(reader[g])
    BY DEF OneEpoch
  <2> QED  BY <1>1, <2>1 DEF Sound
<1>3. Grounds(q) => \A h \in Readers : Grounds(reader[h]) /\ Key(reader[h]) = Key(q) => reader[h].seen = q.seen
  BY <1>1 DEF OneEpoch
<1> QED  BY <1>2, <1>3, OneReaderSteps

\* A reader that gives up, or answers from what is searchable now, promises nothing.
LEMMA ReaderLetsGo ==
  ASSUME OneEpoch, NEW g \in Readers, NEW q \in READERS, reader' = [reader EXCEPT ![g] = q],
         UNCHANGED <<fence, coll, points, records>>, ~Grounds(q)
  PROVE  OneEpoch'
  BY OneReaderSteps

\* An answer that is not stable.
LEMMA AnswersLoosely ==
  ASSUME OneEpoch, NEW g \in Readers, NEW found \in SUBSET Docs, Answered(g, found),
         UNCHANGED <<fence, coll, points, records>>
  PROVE  OneEpoch'
<1> DEFINE q == [reader[g] EXCEPT !.step = "answered", !.found = found, !.stable = FALSE]
<1>1. q \in READERS /\ q.step = "answered" /\ ~q.stable
  BY DEF OneEpoch, READERS
<1>2. reader' = [reader EXCEPT ![g] = q]
  BY DEF Answered, OneEpoch
<1>3. ~Grounds(q)
  BY <1>1 DEF Grounds
<1> HIDE DEF q
<1> QED  BY <1>1, <1>2, <1>3, ReaderLetsGo

\* What a view tells of the epoch it was read at.
LEMMA ViewSays ==
  ASSUME Types, Fence, NEW scope \in SCOPES, View(scope) # <<>>
  PROVE  /\ View(scope)[1] = Epoch(scope) /\ Alive(scope) /\ View(scope)[3] = fence.identity
         /\ View(scope) \in Nat \X Nat \X Spaces \X BOOLEAN \X BOOLEAN
         /\ View(scope)[2] = 0 => fence.dirty = 0
<1>1. fence \in [epoch : Nat, dirty : Nat, identity : Spaces, requires : BOOLEAN, rebuilding : BOOLEAN]
  BY DEF Types
<1>2. coll \in [alive : BOOLEAN, epoch : Nat, dirty : Nat] /\ (coll.alive => coll.dirty = fence.dirty)
  BY DEF Types, Fence
<1>3. CASE scope = "tenant"
  <2>1. View(scope) = <<fence.epoch, fence.dirty, fence.identity, fence.requires, fence.rebuilding>>
    BY <1>3 DEF View
  <2> QED  BY <1>1, <1>3, <2>1 DEF Epoch, Alive
<1>4. CASE scope = "collection"
  <2>1. coll.alive /\ View(scope) = <<coll.epoch, coll.dirty, fence.identity, fence.requires, fence.rebuilding>>
    BY <1>4 DEF View
  <2> QED  BY <1>1, <1>2, <1>4, <2>1 DEF Epoch, Alive
<1> QED  BY <1>3, <1>4 DEF SCOPES

\* A reader begins at the current epoch: others that cite it, and its records, saw the same.
LEMMA GroundReadSound ==
  ASSUME Types, Fence, OneEpoch, NEW g \in Readers, NEW scope \in SCOPES, GroundRead(g, scope)
  PROVE  OneEpoch'
<1> DEFINE v == View(scope)
           p == [Quiet EXCEPT !.scope = scope, !.before = v, !.seen = Hits]
           q == IF v = <<>> \/ (v[3] = "none" /\ ~v[4]) THEN [p EXCEPT !.step = "answered"]
                ELSE IF v[2] # 0 \/ v[4] \/ v[3] = "none" THEN [p EXCEPT !.step = "fresh"]
                ELSE [p EXCEPT !.step = "lookup"]
<1>1. reader' = [reader EXCEPT ![g] = q] /\ UNCHANGED <<fence, coll, points, records>>
  BY DEF GroundRead, content
<1>2. v \in {<<>>} \cup (Nat \X Nat \X Spaces \X BOOLEAN \X BOOLEAN)
  BY ViewSays
<1>3. q \in READERS /\ q.scope = scope /\ q.before = v /\ q.seen = Hits /\ ~q.stable
  <2>1. Hits \subseteq Docs
    BY DEF Hits
  <2> HIDE DEF v
  <2>2. p \in READERS
    BY <1>2, <2>1 DEF READERS, Quiet
  <2>3. p.scope = scope /\ p.before = v /\ p.seen = Hits /\ ~p.stable
    BY DEF Quiet
  <2> HIDE DEF p
  <2> QED  BY <2>2, <2>3 DEF READERS
<1>4. Grounds(q) => v # <<>> /\ v[2] = 0 /\ q.step = "lookup"
  <2> HIDE DEF v
  <2>1. p.step = "idle"
    BY DEF Quiet
  <2>2. q.step \in {"answered", "fresh", "lookup"} /\ (q.step = "lookup" => v # <<>> /\ v[2] = 0)
    BY DEF Quiet
  <2> QED  BY <1>3, <2>2 DEF Grounds
<1> HIDE DEF q
<1>5. CASE ~Grounds(q)
  BY <1>1, <1>3, <1>5, ReaderLetsGo
<1>6. CASE Grounds(q)
  <2>1. v[1] = Epoch(scope) /\ Alive(scope) /\ fence.dirty = 0 /\ v[1] \in Nat
    BY <1>4, <1>6, ViewSays
  <2> HIDE DEF v
  <2>2. \A r \in records : r.key = Key(q) => r.found \in {{}, q.seen}
    <3> SUFFICES ASSUME NEW r \in records, r.key = Key(q) PROVE r.found \in {{}, q.seen}
      OBVIOUS
    <3>1. r.key[1] = scope /\ r.key[3] = v[1]
      BY <1>3 DEF Key
    <3> QED  BY <1>3, <2>1, <3>1 DEF OneEpoch, Recorded
  <2>3. Sound(q)
    BY <1>3, <1>4, <1>6, <2>1, <2>2 DEF Sound
  <2>4. ASSUME NEW h \in Readers, Grounds(reader[h]), Key(reader[h]) = Key(q) PROVE reader[h].seen = q.seen
    <3>1. reader[h].scope = scope /\ reader[h].before[1] = v[1]
      BY <1>3, <2>4, KeySays
    <3>2. Sound(reader[h])
      BY <2>4 DEF OneEpoch
    <3> QED  BY <1>3, <2>1, <3>1, <3>2 DEF Sound
  <2> QED  BY <1>1, <1>3, <2>3, <2>4, OneReaderSteps
<1> QED  BY <1>5, <1>6

LEMMA LookupSound ==
  ASSUME OneEpoch, NEW g \in Readers, Lookup(g)
  PROVE  OneEpoch'
<1> DEFINE p == reader[g]
           mine == {r \in records : r.key = Key(p)}
           f == (CHOOSE r \in mine : TRUE).found
<1>1. p \in READERS /\ p.step = "lookup" /\ Sound(p) /\ Grounds(p)
  BY DEF Lookup, OneEpoch, Grounds
<1>2. UNCHANGED <<fence, coll, points, records>>
  BY DEF Lookup, content
<1>3. CASE mine = {}
  <2> DEFINE q == [p EXCEPT !.step = "search"]
  <2>1. reader' = [reader EXCEPT ![g] = q]
    BY <1>3 DEF Lookup
  <2>2. q \in READERS /\ q.scope = p.scope /\ q.before = p.before /\ q.seen = p.seen /\ q.step = "search"
    BY <1>1 DEF READERS
  <2> HIDE DEF q
  <2> QED  BY <1>1, <1>2, <2>1, <2>2, ReaderGoesOn
<1>4. CASE mine # {}
  <2> DEFINE q == [p EXCEPT !.step = "confirm", !.found = f]
  <2>1. reader' = [reader EXCEPT ![g] = q]
    BY <1>4 DEF Lookup
  <2>2. f \in {{}, p.seen} /\ f \in SUBSET Docs
    <3>1. PICK r \in mine : f = r.found
      BY <1>4
    <3> QED  BY <1>1, <3>1 DEF Sound, OneEpoch, RECORDS
  <2> HIDE DEF f
  <2>3. /\ q \in READERS /\ q.scope = p.scope /\ q.before = p.before /\ q.seen = p.seen
        /\ q.step = "confirm" /\ q.found = f
    BY <1>1, <2>2 DEF READERS
  <2> HIDE DEF q
  <2> QED  BY <1>1, <1>2, <2>1, <2>2, <2>3, ReaderGoesOn
<1> QED  BY <1>3, <1>4

LEMMA SearchSound ==
  ASSUME OneEpoch, NEW g \in Readers, Search(g)
  PROVE  OneEpoch'
<1> DEFINE p == reader[g]
<1>1. p \in READERS /\ p.step = "search" /\ Sound(p) /\ Grounds(p)
  BY DEF Search, OneEpoch, Grounds
<1>2. UNCHANGED <<fence, coll, points, records>>
  BY DEF Search, content
<1>3. PICK found \in {Hits, {}} : reader' = [reader EXCEPT ![g].step = "check", ![g].found = found]
  BY DEF Search
<1> DEFINE q == [p EXCEPT !.step = "check", !.found = found]
<1>4. reader' = [reader EXCEPT ![g] = q]
  BY <1>3 DEF OneEpoch
<1>5. found \in SUBSET Docs
  BY DEF Hits
<1>6. /\ q \in READERS /\ q.scope = p.scope /\ q.before = p.before /\ q.seen = p.seen
      /\ q.step = "check" /\ q.found = found
  BY <1>1, <1>5 DEF READERS
<1> HIDE DEF q
<1>7. q.before[1] = Epoch(q.scope) => q.found \in {{}, q.seen}
  BY <1>1, <1>6 DEF Sound
<1> QED  BY <1>1, <1>2, <1>4, <1>6, <1>7, ReaderGoesOn

LEMMA CheckSound ==
  ASSUME Types, Fence, OneEpoch, NEW g \in Readers, Check(g)
  PROVE  OneEpoch'
<1> DEFINE p == reader[g]
           q == [p EXCEPT !.step = "store"]
<1>1. p \in READERS /\ p.step = "check" /\ Sound(p) /\ Grounds(p)
  BY DEF Check, OneEpoch, Grounds
<1>2. UNCHANGED <<fence, coll, points, records>>
  BY DEF Check, content
<1>3. CASE View(p.scope) = p.before
  <2>1. reader' = [reader EXCEPT ![g] = q]
    BY <1>3 DEF Check, OneEpoch
  <2>2. /\ q \in READERS /\ q.scope = p.scope /\ q.before = p.before /\ q.seen = p.seen
        /\ q.step = "store" /\ q.found = p.found
    BY <1>1 DEF READERS
  <2>3. p.before[1] = Epoch(p.scope)
    BY <1>1, <1>3, ViewSays DEF Sound, READERS
  <2>4. p.found \in {{}, p.seen}
    BY <1>1, <2>3 DEF Sound
  <2> HIDE DEF q
  <2> QED  BY <1>1, <1>2, <2>1, <2>2, <2>4, ReaderGoesOn
<1>4. CASE View(p.scope) # p.before
  BY <1>2, <1>4, AnswersLoosely DEF Check
<1> QED  BY <1>3, <1>4

LEMMA ConfirmSound ==
  ASSUME OneEpoch, NEW g \in Readers, Confirm(g)
  PROVE  OneEpoch'
<1> DEFINE p == reader[g]
           q == [p EXCEPT !.step = "answered", !.stable = TRUE]
<1>1. p \in READERS /\ p.step = "confirm" /\ Sound(p) /\ Grounds(p)
  BY DEF Confirm, OneEpoch, Grounds
<1>2. UNCHANGED <<fence, coll, points, records>>
  BY DEF Confirm, content
<1>3. CASE View(p.scope) = p.before
  <2>1. reader' = [reader EXCEPT ![g] = q]
    BY <1>3 DEF Confirm, OneEpoch
  <2>2. /\ q \in READERS /\ q.scope = p.scope /\ q.before = p.before /\ q.seen = p.seen
        /\ q.step = "answered" /\ q.found = p.found
    BY <1>1 DEF READERS
  <2>3. p.found \in {{}, p.seen}
    BY <1>1 DEF Sound
  <2> HIDE DEF q
  <2> QED  BY <1>1, <1>2, <2>1, <2>2, <2>3, ReaderGoesOn
<1>4. CASE View(p.scope) # p.before
  BY <1>2, <1>4, AnswersLoosely DEF Confirm
<1> QED  BY <1>3, <1>4

\* What a sound reader stores is sound for every reader that may find it.
LEMMA RecordSound ==
  ASSUME OneEpoch, NEW g \in Readers, reader[g].step = "store", UNCHANGED <<fence, coll, points>>,
         reader' = [reader EXCEPT ![g] = [reader[g] EXCEPT !.step = "confirm"]],
         records' = records \cup {[key |-> Key(reader[g]), found |-> reader[g].found]}
  PROVE  OneEpoch'
<1> DEFINE p == reader[g]
           new == [key |-> Key(p), found |-> p.found]
           q == [p EXCEPT !.step = "confirm"]
<1>1. p \in READERS /\ Grounds(p) /\ Sound(p) /\ p.found \in {{}, p.seen}
  BY DEF OneEpoch, Grounds, Sound
<1>2. p.before \in Nat \X Nat \X Spaces \X BOOLEAN \X BOOLEAN
  BY <1>1 DEF READERS, Sound
<1>3. new \in RECORDS /\ new.key = Key(p) /\ new.found = p.found /\ new.key[1] = p.scope /\ new.key[3] = p.before[1]
  BY <1>1, <1>2 DEF RECORDS, READERS, Key
<1>4. /\ q \in READERS /\ q.scope = p.scope /\ q.before = p.before /\ q.seen = p.seen
      /\ q.step = "confirm" /\ q.found = p.found
  BY <1>1 DEF READERS
<1> HIDE DEF new, q
<1>5. records' = records \cup {new} /\ reader' = [reader EXCEPT ![g] = q]
  BY DEF new, q
<1>6. Recorded(new)
  BY <1>1, <1>3 DEF Recorded, Sound
<1>7. ASSUME NEW h \in Readers, Grounds(reader[h])'
      PROVE  /\ Sound(reader[h])' /\ Grounds(reader[h])
             /\ reader'[h].seen = reader[h].seen /\ Key(reader'[h]) = Key(reader[h])
  <2>1. Grounds(reader[h]) /\ reader'[h].seen = reader[h].seen /\ reader'[h].scope = reader[h].scope
        /\ reader'[h].before = reader[h].before
    BY <1>1, <1>4, <1>5, <1>7 DEF Grounds, OneEpoch
  <2>2. Key(reader'[h]) = Key(reader[h])
    BY <2>1 DEF Key
  <2>3. Sound(reader[h])
    BY <2>1 DEF OneEpoch
  <2>4. new.key = Key(reader[h]) => new.found \in {{}, reader[h].seen}
    BY <1>1, <1>3, <2>1 DEF OneEpoch
  <2>5. \A r \in records' : r.key = Key(reader[h]) => r.found \in {{}, reader[h].seen}
    BY <1>5, <2>3, <2>4 DEF Sound
  <2>6. reader'[h] = reader[h] \/ (reader'[h].step = "confirm" /\ reader'[h].found \in {{}, reader'[h].seen})
    BY <1>1, <1>4, <1>5 DEF OneEpoch
  <2>7. \A r \in records' : r.key = Key(reader'[h]) => r.found \in {{}, reader'[h].seen}
    BY <2>1, <2>2, <2>5
  <2>8. /\ reader'[h].step = "check" /\ reader'[h].before[1] = Epoch(reader'[h].scope)
             => reader'[h].found \in {{}, reader'[h].seen}
        /\ reader'[h].step \in {"store", "confirm", "answered"} => reader'[h].found \in {{}, reader'[h].seen}
    BY <2>3, <2>6 DEF Sound
  <2>9. /\ reader'[h].before # <<>> /\ reader'[h].before[1] <= Epoch(reader'[h].scope)
        /\ reader'[h].before[1] = Epoch(reader'[h].scope)
              => Alive(reader'[h].scope) /\ fence.dirty = 0 /\ Hits = reader'[h].seen
    BY <2>1, <2>3 DEF Sound
  <2>10. Sound(reader[h])'
    BY <2>7, <2>8, <2>9 DEF Sound, Epoch, Alive, Hits, Key
  <2> QED  BY <2>1, <2>2, <2>10
<1>8. \A r \in records' : Recorded(r)'
  BY <1>5, <1>6 DEF OneEpoch, Recorded, Epoch, Alive, Hits
<1>9. records' \subseteq RECORDS /\ reader' \in [Readers -> READERS]
  BY <1>3, <1>4, <1>5 DEF OneEpoch
<1>10. \A h, o \in Readers :
         Grounds(reader[h])' /\ Grounds(reader[o])' /\ Key(reader[h])' = Key(reader[o])' => reader'[h].seen = reader'[o].seen
  <2> SUFFICES ASSUME NEW h \in Readers, NEW o \in Readers, Grounds(reader[h])', Grounds(reader[o])',
                      Key(reader[h])' = Key(reader[o])'
               PROVE  reader'[h].seen = reader'[o].seen
    OBVIOUS
  <2>1. Key(reader'[h]) = Key(reader'[o])
    BY DEF Key
  <2> QED  BY <1>7, <2>1 DEF OneEpoch
<1> QED  BY <1>7, <1>8, <1>9, <1>10 DEF OneEpoch, READERS, RECORDS, SCOPES

LEMMA StoreSound ==
  ASSUME OneEpoch, NEW g \in Readers, Store(g)
  PROVE  OneEpoch'
<1> DEFINE p == reader[g]
           mine == {r \in records : r.key = Key(p)}
           f == (CHOOSE r \in mine : TRUE).found
           q == [p EXCEPT !.step = "confirm"]
           o == [p EXCEPT !.step = "confirm", !.found = f]
<1>1. p \in READERS /\ p.step = "store" /\ Sound(p) /\ Grounds(p)
  BY DEF Store, OneEpoch, Grounds
<1>2. UNCHANGED <<fence, coll, points>>
  BY DEF Store, content
<1>3. CASE records' = records \cup {[key |-> Key(p), found |-> p.found]}
           /\ reader' = [reader EXCEPT ![g].step = "confirm"]
  BY <1>1, <1>2, <1>3, RecordSound DEF OneEpoch
<1>4. CASE mine # {} /\ UNCHANGED records /\ reader' = [reader EXCEPT ![g].step = "confirm", ![g].found = f]
  <2>1. reader' = [reader EXCEPT ![g] = o]
    BY <1>4 DEF OneEpoch
  <2>2. f \in {{}, p.seen} /\ f \in SUBSET Docs
    <3>1. PICK r \in mine : f = r.found
      BY <1>4
    <3> QED  BY <1>1, <3>1 DEF Sound, OneEpoch, RECORDS
  <2> HIDE DEF f
  <2>3. /\ o \in READERS /\ o.scope = p.scope /\ o.before = p.before /\ o.seen = p.seen
        /\ o.step = "confirm" /\ o.found = f
    BY <1>1, <2>2 DEF READERS
  <2> HIDE DEF o
  <2> QED  BY <1>1, <1>2, <1>4, <2>1, <2>2, <2>3, ReaderGoesOn
<1>5. CASE UNCHANGED records /\ reader' = [reader EXCEPT ![g].step = "confirm"]
  <2>1. reader' = [reader EXCEPT ![g] = q]
    BY <1>5 DEF OneEpoch
  <2>2. /\ q \in READERS /\ q.scope = p.scope /\ q.before = p.before /\ q.seen = p.seen
        /\ q.step = "confirm" /\ q.found = p.found
    BY <1>1 DEF READERS
  <2>3. p.found \in {{}, p.seen}
    BY <1>1 DEF Sound
  <2> HIDE DEF q
  <2> QED  BY <1>1, <1>2, <1>5, <2>1, <2>2, <2>3, ReaderGoesOn
<1> QED  BY <1>3, <1>4, <1>5 DEF Store

LEMMA GroundingSound ==
  ASSUME Types, Fence, OneEpoch, NEW g \in Readers, Grounding(g)
  PROVE  OneEpoch'
<1>1. CASE Fresh(g)
  <2>1. UNCHANGED <<fence, coll, points, records>>
    BY <1>1 DEF Fresh, content
  <2>2. Hits \in SUBSET Docs
    BY DEF Hits
  <2>3. Answered(g, {}) \/ Answered(g, Hits)
    BY <1>1 DEF Fresh
  <2> QED  BY <2>1, <2>2, <2>3, AnswersLoosely
<1>2. CASE ReaderLeaves(g)
  <2>1. UNCHANGED <<fence, coll, points, records>> /\ reader' = [reader EXCEPT ![g] = Quiet]
    BY <1>2 DEF ReaderLeaves, content
  <2>2. Quiet \in READERS /\ ~Grounds(Quiet)
    BY DEF Quiet, READERS, SCOPES, Grounds
  <2> QED  BY <2>1, <2>2, ReaderLetsGo
<1> QED  BY <1>1, <1>2, LookupSound, SearchSound, CheckSound, StoreSound, ConfirmSound DEF Grounding

\* Only grounding, a crash and expiry touch readers and records.
LEMMA OthersLeaveReaders ==
  ASSUME \/ \E t \in Tasks : Asked(t) \/ Ingestion(t) \/ Deletion(t)
         \/ Operator \/ LateWrite \/ Restart \/ Provision \/ (\E i \in Identities : ServingChanges(i)) \/ UNCHANGED vars
  PROVE  UNCHANGED <<reader, records>>
<1>1. CASE \E t \in Tasks : Asked(t) \/ Ingestion(t) \/ Deletion(t)
  BY <1>1, ZenonT(60) DEF Asked, Ingestion, Deletion, Upload, ReindexAsk, DeleteAsk, Uploaded, UploadFails, ReindexClaim, Start,
     Extract, IndexStart, Resolve, BeginMutation, Bind, VectorsDelete, VectorsUpsert, VectorsFail, EndMutation,
     Finish, DeleteCommit, Forget, ForgetFails
<1>2. CASE Operator \/ LateWrite \/ Restart \/ Provision \/ (\E i \in Identities : ServingChanges(i)) \/ UNCHANGED vars
  BY <1>2 DEF Operator, Recover, RebuildReset, RebuildFinish, RebuildStops, RebuildStart, RebuildDocument,
     LateWrite, Restart, Provision, ServingChanges, vars
<1> QED  BY <1>1, <1>2

LEMMA EpochStep ==
  ASSUME KnowledgeBaseAssumption, Types, Fence, OneEpoch, [Next]_vars
  PROVE  OneEpoch'
<1>1. CASE \E g \in Readers : Grounding(g) \/ \E scope \in {"tenant", "collection"} : GroundRead(g, scope)
  BY <1>1, GroundingSound, GroundReadSound DEF SCOPES
<1>2. CASE UNCHANGED <<reader, records>>
  <2>1. records' \subseteq records /\ reader' \in [Readers -> READERS] /\ \A g \in Readers : reader'[g] = reader[g]
    BY <1>2 DEF OneEpoch
  <2> QED  BY <2>1, OthersKeepEpoch
<1>3. CASE Crash \/ RecordExpires
  <2>1. Quiet \in READERS
    BY DEF Quiet, READERS, SCOPES
  <2>2. records' \subseteq records /\ reader' \in [Readers -> READERS]
        /\ \A g \in Readers : reader'[g] = reader[g] \/ reader'[g] = Quiet
    BY <1>3, <2>1 DEF Crash, RecordExpires, OneEpoch
  <2> QED  BY <2>2, OthersKeepEpoch
<1>4. CASE \/ \E t \in Tasks : Asked(t) \/ Ingestion(t) \/ Deletion(t)
           \/ Operator \/ LateWrite \/ Restart \/ Provision \/ (\E i \in Identities : ServingChanges(i)) \/ UNCHANGED vars
  BY <1>2, <1>4, OthersLeaveReaders
<1> QED  BY <1>1, <1>3, <1>4 DEF Next

\* The inductive invariant of grounding: readers and records of the current epoch saw what is
\* searchable, and those that share a key saw the same (the epoch in a record's digest).
THEOREM EpochInvariant ==
  ASSUME KnowledgeBaseAssumption
  PROVE  Spec => []OneEpoch
<1>1. Init => OneEpoch
  <2> SUFFICES ASSUME Init PROVE OneEpoch
    OBVIOUS
  <2>1. Quiet \in READERS /\ ~Grounds(Quiet)
    BY DEF Quiet, READERS, SCOPES, Grounds
  <2> QED  BY <2>1 DEF Init, OneEpoch
<1>2. Types /\ Fence /\ OneEpoch /\ [Next]_vars => OneEpoch'
  BY EpochStep
<1> QED  BY <1>1, <1>2, FenceCounts, PTL DEF Spec

\* What a stable answer cites is what was searchable when its epoch was read, or nothing: whoever
\* changed what is searchable since, and whoever's record it was.
THEOREM GroundedAnswers ==
  ASSUME KnowledgeBaseAssumption
  PROVE  Spec => []GroundedFromEpoch
<1>1. OneEpoch => GroundedFromEpoch
  <2> SUFFICES ASSUME OneEpoch, NEW g \in Readers, reader[g].step = "answered", reader[g].stable
               PROVE  reader[g].found \in {{}, reader[g].seen}
    BY DEF GroundedFromEpoch
  <2> QED  BY DEF OneEpoch, Grounds, Sound
<1> QED  BY EpochInvariant, <1>1, PTL

----------------------------------------------------------------------------
(* One answer for a prefix *)

\* A reader that says, or will say, what a record says.
Cites(q) == q.step = "confirm" \/ (q.step = "answered" /\ q.stable)

\* The first record of a prefix at an epoch is the only one, and every stable answer is one.
FirstStands ==
    /\ \A r, s \in records : r.key = s.key => r = s
    /\ \A g \in Readers : Cites(reader[g]) => \E r \in records : r.key = Key(reader[g]) /\ r.found = reader[g].found

\* A reader steps, and records stay: what it cites is a record.
LEMMA FirstKept ==
  ASSUME OneEpoch, FirstStands, NEW g \in Readers, NEW q, reader' = [reader EXCEPT ![g] = q],
         records \subseteq records', \A r, s \in records' : r.key = s.key => r = s,
         Cites(q) => \E r \in records' : r.key = Key(q) /\ r.found = q.found
  PROVE  FirstStands'
<1>1. reader'[g] = q /\ \A h \in Readers \ {g} : reader'[h] = reader[h]
  BY DEF OneEpoch
<1>2. ASSUME NEW h \in Readers, Cites(reader[h])'
      PROVE  \E r \in records' : r.key = Key(reader'[h]) /\ r.found = reader'[h].found
  <2>1. Cites(reader'[h])
    BY <1>2 DEF Cites
  <2>2. CASE h = g
    BY <1>1, <2>1, <2>2
  <2>3. CASE h # g
    BY <1>1, <2>1, <2>3 DEF FirstStands
  <2> QED  BY <2>2, <2>3
<1> QED  BY <1>2 DEF FirstStands, Key

LEMMA FirstGrounding ==
  ASSUME OneEpoch, FirstStands, "records" \notin Faults, NEW g \in Readers, Grounding(g)
  PROVE  FirstStands'
<1> DEFINE p == reader[g]
           mine == {r \in records : r.key = Key(p)}
           f == (CHOOSE r \in mine : TRUE).found
<1>1. p \in READERS /\ \A r, s \in records : r.key = s.key => r = s
  BY DEF OneEpoch, FirstStands
<1>2. mine # {} => \E r \in records : r.key = Key(p) /\ r.found = f
  <2> SUFFICES ASSUME mine # {} PROVE \E r \in records : r.key = Key(p) /\ r.found = f
    OBVIOUS
  <2>1. (CHOOSE r \in mine : TRUE) \in mine
    OBVIOUS
  <2> QED  BY <2>1
<1>3. ASSUME NEW q, reader' = [reader EXCEPT ![g] = q], UNCHANGED records, ~Cites(q) PROVE FirstStands'
  BY <1>1, <1>3, FirstKept
<1>4. ASSUME NEW found, Answered(g, found), UNCHANGED records PROVE FirstStands'
  <2> DEFINE q == [p EXCEPT !.step = "answered", !.found = found, !.stable = FALSE]
  <2>1. reader' = [reader EXCEPT ![g] = q]
    BY <1>4 DEF Answered, OneEpoch
  <2>2. ~Cites(q)
    BY <1>1 DEF Cites, READERS
  <2> HIDE DEF q
  <2> QED  BY <1>3, <1>4, <2>1, <2>2
<1>5. ASSUME NEW q \in READERS, reader' = [reader EXCEPT ![g] = q], q.step = "confirm",
             q.scope = p.scope, q.before = p.before, records \subseteq records',
             \A r, s \in records' : r.key = s.key => r = s,
             \E r \in records' : r.key = Key(p) /\ r.found = q.found
      PROVE  FirstStands'
  <2>1. Key(q) = Key(p)
    BY <1>5 DEF Key
  <2> QED  BY <1>5, <2>1, FirstKept
<1>6. CASE Lookup(g)
  <2>1. UNCHANGED records
    BY <1>6 DEF Lookup
  <2>2. CASE mine = {}
    <3> DEFINE q == [p EXCEPT !.step = "search"]
    <3>1. reader' = [reader EXCEPT ![g] = q]
      BY <1>6, <2>2 DEF Lookup
    <3>2. ~Cites(q)
      BY <1>1 DEF Cites, READERS
    <3> HIDE DEF q
    <3> QED  BY <1>3, <2>1, <3>1, <3>2
  <2>3. CASE mine # {}
    <3> DEFINE q == [p EXCEPT !.step = "confirm", !.found = f]
    <3>1. reader' = [reader EXCEPT ![g] = q]
      BY <1>6, <2>3 DEF Lookup
    <3>2. f \in SUBSET Docs
      BY <1>2, <2>3 DEF OneEpoch, RECORDS
    <3> HIDE DEF f
    <3>3. q \in READERS /\ q.step = "confirm" /\ q.scope = p.scope /\ q.before = p.before /\ q.found = f
      BY <1>1, <3>2 DEF READERS
    <3> HIDE DEF q
    <3> QED  BY <1>1, <1>2, <1>5, <2>1, <2>3, <3>1, <3>3
  <2> QED  BY <2>2, <2>3
<1>7. CASE Search(g)
  <2>1. PICK found : reader' = [reader EXCEPT ![g].step = "check", ![g].found = found]
    BY <1>7 DEF Search
  <2> DEFINE q == [p EXCEPT !.step = "check", !.found = found]
  <2>2. reader' = [reader EXCEPT ![g] = q] /\ UNCHANGED records
    BY <1>7, <2>1 DEF Search, OneEpoch
  <2>3. ~Cites(q)
    BY <1>1 DEF Cites, READERS
  <2> HIDE DEF q
  <2> QED  BY <1>3, <2>2, <2>3
<1>8. CASE Check(g)
  <2>1. UNCHANGED records
    BY <1>8 DEF Check
  <2>2. CASE reader' = [reader EXCEPT ![g].step = "store"]
    <3> DEFINE q == [p EXCEPT !.step = "store"]
    <3>1. reader' = [reader EXCEPT ![g] = q] /\ ~Cites(q)
      BY <1>1, <2>2 DEF Cites, READERS
    <3> HIDE DEF q
    <3> QED  BY <1>3, <2>1, <3>1
  <2> QED  BY <1>4, <1>8, <2>1, <2>2 DEF Check
<1>9. CASE Store(g)
  <2> DEFINE q == [p EXCEPT !.step = "confirm"]
  <2>1. /\ q \in READERS /\ q.step = "confirm" /\ q.scope = p.scope /\ q.before = p.before /\ q.found = p.found
    BY <1>1 DEF READERS
  <2>2. CASE /\ mine = {} /\ records' = records \cup {[key |-> Key(p), found |-> p.found]}
             /\ reader' = [reader EXCEPT ![g].step = "confirm"]
    <3> DEFINE new == [key |-> Key(p), found |-> p.found]
    <3>1. new.key = Key(p) /\ new.found = p.found
      OBVIOUS
    <3> HIDE DEF new
    <3>2. records' = records \cup {new} /\ \A r \in records : r.key # new.key
      BY <2>2, <3>1 DEF new
    <3>3. \A r, s \in records' : r.key = s.key => r = s
      BY <1>1, <3>2
    <3>4. reader' = [reader EXCEPT ![g] = q]
      BY <2>2
    <3> HIDE DEF q
    <3> QED  BY <1>5, <2>1, <3>1, <3>2, <3>3, <3>4
  <2>3. CASE mine # {} /\ UNCHANGED records /\ reader' = [reader EXCEPT ![g].step = "confirm", ![g].found = f]
    <3> DEFINE o == [p EXCEPT !.step = "confirm", !.found = f]
    <3>1. reader' = [reader EXCEPT ![g] = o]
      BY <2>3 DEF OneEpoch
    <3>2. f \in SUBSET Docs
      BY <1>2, <2>3 DEF OneEpoch, RECORDS
    <3> HIDE DEF f
    <3>3. o \in READERS /\ o.step = "confirm" /\ o.scope = p.scope /\ o.before = p.before /\ o.found = f
      BY <1>1, <3>2 DEF READERS
    <3> HIDE DEF o
    <3> QED  BY <1>1, <1>2, <1>5, <2>3, <3>1, <3>3
  <2> QED  BY <1>9, <2>2, <2>3 DEF Store
<1>10. CASE Confirm(g)
  <2>1. UNCHANGED records /\ p.step = "confirm"
    BY <1>10 DEF Confirm
  <2>2. CASE reader' = [reader EXCEPT ![g].step = "answered", ![g].stable = TRUE]
    <3> DEFINE q == [p EXCEPT !.step = "answered", !.stable = TRUE]
    <3>1. reader' = [reader EXCEPT ![g] = q]
      BY <2>2 DEF OneEpoch
    <3>2. q.found = p.found /\ q.scope = p.scope /\ q.before = p.before
      BY <1>1 DEF READERS
    <3> HIDE DEF q
    <3>3. Key(q) = Key(p)
      BY <3>2 DEF Key
    <3>4. \E r \in records : r.key = Key(p) /\ r.found = p.found
      BY <2>1 DEF FirstStands, Cites
    <3> QED  BY <1>1, <2>1, <3>1, <3>2, <3>3, <3>4, FirstKept
  <2> QED  BY <1>4, <1>10, <2>1, <2>2 DEF Confirm
<1>11. CASE Fresh(g)
  <2>1. UNCHANGED records /\ \E found : Answered(g, found)
    BY <1>11 DEF Fresh
  <2> QED  BY <1>4, <2>1
<1>12. CASE ReaderLeaves(g)
  <2>1. UNCHANGED records /\ reader' = [reader EXCEPT ![g] = Quiet] /\ ~Cites(Quiet)
    BY <1>12 DEF ReaderLeaves, Cites, Quiet
  <2> QED  BY <1>3, <2>1
<1> QED  BY <1>6, <1>7, <1>8, <1>9, <1>10, <1>11, <1>12 DEF Grounding

LEMMA FirstStep ==
  ASSUME KnowledgeBaseAssumption, OneEpoch, FirstStands, "records" \notin Faults, [Next]_vars
  PROVE  FirstStands'
<1>1. CASE UNCHANGED <<reader, records>>
  BY <1>1 DEF FirstStands, Cites, Key
<1>2. ASSUME NEW g \in Readers, NEW scope \in {"tenant", "collection"}, GroundRead(g, scope) PROVE FirstStands'
  <2> DEFINE v == View(scope)
             p == [Quiet EXCEPT !.scope = scope, !.before = v, !.seen = Hits]
             q == IF v = <<>> \/ (v[3] = "none" /\ ~v[4]) THEN [p EXCEPT !.step = "answered"]
                  ELSE IF v[2] # 0 \/ v[4] \/ v[3] = "none" THEN [p EXCEPT !.step = "fresh"]
                  ELSE [p EXCEPT !.step = "lookup"]
  <2>1. reader' = [reader EXCEPT ![g] = q] /\ UNCHANGED records
    BY <1>2 DEF GroundRead
  <2>2. ~Cites(q)
    <3> HIDE DEF v
    <3> QED  BY DEF Cites, Quiet
  <2> HIDE DEF q
  <2> QED  BY <2>1, <2>2, FirstKept DEF FirstStands
<1>3. CASE \E g \in Readers : Grounding(g)
  BY <1>3, FirstGrounding
<1>4. CASE Crash
  <2>1. UNCHANGED records /\ \A g \in Readers : ~Cites(reader'[g])
    BY <1>4 DEF Crash, Cites, Quiet
  <2> QED  BY <2>1 DEF FirstStands, Cites
<1>5. CASE \E t \in Tasks : Asked(t) \/ Ingestion(t) \/ Deletion(t)
  BY <1>1, <1>5, OthersLeaveReaders
<1>6. CASE Operator \/ LateWrite \/ Restart \/ Provision \/ (\E i \in Identities : ServingChanges(i)) \/ UNCHANGED vars
  BY <1>1, <1>6, OthersLeaveReaders
<1>7. ~RecordExpires
  BY DEF RecordExpires
<1> QED  BY <1>2, <1>3, <1>4, <1>5, <1>6, <1>7 DEF Next

\* Two stable answers for one prefix at one epoch are the same, where no record expires and the
\* store has room: the first record stands, also one written when the search was down.
THEOREM AnswersReplay ==
  ASSUME KnowledgeBaseAssumption, "records" \notin Faults
  PROVE  Spec => []ReplayStable
<1>1. Init => FirstStands
  BY DEF Init, FirstStands, Cites, Quiet
<1>2. OneEpoch /\ FirstStands /\ [Next]_vars => FirstStands'
  BY FirstStep
<1>3. FirstStands => ReplayStable
  <2> SUFFICES ASSUME FirstStands, NEW g \in Readers, NEW h \in Readers, Cites(reader[g]), Cites(reader[h]),
                      Key(reader[g]) = Key(reader[h])
               PROVE  reader[g].found = reader[h].found
    BY DEF ReplayStable, Cites
  <2> QED  BY DEF FirstStands
<1> QED  BY <1>1, <1>2, <1>3, EpochInvariant, PTL DEF Spec
=============================================================================
