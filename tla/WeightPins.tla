------------------------------ MODULE WeightPins ------------------------------
(***************************************************************************)
(* Which weights answer.  A tag on a node names weights that a pull, or a  *)
(* hand on the host, may replace; the registry's row pins the weights that *)
(* were approved.  A request is checked by the agent against the pin and   *)
(* the weights it measured, again by the relay against what the runtime    *)
(* serves, and only then sent; a pull re-pins before its node serves       *)
(* again, and an operator re-pins what a pull could not.                   *)
(*                                                                         *)
(* One node and one reference.  Queues, slots and outcomes are NodeAgent's *)
(* and taken from there: an exclusive operation runs with the node to      *)
(* itself, and an uncertain one blocks it until the runtime was restarted. *)
(***************************************************************************)
EXTENDS Naturals, FiniteSets

CONSTANTS
    Weights,      \* manifest digests the tag may resolve to
    Declares,     \* those whose metadata declares a context length
    Unpinned,     \* no digest
    Requests,     \* generations, each sent once
    Documents,    \* texts embedded batch by batch for one index space
    MaxBatches,   \* batches of a document
    Pulls, Repins, Loads, \* lifecycle calls of the administrators
    Faults,       \* which calls may fail, and whether the agent may die
    MaxRewrites   \* how often a hand on the host rewrites the tag

WeightPinsAssumption ==
    /\ Declares \subseteq Weights /\ Unpinned \notin Weights
    /\ Requests \cap Documents = {} /\ "none" \notin Pulls \cup Repins \cup Loads
    /\ Pulls \cap Repins = {} /\ Pulls \cap Loads = {} /\ Repins \cap Loads = {}
    /\ MaxBatches \in Nat /\ MaxRewrites \in Nat

VARIABLES
    disk,      \* the weights the tag resolves to
    pin,       \* models.manifest_digest
    validated, \* models.capacity_validated
    gate,      \* the dispatcher's gate
    handler,   \* where each sender's request stands in the agent, and what it read
    space,     \* the digest of the index space each document is embedded for
    made,      \* the weights each document's vectors came from
    op,        \* the exclusive operation on the node
    row,       \* node_operations.state of each lifecycle call
    call,      \* where the administrator's call stands, and what it read
    capacity,  \* the adapter's _capacities, their epoch, and a fetch under way
    late,      \* a pull nobody waits for may still finish
    ran,       \* what ran: history
    rewrites   \* rewrites of the tag by hand (bound)

vars == <<disk, pin, validated, gate, handler, space, made, op, row, call, capacity,
          late, ran, rewrites>>

Senders == Requests \cup Documents
Calls == Pulls \cup Repins \cup Loads
Digests == Weights \cup {Unpinned}
NoHandler == [pc |-> "idle", pin |-> Unpinned, identity |-> Unpinned, batch |-> 0, loose |-> FALSE]
NoOp == [by |-> "none", pc |-> "none", digest |-> Unpinned]
NoCapacities == [k \in Digests |-> Unpinned]

Init ==
    /\ disk \in Weights /\ pin \in {disk, Unpinned}
    /\ validated = FALSE /\ gate = "serving"
    /\ handler = [s \in Senders |-> NoHandler]
    /\ space = [d \in Documents |-> Unpinned] /\ made = [d \in Documents |-> {}]
    /\ op = NoOp /\ row = [k \in Calls |-> "absent"]
    /\ call = [k \in Calls |-> [pc |-> "start", pin |-> Unpinned, declared |-> FALSE]]
    /\ capacity = [known |-> NoCapacities, epoch |-> 0, by |-> "none", read |-> Unpinned, at |-> 0]
    /\ late = FALSE /\ ran = {} /\ rewrites = 0

----------------------------------------------------------------------------
(* A request through the agent's guard and its relay *)

Admitted == {s \in Senders : handler[s].pc \in {"admitted", "checked", "sent"}}

\* A document's embedding is resolved once, for the index space of the pin then in force
ResolveSpace(d) ==
    /\ space[d] = Unpinned /\ pin # Unpinned
    /\ space' = [space EXCEPT ![d] = pin]
    /\ UNCHANGED <<disk, pin, validated, gate, handler, made, op, row, call, capacity, late, ran, rewrites>>

\* The route reads the registration ...
Register(s) ==
    /\ handler[s].pc = "idle"
    /\ s \in Documents => space[s] # Unpinned /\ handler[s].batch < MaxBatches
    /\ handler' = [handler EXCEPT ![s].pc = "registered", ![s].pin = pin]
    /\ UNCHANGED <<disk, pin, validated, gate, space, made, op, row, call, capacity, late, ran, rewrites>>

\* check_pin
PinAllows(pinned, identity) == pinned \in {Unpinned, identity}

\* check_generation and the embedding route's own checks, on what was measured
GuardPasses(s, identity) ==
    /\ PinAllows(handler[s].pin, identity)
    /\ s \in Requests => identity \in Declares
    /\ s \in Documents => identity = space[s]

Ended(h) == [NoHandler EXCEPT !.pc = "ended", !.batch = h.batch]

\* ... and measures the weights in one snapshot
Measure(s) ==
    /\ handler[s].pc = "registered"
    /\ handler' = [handler EXCEPT ![s] =
           IF GuardPasses(s, disk) THEN [@ EXCEPT !.pc = "measured", !.identity = disk] ELSE Ended(@)]
    /\ UNCHANGED <<disk, pin, validated, gate, space, made, op, row, call, capacity, late, ran, rewrites>>

\* Dispatcher.submit, down to the promotion
Admit(s) ==
    /\ handler[s].pc = "measured"
    /\ handler' = [handler EXCEPT ![s] = IF gate = "serving" THEN [@ EXCEPT !.pc = "admitted"] ELSE Ended(@)]
    /\ UNCHANGED <<disk, pin, validated, gate, space, made, op, row, call, capacity, late, ran, rewrites>>

\* Mutant: the relay trusts the guard's reading
RevisionUnchecked(s) == TRUE

\* What the relay asks the runtime before it sends
RevisionMatches(s) == disk = handler[s].identity

\* _revision_mismatch: other weights, or a runtime that cannot be asked, is not sent
Revise(s) ==
    /\ handler[s].pc = "admitted"
    /\ \/ RevisionMatches(s) /\ handler' = [handler EXCEPT ![s].pc = "checked"]
       \/ (~RevisionMatches(s) \/ "read" \in Faults) /\ handler' = [handler EXCEPT ![s] = Ended(@)]
    /\ UNCHANGED <<disk, pin, validated, gate, space, made, op, row, call, capacity, late, ran, rewrites>>

\* The runtime resolves the tag itself when the request reaches it
Send(s) ==
    /\ handler[s].pc = "checked"
    /\ handler' = [handler EXCEPT ![s].pc = "sent"]
    /\ ran' = ran \cup {[by |-> s, counted |-> handler[s].identity, guarded |-> handler[s].pin,
                         used |-> disk, loose |-> handler[s].loose]}
    /\ made' = [d \in Documents |-> IF d = s /\ ~handler[s].loose THEN made[d] \cup {disk} ELSE made[d]]
    /\ UNCHANGED <<disk, pin, validated, gate, space, op, row, call, capacity, late, rewrites>>

\* The answer, after which a document's next batch is sent; or a broken stream
Answered(s) ==
    /\ handler[s].pc = "sent"
    /\ \/ /\ handler' = [handler EXCEPT ![s] =
                IF s \in Documents THEN [NoHandler EXCEPT !.batch = handler[s].batch + 1]
                ELSE Ended(@)]
          /\ UNCHANGED gate
       \/ /\ "uncertain" \in Faults
          /\ handler' = [handler EXCEPT ![s] = Ended(@)]
          /\ gate' = "blocked"
    /\ UNCHANGED <<disk, pin, validated, space, made, op, row, call, capacity, late, ran, rewrites>>

----------------------------------------------------------------------------
(* The administrator's call and the adapter's capacity cache *)

\* The node's lock, which a load has from its first read to its last write, a re-pin
\* for its call, and a pull never
Locked == \E k \in Loads \cup Repins :
              call[k].pc \in {"row", "fetching", "ready", "posted", "guarded"} \cup
                            (IF k \in Loads THEN {"ok"} ELSE {})

\* A load reads the row before it asks for the declared context of its weights
ReadRow(k) ==
    /\ k \in Loads /\ call[k].pc = "start" /\ ~Locked
    /\ call' = [call EXCEPT ![k].pc = "row", ![k].pin = pin]
    /\ UNCHANGED <<disk, pin, validated, gate, handler, space, made, op, row, capacity, late, ran, rewrites>>

\* declared_context_for_manifest: the document must be of the weights asked for
DeclaredOf(document, manifest) == document \in Declares /\ PinAllows(manifest, document)

CachedCapacity(k) ==
    /\ call[k].pc = "row" /\ capacity.known[call[k].pin] # Unpinned
    /\ call' = [call EXCEPT ![k].pc = "ready",
                            ![k].declared = DeclaredOf(capacity.known[call[k].pin], call[k].pin)]
    /\ UNCHANGED <<disk, pin, validated, gate, handler, space, made, op, row, capacity, late, ran, rewrites>>

\* _fetch_capacity leaves: the agent measures now, the answer is stored later
FetchCapacity(k) ==
    /\ call[k].pc = "row" /\ capacity.known[call[k].pin] = Unpinned /\ capacity.by = "none"
    /\ capacity' = [capacity EXCEPT !.by = k, !.read = disk, !.at = capacity.epoch]
    /\ call' = [call EXCEPT ![k].pc = "fetching"]
    /\ UNCHANGED <<disk, pin, validated, gate, handler, space, made, op, row, late, ran, rewrites>>

\* Stored unless a lifecycle call was made meanwhile; one entry per reference
FetchedCapacity(k) ==
    /\ call[k].pc = "fetching" /\ capacity.by = k
    /\ \/ /\ call' = [call EXCEPT ![k].pc = "ready", ![k].declared = DeclaredOf(capacity.read, call[k].pin)]
          /\ capacity' = [capacity EXCEPT !.by = "none", !.read = Unpinned,
                !.known = IF capacity.at = capacity.epoch
                          THEN [NoCapacities EXCEPT ![call[k].pin] = capacity.read] ELSE @]
       \/ /\ "read" \in Faults
          /\ call' = [call EXCEPT ![k].pc = "ready"]
          /\ capacity' = [capacity EXCEPT !.by = "none", !.read = Unpinned]
    /\ UNCHANGED <<disk, pin, validated, gate, handler, space, made, op, row, late, ran, rewrites>>

\* An entry lives a minute
ExpireCapacity ==
    /\ capacity.known # NoCapacities
    /\ capacity' = [capacity EXCEPT !.known = NoCapacities]
    /\ UNCHANGED <<disk, pin, validated, gate, handler, space, made, op, row, call, late, ran, rewrites>>

\* A load that finds the model resident sends nothing
FoundLoaded(k) ==
    /\ call[k].pc = "ready"
    /\ call' = [call EXCEPT ![k].pc = "ok"]
    /\ UNCHANGED <<disk, pin, validated, gate, handler, space, made, op, row, capacity, late, ran, rewrites>>

\* The capacities go, and the call leaves for the agent
Post(k) ==
    /\ call[k].pc = IF k \in Loads THEN "ready" ELSE "start"
    /\ k \in Repins => ~Locked
    /\ call' = [call EXCEPT ![k].pc = "posted"]
    /\ capacity' = [capacity EXCEPT !.known = NoCapacities, !.epoch = @ + 1]
    /\ UNCHANGED <<disk, pin, validated, gate, handler, space, made, op, row, late, ran, rewrites>>

\* What the caller is told for the operation's row
Told(k) ==
    CASE row[k] = "completed" -> "ok"
      [] row[k] = "failed" -> IF k \in Repins THEN "refused" ELSE "failed"
      [] OTHER -> "unsure"

Answer(k) ==
    /\ call[k].pc \in {"posted", "guarded"} /\ op.by # k /\ row[k] # "absent"
    /\ \/ call' = [call EXCEPT ![k].pc = Told(k)]
       \/ "read" \in Faults /\ call' = [call EXCEPT ![k].pc = "unsure"]
    /\ UNCHANGED <<disk, pin, validated, gate, handler, space, made, op, row, capacity, late, ran, rewrites>>

\* After a load: set_capacity_validated writes only the row it read
SetCapacity(k) ==
    /\ k \in Loads /\ call[k].pc = "ok"
    /\ validated' = IF pin = call[k].pin THEN call[k].declared ELSE validated
    /\ call' = [call EXCEPT ![k].pc = "written"]
    /\ UNCHANGED <<disk, pin, gate, handler, space, made, op, row, capacity, late, ran, rewrites>>

----------------------------------------------------------------------------
(* The lifecycle route and the exclusive operation *)

\* A load is refused for weights other than the pinned ones
GuardLoad(k) ==
    /\ k \in Loads /\ call[k].pc = "posted" /\ row[k] = "absent"
    /\ call' = [call EXCEPT ![k].pc = IF PinAllows(pin, disk) THEN "guarded" ELSE "failed"]
    /\ UNCHANGED <<disk, pin, validated, gate, handler, space, made, op, row, capacity, late, ran, rewrites>>

\* Dispatcher.exclusive: the gate closes first
Exclusive(k) ==
    /\ call[k].pc = IF k \in Loads THEN "guarded" ELSE "posted"
    /\ row[k] = "absent"
    /\ IF gate = "serving"
         THEN /\ op' = [NoOp EXCEPT !.by = k, !.pc = "waiting"]
              /\ row' = [row EXCEPT ![k] = "accepted"] /\ gate' = "draining" /\ UNCHANGED call
         ELSE call' = [call EXCEPT ![k].pc = "failed"] /\ UNCHANGED <<op, row, gate>>
    /\ UNCHANGED <<disk, pin, validated, handler, space, made, capacity, late, ran, rewrites>>

Reopened(g) == IF g = "draining" THEN "serving" ELSE g

\* Dispatcher._idle: nothing admitted
Idle == Admitted = {}

\* Admitted work ends, and the operation is promoted if nothing blocked the node meanwhile
PromoteExclusive ==
    /\ op.pc = "waiting" /\ Idle
    /\ IF gate = "draining"
         THEN op' = [op EXCEPT !.pc = "running"] /\ row' = [row EXCEPT ![op.by] = "running"]
         ELSE op' = NoOp /\ row' = [row EXCEPT ![op.by] = "cancelled"]
    /\ UNCHANGED <<disk, pin, validated, gate, handler, space, made, call, capacity, late, ran, rewrites>>

\* The runtime's answer is committed; the follow-up of a completed operation comes next
Settled(outcome) ==
    /\ row' = [row EXCEPT ![op.by] = outcome]
    /\ IF outcome = "completed"
         THEN op' = [op EXCEPT !.pc = IF op.by \in Pulls THEN "pulled" ELSE "recording"] /\ UNCHANGED gate
         ELSE op' = NoOp /\ gate' = Reopened(gate)

\* The pull replaces what the tag names, the load nothing; either may be refused
RunAtRuntime ==
    /\ op.pc = "running" /\ op.by \notin Repins
    /\ \/ Settled("completed") /\ disk' \in (IF op.by \in Pulls THEN Weights ELSE {disk})
       \/ Settled("failed") /\ UNCHANGED disk
    /\ UNCHANGED <<pin, validated, handler, space, made, call, capacity, late, ran, rewrites>>

\* Its answer is lost: unknown, and the pull may still end
RunUncertain ==
    /\ "uncertain" \in Faults /\ op.pc = "running" /\ op.by \notin Repins
    /\ row' = [row EXCEPT ![op.by] = "unknown"] /\ op' = NoOp /\ gate' = "blocked"
    /\ late' = (op.by \in Pulls)
    /\ UNCHANGED <<disk, pin, validated, handler, space, made, call, capacity, ran, rewrites>>

LatePull ==
    /\ late /\ late' = FALSE /\ disk' \in Weights
    /\ UNCHANGED <<pin, validated, gate, handler, space, made, op, row, call, capacity, ran, rewrites>>

\* _repin, the node still closed: what the runtime lists now; a runtime that cannot say
\* leaves the pin
ReadServed ==
    /\ op.pc = "pulled"
    /\ \/ op' = [op EXCEPT !.pc = "pinning", !.digest = disk] /\ UNCHANGED gate
       \/ "read" \in Faults /\ op' = NoOp /\ gate' = Reopened(gate)
    /\ UNCHANGED <<disk, pin, validated, handler, space, made, row, call, capacity, late, ran, rewrites>>

\* store.repin
PinServed ==
    /\ op.pc = "pinning"
    /\ \/ pin' = op.digest /\ op' = [op EXCEPT !.pc = "recording"] /\ UNCHANGED gate
       \/ "write" \in Faults /\ UNCHANGED pin /\ op' = NoOp /\ gate' = Reopened(gate)
    /\ UNCHANGED <<disk, validated, handler, space, made, row, call, capacity, late, ran, rewrites>>

\* _record_capacity: only for a row that names the weights just measured
RecordCapacity ==
    /\ op.pc = "recording"
    /\ \/ validated' = IF PinAllows(pin, disk) THEN disk \in Declares ELSE validated
       \/ "write" \in Faults /\ UNCHANGED validated
    /\ op' = NoOp /\ gate' = Reopened(gate)
    /\ UNCHANGED <<disk, pin, handler, space, made, row, call, capacity, late, ran, rewrites>>

\* _operator_repin: the runtime's listing ...
RepinServed(w) ==
    /\ op.pc = "running" /\ op.by \in Repins
    /\ \/ disk = w /\ op' = [op EXCEPT !.pc = "measuring", !.digest = w] /\ UNCHANGED <<row, gate>>
       \/ (disk # w \/ "read" \in Faults) /\ Settled("failed")
    /\ UNCHANGED <<disk, pin, validated, handler, space, made, call, capacity, late, ran, rewrites>>

\* ... the model store ...
RepinMeasured ==
    /\ op.pc = "measuring"
    /\ \/ disk = op.digest /\ op' = [op EXCEPT !.pc = "approving"] /\ UNCHANGED <<row, gate>>
       \/ disk # op.digest /\ Settled("failed")
    /\ UNCHANGED <<disk, pin, validated, handler, space, made, call, capacity, late, ran, rewrites>>

\* ... and the pin
RepinWritten ==
    /\ op.pc = "approving"
    /\ \/ pin' = op.digest /\ Settled("completed")
       \/ "write" \in Faults /\ UNCHANGED pin /\ Settled("failed")
    /\ UNCHANGED <<disk, validated, handler, space, made, call, capacity, late, ran, rewrites>>

----------------------------------------------------------------------------
(* The host *)

\* The agent dies with its handlers; the next one calls what was sent unknown
Crash ==
    /\ "crash" \in Faults
    /\ LET sent == op.by # "none" /\ row[op.by] = "running"
       IN /\ gate' = IF sent \/ Admitted # {} \/ gate = "blocked" THEN "blocked" ELSE "serving"
          /\ late' = (late \/ (sent /\ op.by \in Pulls))
          /\ row' = [k \in Calls |-> CASE row[k] = "running" -> "unknown"
                                       [] row[k] = "accepted" -> "cancelled"
                                       [] OTHER -> row[k]]
    /\ op' = NoOp
    /\ handler' = [s \in Senders |-> IF handler[s].pc = "idle" THEN handler[s] ELSE Ended(handler[s])]
    /\ call' = [k \in Calls |-> IF call[k].pc \in {"posted", "guarded"} /\ row[k] = "absent"
                                THEN [call[k] EXCEPT !.pc = "unsure"] ELSE call[k]]
    /\ UNCHANGED <<disk, pin, validated, space, made, capacity, ran, rewrites>>

\* The block is resolved by a restart of the runtime, which ends what it was doing
Restart ==
    /\ gate = "blocked" /\ Admitted = {} /\ op = NoOp
    /\ gate' = "serving" /\ late' = FALSE
    /\ row' = [k \in Calls |-> IF row[k] = "unknown" THEN "failed" ELSE row[k]]
    /\ UNCHANGED <<disk, pin, validated, handler, space, made, op, call, capacity, ran, rewrites>>

\* A hand on the host rewrites the tag
RewriteTag(w) ==
    /\ rewrites < MaxRewrites /\ w # disk
    /\ disk' = w /\ rewrites' = rewrites + 1
    /\ handler' = [s \in Senders |-> [handler[s] EXCEPT !.loose = @ \/ handler[s].pc = "checked"]]
    /\ UNCHANGED <<pin, validated, gate, space, made, op, row, call, capacity, late, ran>>

Next ==
    \/ \E d \in Documents : ResolveSpace(d)
    \/ \E s \in Senders : Register(s) \/ Measure(s) \/ Admit(s) \/ Revise(s) \/ Send(s) \/ Answered(s)
    \/ \E k \in Calls : \/ ReadRow(k) \/ CachedCapacity(k) \/ FetchCapacity(k) \/ FetchedCapacity(k)
                        \/ FoundLoaded(k) \/ Post(k) \/ Answer(k) \/ SetCapacity(k) \/ GuardLoad(k) \/ Exclusive(k)
    \/ ExpireCapacity \/ PromoteExclusive \/ RunAtRuntime \/ RunUncertain \/ LatePull
    \/ ReadServed \/ PinServed \/ RecordCapacity
    \/ \E w \in Weights : RepinServed(w) \/ RewriteTag(w)
    \/ RepinMeasured \/ RepinWritten
    \/ Crash \/ Restart

Spec == Init /\ [][Next]_vars

----------------------------------------------------------------------------
(* Properties *)

TypeOK ==
    /\ disk \in Weights /\ pin \in Digests /\ validated \in BOOLEAN
    /\ gate \in {"serving", "draining", "blocked"}
    /\ \A s \in Senders : /\ handler[s].pc \in {"idle", "registered", "measured", "admitted",
                                                "checked", "sent", "ended"}
                          /\ {handler[s].pin, handler[s].identity} \subseteq Digests
    /\ op.by \in Calls \cup {"none"} /\ op.digest \in Digests
    /\ row \in [Calls -> {"absent", "accepted", "running", "completed", "failed", "unknown", "cancelled"}]
    /\ capacity.known \in [Digests -> Digests]
    /\ late \in BOOLEAN /\ rewrites \in 0..MaxRewrites

\* Only a tag rewritten by hand between the relay's check and the runtime's
\* resolution escapes: everything else that ran used the weights its prompt was
\* counted against, and they were the pinned ones when the guard looked
RunsAsCounted ==
    \A x \in ran : x.loose \/ (x.used = x.counted /\ PinAllows(x.guarded, x.used))

\* The vectors of one document are of one space, the one its index was resolved
\* for, although the tag may be pulled and re-pinned between two batches
OneSpace == \A d \in Documents : made[d] \subseteq {space[d]}

\* When every follow-up succeeds and nobody else touches the tag, a node serves
\* only while its pin is of the weights it has: a pull re-pins before it reopens
ServesPinned == Faults = {} /\ MaxRewrites = 0 /\ gate = "serving" => PinAllows(pin, disk)

\* A pull and a re-pin move the pin only to weights the node serves at that moment
PinNamesServed == pin' # pin => pin' = disk \/ rewrites > 0

\* No load and no follow-up calls a row's capacity known from weights the row
\* does not name, whatever was cached or pulled since they were read
CapacityOfPinned == ~validated /\ validated' => pin' \in Declares \cup {Unpinned}
==============================================================================
