--------------------------- MODULE RequestBinding ---------------------------
(***************************************************************************)
(* One Idempotency-Key and the copies of the request that carry it         *)
(* (route_chat_request/binding.py, repositories/request_bindings.py).      *)
(*                                                                         *)
(* A gateway handler per copy looks the key up, and binds it to an attempt *)
(* of its own only when the one bound before provably never ran.  The      *)
(* attempt's operation id is minted by the handler, so a copy names it.    *)
(* What the node does with an operation is the contract of                 *)
(* OperationLedger, which NodeAgent implements; copies may be routed to    *)
(* different nodes, so a node's block on unknowns is not assumed here.     *)
(***************************************************************************)
EXTENDS Naturals

CONSTANTS
  Copies,     \* HTTP copies of the request; each handler mints one op id
  NoCopy,
  PayloadOf   \* what each copy's client sent, as its hash tells it apart

ASSUME CopyAssumption == NoCopy \notin Copies

VARIABLES
  \* PostgreSQL
  current,    \* op id of the bound attempt (request_bindings.current_seq)
  version,    \* request_bindings.version, 0 before the key is bound
  hash,       \* the copy whose payload hash the binding keeps
  attempts,   \* op ids in request_attempts
  \* gateway handlers
  pc,         \* where each handler stands
  seen,       \* the binding it read: op id and version
  answer,     \* the attempt whose result the copy's caller received
  \* between the gateway and the nodes
  inFlight,   \* op ids whose POST may still arrive
  opState, sends, working   \* the nodes' ledger

bindingVars == <<current, version, hash, attempts>>
nodeVars == <<opState, sends, working>>
vars == <<bindingVars, pc, seen, answer, inFlight, nodeVars>>

Node == INSTANCE OperationLedger WITH Ops <- Copies, state <- opState

\* _existing is asked about the bound attempt, from `repeat` or from `bind`.
Looking == {"repeat", "tombstone", "check", "recheck"}
Place == {"new", "proceed", "created", "rebind", "rebound", "forward", "waiting", "done"} \cup Looking

Init ==
  /\ current = NoCopy /\ version = 0 /\ hash = NoCopy /\ attempts = {}
  /\ pc = [c \in Copies |-> "new"]
  /\ seen = [c \in Copies |-> [op |-> NoCopy, version |-> 0]]
  /\ answer = [c \in Copies |-> NoCopy]
  /\ inFlight = {}
  /\ Node!Init

Goto(c, place) == pc' = [pc EXCEPT ![c] = place]

-----------------------------------------------------------------------------
(* The handler of one copy.                                                *)

SameHash(c) == PayloadOf[c] = PayloadOf[hash]

\* Mutant: the hash is compared nowhere.
LookedAtAnyHash(c, place) ==
  /\ seen' = [seen EXCEPT ![c] = [op |-> current, version |-> version]]
  /\ Goto(c, place)

\* A binding made by another copy was read: refused if the payload differs.
LookedAt(c, place) ==
  /\ seen' = [seen EXCEPT ![c] = [op |-> current, version |-> version]]
  /\ Goto(c, IF SameHash(c) THEN place ELSE "done")

\* repeat: before any other step of the request.
Repeat(c) ==
  /\ pc[c] = "new"
  /\ IF current = NoCopy THEN Goto(c, "proceed") /\ UNCHANGED seen ELSE LookedAt(c, "repeat")
  /\ UNCHANGED <<bindingVars, answer, inFlight, nodeVars>>

\* Mutant: an attempt the agent has not seen counts as unsent.
AfterViewOfAbsent(c, s) ==
  IF s \in {"absent", "cancelled_unsent"}
  THEN IF pc[c] = "check" THEN "rebind" ELSE IF pc[c] = "recheck" THEN "done" ELSE "proceed"
  ELSE "done"

\* _existing: where the handler goes once it knows the bound attempt's state.
AfterView(c, s) ==
  CASE s = "absent" /\ pc[c] = "repeat" -> "tombstone"
    [] s = "cancelled_unsent" /\ pc[c] \in {"repeat", "tombstone"} -> "proceed"
    [] s = "cancelled_unsent" /\ pc[c] = "check" -> "rebind"
    [] OTHER -> "done"

\* A completed attempt's stored result is replayed, unless it has expired.
Replays(c, s) ==
  IF s = "completed" THEN answer' \in {answer, [answer EXCEPT ![c] = seen[c].op]}
  ELSE UNCHANGED answer

\* GET /v1/attempts/{op} of the bound attempt.
View(c) ==
  /\ pc[c] \in {"repeat", "check", "recheck"}
  /\ Goto(c, AfterView(c, opState[seen[c].op]))
  /\ Replays(c, opState[seen[c].op])
  /\ UNCHANGED <<bindingVars, seen, inFlight, nodeVars>>

\* POST /v1/attempts/{op}/cancel: a tombstone, or whatever the row is by now.
Tombstone(c) ==
  LET o == seen[c].op
      applies == opState[o] \in {"absent", "accepted"}
  IN
  /\ pc[c] = "tombstone"
  /\ IF applies THEN Node!Cancel(o) ELSE UNCHANGED nodeVars
  /\ Goto(c, AfterView(c, IF applies THEN "cancelled_unsent" ELSE opState[o]))
  /\ Replays(c, opState[o])
  /\ UNCHANGED <<bindingVars, seen, inFlight>>

\* Its answer is lost: cancelled, and the handler fails.
TombstoneUnanswered(c) ==
  /\ pc[c] = "tombstone"
  /\ Node!Cancel(seen[c].op) /\ opState[seen[c].op] \in {"absent", "accepted"}
  /\ Goto(c, "done")
  /\ UNCHANGED <<bindingVars, seen, answer, inFlight>>

\* bind: the binding and its first attempt in one transaction.
Create(c) ==
  /\ pc[c] = "proceed"
  /\ IF current = NoCopy
     THEN current' = c /\ version' = 1 /\ hash' = c /\ attempts' = attempts \cup {c}
     ELSE UNCHANGED bindingVars
  /\ Goto(c, "created")
  /\ UNCHANGED <<seen, answer, inFlight, nodeVars>>

\* create reads the binding back in a transaction of its own; another copy's is
\* checked against the payload and looked at.
ReadBack(c) ==
  /\ pc[c] = "created"
  /\ IF current = c THEN Goto(c, "forward") /\ UNCHANGED seen ELSE LookedAt(c, "check")
  /\ UNCHANGED <<bindingVars, answer, inFlight, nodeVars>>

\* Mutant: the binding moves whatever version it has.
RebindAnyVersion(c) ==
  /\ pc[c] = "rebind"
  /\ IF c \in attempts THEN Goto(c, "done") /\ UNCHANGED bindingVars
     ELSE /\ current' = c /\ version' = version + 1 /\ attempts' = attempts \cup {c}
          /\ Goto(c, "rebound") /\ UNCHANGED hash
  /\ UNCHANGED <<seen, answer, inFlight, nodeVars>>

\* rebind: conditional on the version read.  An op id already recorded for the
\* key violates its unique constraint, and the handler fails.
Rebind(c) ==
  /\ pc[c] = "rebind"
  /\ \/ version = seen[c].version /\ c \notin attempts
        /\ current' = c /\ version' = version + 1 /\ attempts' = attempts \cup {c}
        /\ Goto(c, "rebound") /\ UNCHANGED hash
     \/ version = seen[c].version /\ c \in attempts
        /\ Goto(c, "done") /\ UNCHANGED bindingVars
     \/ version # seen[c].version
        /\ Goto(c, "rebound") /\ UNCHANGED bindingVars
  /\ UNCHANGED <<seen, answer, inFlight, nodeVars>>

\* rebind reads it back too; the winner of a lost rebind is looked at once more,
\* its payload being the one already compared.
Reread(c) ==
  /\ pc[c] = "rebound"
  /\ IF current = c THEN Goto(c, "forward") /\ UNCHANGED seen
     ELSE seen' = [seen EXCEPT ![c] = [op |-> current, version |-> version]] /\ Goto(c, "recheck")
  /\ UNCHANGED <<bindingVars, answer, inFlight, nodeVars>>

\* POST /v1/inference; resent once, under the same op id, if it cannot connect.
Forward(c) ==
  /\ pc[c] = "forward"
  /\ inFlight' = inFlight \cup {c}
  /\ Goto(c, "waiting")
  /\ UNCHANGED <<bindingVars, seen, answer, nodeVars>>

\* The stream's terminal event says completed, or the POST met its own result.
Receive(c) ==
  /\ pc[c] = "waiting" /\ c \notin inFlight /\ opState[c] = "completed"
  /\ answer' = [answer EXCEPT ![c] = c]
  /\ Goto(c, "done")
  /\ UNCHANGED <<bindingVars, seen, inFlight, nodeVars>>

\* An error, a refusal, a client that left or a gateway that died: whatever
\* the handler had sent is on its way.
Fails(c) ==
  /\ pc[c] \notin {"new", "done"}
  /\ Goto(c, "done")
  /\ UNCHANGED <<bindingVars, seen, answer, inFlight, nodeVars>>

-----------------------------------------------------------------------------
(* The network and the nodes.                                              *)

\* The POST arrives: a recorded op id is only observed, a new one is accepted,
\* or given up at once.
Arrive(c) ==
  /\ c \in inFlight
  /\ inFlight' = inFlight \ {c}
  /\ \/ Node!Accept(c)
     \/ opState[c] = "absent" /\ Node!Cancel(c)
     \/ opState[c] # "absent" /\ UNCHANGED nodeVars
  /\ UNCHANGED <<bindingVars, pc, seen, answer>>

\* Lost, or refused by the node's guard or gate before any row is written.
Dropped(c) ==
  /\ c \in inFlight
  /\ inFlight' = inFlight \ {c}
  /\ UNCHANGED <<bindingVars, pc, seen, answer, nodeVars>>

\* What the node's agents and its runtime do with a recorded operation.
NodeActs(c) ==
  /\ opState[c] # "absent"
  /\ \/ opState[c] = "accepted" /\ Node!Record(c, "running")
     \/ Node!Reach(c) \/ Node!Cancel(c) \/ Node!Complete(c) \/ Node!Fail(c) \/ Node!LoseTrack(c)
     \/ c \in working /\ Node!StopWork({c})
  /\ UNCHANGED <<bindingVars, pc, seen, answer, inFlight>>

Next ==
  \E c \in Copies :
    \/ Repeat(c) \/ View(c) \/ Tombstone(c) \/ TombstoneUnanswered(c)
    \/ Create(c) \/ ReadBack(c) \/ Rebind(c) \/ Reread(c) \/ Forward(c) \/ Receive(c) \/ Fails(c)
    \/ Arrive(c) \/ Dropped(c) \/ NodeActs(c)

Spec == Init /\ [][Next]_vars

-----------------------------------------------------------------------------
(* Correctness.                                                            *)

TypeOK ==
  /\ current \in Copies \cup {NoCopy} /\ version \in Nat /\ hash \in Copies \cup {NoCopy}
  /\ attempts \in SUBSET Copies
  /\ pc \in [Copies -> Place]
  /\ seen \in [Copies -> [op : Copies \cup {NoCopy}, version : Nat]]
  /\ answer \in [Copies -> Copies \cup {NoCopy}]
  /\ inFlight \in SUBSET Copies
  /\ opState \in [Copies -> {"absent", "accepted", "running", "outcome_unknown",
                             "completed", "failed", "cancelled_unsent"}]
  /\ sends \in [Copies -> Nat] /\ working \in SUBSET Copies

\* However many copies of a keyed request arrive, are lost, late or retried,
\* at most one of its attempts ever reaches a runtime: "nothing runs twice".
RunsOnce == \A c, d \in Copies : sends[c] > 0 /\ sends[d] > 0 => c = d

\* All callers that are answered asked the same thing and receive the result
\* of the same attempt, whichever of them ran it.
AnswersAgree ==
  \A c, d \in Copies : answer[c] # NoCopy /\ answer[d] # NoCopy =>
    answer[c] = answer[d] /\ PayloadOf[c] = PayloadOf[d]

-----------------------------------------------------------------------------
(* What makes them inductive.                                              *)

\* A bound key has its attempt; nothing is recorded or sent for a copy that is
\* not one of its attempts.
BoundIsAttempt ==
  /\ current = NoCopy <=> version = 0
  /\ current = NoCopy => attempts = {}
  /\ current # NoCopy => current \in attempts /\ hash \in attempts
  /\ \A c \in Copies : c \notin attempts => opState[c] = "absent" /\ c \notin inFlight

\* The binding moved on only from attempts that never ran.
SupersededUnsent ==
  \A c \in attempts : c # current => opState[c] = "cancelled_unsent"

\* What a handler read is an attempt, and the bound one while the version stands.
SeenIsAttempt ==
  \A c \in Copies : pc[c] \in Looking \cup {"rebind"} =>
    /\ seen[c].op \in attempts /\ seen[c].version <= version
    /\ seen[c].version = version => seen[c].op = current
    /\ SameHash(c)

\* It replaces an attempt only after seeing that it never ran, with its payload;
\* a handler that forwards is an attempt.
RebindsUnsent ==
  \A c \in Copies :
    /\ pc[c] = "rebind" => opState[seen[c].op] = "cancelled_unsent"
    /\ pc[c] \in {"created", "rebound"} => current # NoCopy
    /\ pc[c] = "rebound" => SameHash(c)
    /\ pc[c] \in {"forward", "waiting"} => c \in attempts

\* The ledger's promise, and what answers and attempts have in common.
AnsweredByAttempt ==
  \A c \in Copies :
    /\ sends[c] > 0 => opState[c] \notin {"absent", "accepted", "cancelled_unsent"}
    /\ answer[c] # NoCopy => answer[c] \in attempts /\ opState[answer[c]] = "completed" /\ SameHash(c)
    /\ c \in attempts => SameHash(c)

\* The inductive invariant of a key's binding.
BindingInv ==
  /\ TypeOK /\ BoundIsAttempt /\ SupersededUnsent /\ SeenIsAttempt /\ RebindsUnsent
  /\ AnsweredByAttempt
=============================================================================
