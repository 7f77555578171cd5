---------------------------- MODULE RequestProofs ----------------------------
(***************************************************************************)
(* Machine-checked proofs about what answers a request, for any number of  *)
(* copies and any payloads: the inductive invariant of a key's binding     *)
(* (RequestBinding), that at most one attempt of a key runs and that all   *)
(* answers agree; for any weights, lifecycle calls and faults, which       *)
(* weights answer it (WeightPins, an instance here); and, for any models,  *)
(* requests and troubles of a node, what its registry says of the models   *)
(* the runtime holds, and when they are restored (Residency, likewise).    *)
(***************************************************************************)
EXTENDS RequestBinding, Sequences, FiniteSetTheorems, WellFoundedInduction, TLAPS

USE CopyAssumption

-----------------------------------------------------------------------------
(* What a step of the nodes may do to an operation.                        *)

\* A node's step on one operation, as the gateway may rely on it: nothing
\* recorded is forgotten, nothing settled changes, and nothing is sent unless
\* the operation runs.
NodeStep(c) ==
  /\ opState' \in [Copies -> {"absent", "accepted", "running", "outcome_unknown",
                              "completed", "failed", "cancelled_unsent"}]
  /\ sends' \in [Copies -> Nat] /\ working' \in SUBSET Copies
  /\ \A d \in Copies : d # c => opState'[d] = opState[d] /\ sends'[d] = sends[d]
  /\ opState[c] \in {"completed", "failed", "cancelled_unsent"} =>
       opState'[c] = opState[c]
  /\ opState[c] # "absent" => opState'[c] # "absent"
  /\ sends'[c] > 0 => \/ sends[c] > 0 /\ opState'[c] = opState[c]
                      \/ opState'[c] \notin {"absent", "accepted", "cancelled_unsent"}

\* Every operation of the ledger that a copy's attempt meets is such a step.
LEMMA LedgerSteps ==
  ASSUME TypeOK, NEW c \in Copies,
         \/ Node!Accept(c) \/ Node!Cancel(c) \/ UNCHANGED nodeVars
         \/ opState[c] = "accepted" /\ Node!Record(c, "running")
         \/ Node!Reach(c) \/ Node!Complete(c) \/ Node!Fail(c) \/ Node!LoseTrack(c)
         \/ c \in working /\ Node!StopWork({c}),
         sends[c] > 0 => opState[c] \notin {"absent", "accepted", "cancelled_unsent"}
  PROVE  NodeStep(c)
<1> USE DEF TypeOK, NodeStep
<1>1. CASE Node!Accept(c)
  BY <1>1 DEF Node!Accept, Node!Record
<1>2. CASE Node!Cancel(c)
  BY <1>2 DEF Node!Cancel, Node!Record, Node!Open
<1>3. CASE UNCHANGED nodeVars
  BY <1>3 DEF nodeVars
<1>4. CASE opState[c] = "accepted" /\ Node!Record(c, "running")
  BY <1>4 DEF Node!Record
<1>5. CASE Node!Reach(c)
  BY <1>5 DEF Node!Reach
<1>6. CASE Node!Complete(c)
  BY <1>6 DEF Node!Complete, Node!Record
<1>7. CASE Node!Fail(c)
  BY <1>7 DEF Node!Fail, Node!Record
<1>8. CASE Node!LoseTrack(c)
  BY <1>8 DEF Node!LoseTrack, Node!Record
<1>9. CASE c \in working /\ Node!StopWork({c})
  BY <1>9 DEF Node!StopWork
<1> QED BY <1>1, <1>2, <1>3, <1>4, <1>5, <1>6, <1>7, <1>8, <1>9

-----------------------------------------------------------------------------
(* Steps that share an argument.                                           *)

\* A step of the nodes on an attempt, which leaves the binding and every
\* handler where they are, keeps the invariant: a superseded attempt is
\* settled, so only the bound one can change.
LEMMA NodesKeepInv ==
  ASSUME BindingInv, NEW c \in attempts, NodeStep(c),
         UNCHANGED <<bindingVars, pc, seen, answer>>, inFlight' \subseteq inFlight
  PROVE  BindingInv'
<1> USE DEF bindingVars
<1>1. c \in Copies /\ TypeOK
  BY DEF BindingInv, TypeOK
<1>2. TypeOK'
  BY <1>1 DEF TypeOK, NodeStep
<1>3. BoundIsAttempt'
  BY <1>1 DEF BindingInv, BoundIsAttempt, TypeOK, NodeStep
<1>4. SupersededUnsent'
  BY <1>1 DEF BindingInv, SupersededUnsent, TypeOK, NodeStep
<1>5. SeenIsAttempt'
  BY DEF BindingInv, SeenIsAttempt, SameHash
<1>6. RebindsUnsent'
  BY <1>1 DEF BindingInv, RebindsUnsent, SeenIsAttempt, TypeOK, NodeStep, SameHash
<1>7. AnsweredByAttempt'
  BY <1>1 DEF BindingInv, AnsweredByAttempt, TypeOK, NodeStep, SameHash
<1> QED BY <1>2, <1>3, <1>4, <1>5, <1>6, <1>7 DEF BindingInv

\* A handler that moves to a place where it relies on nothing keeps
\* the invariant.
LEMMA MovesKeepInv ==
  ASSUME BindingInv, NEW c \in Copies, NEW place \in {"proceed", "done", "created"},
         Goto(c, place), place = "created" => current # NoCopy, UNCHANGED <<bindingVars, seen, answer, inFlight, nodeVars>>
  PROVE  BindingInv'
<1> USE DEF bindingVars, nodeVars, Goto
<1>1. TypeOK'
  BY DEF BindingInv, TypeOK, Place
<1>2. BoundIsAttempt' /\ SupersededUnsent'
  BY DEF BindingInv, BoundIsAttempt, SupersededUnsent
<1>3. SeenIsAttempt' /\ RebindsUnsent'
  BY DEF BindingInv, TypeOK, SeenIsAttempt, RebindsUnsent, Looking, SameHash
<1>4. AnsweredByAttempt'
  BY DEF BindingInv, AnsweredByAttempt, SameHash
<1> QED BY <1>1, <1>2, <1>3, <1>4 DEF BindingInv

\* A handler that reads the binding of its own payload may look at it.
LEMMA LooksKeepInv ==
  ASSUME BindingInv, NEW c \in Copies, NEW place \in Looking,
         current # NoCopy, SameHash(c),
         seen' = [seen EXCEPT ![c] = [op |-> current, version |-> version]],
         Goto(c, place), UNCHANGED <<bindingVars, answer, inFlight, nodeVars>>
  PROVE  BindingInv'
<1> USE DEF bindingVars, nodeVars, Goto
<1>1. TypeOK'
  BY DEF BindingInv, TypeOK, Place, Looking
<1>2. BoundIsAttempt' /\ SupersededUnsent'
  BY DEF BindingInv, BoundIsAttempt, SupersededUnsent
<1>3. SeenIsAttempt'
  BY DEF BindingInv, TypeOK, SeenIsAttempt, BoundIsAttempt, Looking, SameHash
<1>4. RebindsUnsent'
  BY DEF BindingInv, TypeOK, RebindsUnsent, Looking, SameHash
<1>5. AnsweredByAttempt'
  BY DEF BindingInv, AnsweredByAttempt, SameHash
<1> QED BY <1>1, <1>2, <1>3, <1>4, <1>5 DEF BindingInv

\* A read whose payload differs leaves the handler with nothing to rely on.
LEMMA RefusalKeepsInv ==
  ASSUME BindingInv, NEW c \in Copies,
         seen' = [seen EXCEPT ![c] = [op |-> current, version |-> version]],
         Goto(c, "done"), UNCHANGED <<bindingVars, answer, inFlight, nodeVars>>
  PROVE  BindingInv'
<1> USE DEF bindingVars, nodeVars, Goto
<1>1. TypeOK'
  BY DEF BindingInv, TypeOK, Place
<1>2. BoundIsAttempt' /\ SupersededUnsent'
  BY DEF BindingInv, BoundIsAttempt, SupersededUnsent
<1>3. SeenIsAttempt' /\ RebindsUnsent'
  BY DEF BindingInv, TypeOK, SeenIsAttempt, RebindsUnsent, Looking, SameHash
<1>4. AnsweredByAttempt'
  BY DEF BindingInv, AnsweredByAttempt, SameHash
<1> QED BY <1>1, <1>2, <1>3, <1>4 DEF BindingInv

\* What the bound attempt's state decides: the handler goes where it may, and
\* answers only with a completed attempt of its own payload.
LEMMA ViewKeepsInv ==
  ASSUME BindingInv, NEW c \in Copies, pc[c] \in Looking,
         Goto(c, AfterView(c, opState[seen[c].op])), Replays(c, opState[seen[c].op]),
         UNCHANGED <<bindingVars, seen, inFlight, nodeVars>>
  PROVE  BindingInv'
<1> DEFINE s == opState[seen[c].op]
<1> USE DEF bindingVars, nodeVars, Goto
<1>1. seen[c].op \in attempts /\ SameHash(c)
  BY DEF BindingInv, SeenIsAttempt
<1>2. AfterView(c, s) \in {"tombstone", "proceed", "rebind", "done"}
  BY DEF AfterView
<1>3. AfterView(c, s) = "rebind" => s = "cancelled_unsent"
  BY DEF AfterView
<1>4. answer' = answer \/ (s = "completed" /\ answer' = [answer EXCEPT ![c] = seen[c].op])
  BY DEF Replays
<1>5. TypeOK'
  BY <1>1, <1>2, <1>4 DEF BindingInv, TypeOK, Place, Looking
<1>6. BoundIsAttempt' /\ SupersededUnsent'
  BY DEF BindingInv, BoundIsAttempt, SupersededUnsent
<1>7. SeenIsAttempt'
  BY <1>1, <1>2 DEF BindingInv, TypeOK, SeenIsAttempt, Looking, SameHash
<1>8. RebindsUnsent'
  BY <1>1, <1>2, <1>3 DEF BindingInv, TypeOK, RebindsUnsent, SameHash
<1>9. AnsweredByAttempt'
  BY <1>1, <1>4 DEF BindingInv, TypeOK, AnsweredByAttempt, SameHash
<1> QED BY <1>5, <1>6, <1>7, <1>8, <1>9 DEF BindingInv

-----------------------------------------------------------------------------
(* The invariant is inductive: one step per action.                        *)

\* A key nobody has used satisfies the invariant.
LEMMA InitInv == Init => BindingInv
BY DEF Init, Node!Init, BindingInv, TypeOK, Place, Looking, BoundIsAttempt, SupersededUnsent,
       SeenIsAttempt, RebindsUnsent, AnsweredByAttempt

\* bind's first write: the key is bound to the copy that found it free.
LEMMA CreateInv ==
  ASSUME BindingInv, NEW c \in Copies, Create(c)
  PROVE  BindingInv'
<1>1. CASE current # NoCopy
  BY <1>1, MovesKeepInv DEF Create
<1>2. CASE current = NoCopy
  <2> USE DEF Goto, nodeVars
  <2>1. /\ attempts = {} /\ version = 0 /\ current' = c /\ hash' = c /\ version' = 1
        /\ attempts' = {c} /\ pc' = [pc EXCEPT ![c] = "created"]
        /\ UNCHANGED <<seen, answer, inFlight, nodeVars>>
    BY <1>2 DEF BindingInv, BoundIsAttempt, Create
  <2>2. TypeOK'
    BY <2>1 DEF BindingInv, TypeOK, Place
  <2>3. BoundIsAttempt' /\ SupersededUnsent'
    BY <2>1 DEF BindingInv, TypeOK, BoundIsAttempt, SupersededUnsent
  <2>4. \A d \in Copies : pc[d] \notin Looking \cup {"rebind", "rebound", "forward", "waiting"}
    BY <1>2, <2>1 DEF BindingInv, SeenIsAttempt, RebindsUnsent
  <2>5. SeenIsAttempt' /\ RebindsUnsent'
    BY <2>1, <2>4 DEF BindingInv, TypeOK, SeenIsAttempt, RebindsUnsent, Looking
  <2>6. AnsweredByAttempt'
    BY <2>1 DEF BindingInv, AnsweredByAttempt, SameHash
  <2> QED BY <2>2, <2>3, <2>5, <2>6 DEF BindingInv
<1> QED BY <1>1, <1>2

\* bind's second write: the version read still stands, so the attempt left
\* behind is the one the handler saw unsent.
LEMMA RebindInv ==
  ASSUME BindingInv, NEW c \in Copies, Rebind(c)
  PROVE  BindingInv'
<1> USE DEF Goto, nodeVars, bindingVars
<1>1. /\ pc[c] = "rebind" /\ UNCHANGED <<seen, answer, inFlight, nodeVars>> /\ SameHash(c)
      /\ seen[c].op \in attempts /\ opState[seen[c].op] = "cancelled_unsent"
      /\ seen[c].version = version => seen[c].op = current
      /\ current \in attempts
  BY DEF Rebind, BindingInv, SeenIsAttempt, RebindsUnsent, BoundIsAttempt
<1>2. CASE version = seen[c].version /\ c \in attempts
  BY <1>2, MovesKeepInv DEF Rebind
<1>3. CASE version # seen[c].version
  <2>1. pc' = [pc EXCEPT ![c] = "rebound"] /\ UNCHANGED bindingVars
    BY <1>3 DEF Rebind
  <2>2. TypeOK'
    BY <1>1, <2>1 DEF BindingInv, TypeOK, Place
  <2>3. BoundIsAttempt' /\ SupersededUnsent'
    BY <1>1, <2>1 DEF BindingInv, BoundIsAttempt, SupersededUnsent
  <2>4. SeenIsAttempt' /\ RebindsUnsent'
    BY <1>1, <2>1 DEF BindingInv, TypeOK, BoundIsAttempt, SeenIsAttempt, RebindsUnsent, Looking, SameHash
  <2>5. AnsweredByAttempt'
    BY <1>1, <2>1 DEF BindingInv, AnsweredByAttempt, SameHash
  <2> QED BY <2>2, <2>3, <2>4, <2>5 DEF BindingInv
<1>4. CASE version = seen[c].version /\ c \notin attempts
  <2>1. /\ pc' = [pc EXCEPT ![c] = "rebound"] /\ current' = c /\ version' = version + 1
        /\ attempts' = attempts \cup {c} /\ hash' = hash
    BY <1>4 DEF Rebind
  <2>2. TypeOK'
    BY <1>1, <2>1 DEF BindingInv, TypeOK, Place
  <2>3. BoundIsAttempt'
    BY <1>1, <2>1 DEF BindingInv, TypeOK, BoundIsAttempt
  <2>4. SupersededUnsent'
    BY <1>1, <1>4, <2>1 DEF BindingInv, SupersededUnsent
  <2>5. SeenIsAttempt'
    BY <1>1, <2>1 DEF BindingInv, TypeOK, SeenIsAttempt, Looking, SameHash
  <2>6. RebindsUnsent'
    BY <1>1, <2>1 DEF BindingInv, TypeOK, RebindsUnsent, SameHash
  <2>7. AnsweredByAttempt'
    BY <1>1, <2>1 DEF BindingInv, AnsweredByAttempt, SameHash
  <2> QED BY <2>2, <2>3, <2>4, <2>5, <2>6, <2>7 DEF BindingInv
<1> QED BY <1>2, <1>3, <1>4

\* The tombstone is a step of the node followed by a look at what it left.
LEMMA TombstoneInv ==
  ASSUME BindingInv, NEW c \in Copies, Tombstone(c)
  PROVE  BindingInv'
<1> DEFINE o == seen[c].op
<1>1. pc[c] = "tombstone" /\ o \in attempts /\ o \in Copies
  BY DEF Tombstone, BindingInv, SeenIsAttempt, Looking, TypeOK
<1>2. CASE opState[o] \notin {"absent", "accepted"}
  BY <1>1, <1>2, ViewKeepsInv DEF Tombstone, Looking
<1>3. CASE opState[o] \in {"absent", "accepted"}
  <2>1. /\ opState' = [opState EXCEPT ![o] = "cancelled_unsent"] /\ UNCHANGED <<sends, working>>
        /\ pc' = [pc EXCEPT ![c] = "proceed"] /\ answer' = answer
        /\ UNCHANGED <<bindingVars, seen, inFlight>> /\ sends[o] = 0
    BY <1>1, <1>3 DEF Tombstone, Node!Cancel, Node!Record, AfterView, Replays, Goto
  <2> USE DEF bindingVars
  <2>2. TypeOK'
    BY <1>1, <2>1 DEF BindingInv, TypeOK, Place
  <2>3. BoundIsAttempt' /\ SupersededUnsent'
    BY <1>1, <2>1 DEF BindingInv, TypeOK, BoundIsAttempt, SupersededUnsent
  <2>4. SeenIsAttempt'
    BY <2>1 DEF BindingInv, TypeOK, SeenIsAttempt, Looking, SameHash
  <2>5. RebindsUnsent'
    BY <1>1, <2>1 DEF BindingInv, TypeOK, SeenIsAttempt, RebindsUnsent, SameHash
  <2>6. AnsweredByAttempt'
    BY <1>1, <1>3, <2>1 DEF BindingInv, TypeOK, AnsweredByAttempt, SameHash
  <2> QED BY <2>2, <2>3, <2>4, <2>5, <2>6 DEF BindingInv
<1> QED BY <1>2, <1>3

\* A tombstone whose answer is lost.
LEMMA UnansweredInv ==
  ASSUME BindingInv, NEW c \in Copies, TombstoneUnanswered(c)
  PROVE  BindingInv'
<1> DEFINE o == seen[c].op
<1>1. /\ pc[c] = "tombstone" /\ o \in attempts /\ o \in Copies
      /\ opState[o] \in {"absent", "accepted"} /\ sends[o] = 0
      /\ opState' = [opState EXCEPT ![o] = "cancelled_unsent"] /\ UNCHANGED <<sends, working>>
      /\ pc' = [pc EXCEPT ![c] = "done"] /\ UNCHANGED <<bindingVars, seen, answer, inFlight>>
  BY DEF TombstoneUnanswered, Node!Cancel, Node!Record, BindingInv, SeenIsAttempt, Looking, TypeOK, Goto
<1> USE DEF bindingVars
<1>2. TypeOK'
  BY <1>1 DEF BindingInv, TypeOK, Place
<1>3. BoundIsAttempt' /\ SupersededUnsent'
  BY <1>1 DEF BindingInv, TypeOK, BoundIsAttempt, SupersededUnsent
<1>4. SeenIsAttempt'
  BY <1>1 DEF BindingInv, TypeOK, SeenIsAttempt, Looking, SameHash
<1>5. RebindsUnsent'
  BY <1>1 DEF BindingInv, TypeOK, SeenIsAttempt, RebindsUnsent, SameHash
<1>6. AnsweredByAttempt'
  BY <1>1 DEF BindingInv, TypeOK, AnsweredByAttempt, SameHash
<1> QED BY <1>2, <1>3, <1>4, <1>5, <1>6 DEF BindingInv

\* The forward, and what comes back of it.
LEMMA ForwardInv ==
  ASSUME BindingInv, NEW c \in Copies,
         \/ Forward(c) \/ Receive(c)
         \/ pc[c] \in {"created", "rebound"} /\ current = c /\ Goto(c, "forward")
            /\ UNCHANGED <<bindingVars, seen, answer, inFlight, nodeVars>>
  PROVE  BindingInv'
<1> USE DEF bindingVars, nodeVars, Goto
<1>1. UNCHANGED <<bindingVars, seen, nodeVars>>
  BY DEF Forward, Receive
<1>2. /\ c \in attempts
      /\ \/ pc' = [pc EXCEPT ![c] = "waiting"] /\ answer' = answer
         \/ pc' = [pc EXCEPT ![c] = "forward"] /\ answer' = answer
         \/ /\ pc' = [pc EXCEPT ![c] = "done"] /\ answer' = [answer EXCEPT ![c] = c]
            /\ opState[c] = "completed"
      /\ inFlight' \subseteq inFlight \cup {c}
  BY DEF Forward, Receive, BindingInv, RebindsUnsent, BoundIsAttempt
<1>3. TypeOK'
  BY <1>1, <1>2 DEF BindingInv, TypeOK, Place
<1>4. BoundIsAttempt' /\ SupersededUnsent'
  BY <1>1, <1>2 DEF BindingInv, BoundIsAttempt, SupersededUnsent
<1>5. SeenIsAttempt'
  BY <1>1, <1>2 DEF BindingInv, TypeOK, SeenIsAttempt, Looking, SameHash
<1>6. RebindsUnsent'
  BY <1>1, <1>2 DEF BindingInv, TypeOK, RebindsUnsent, SameHash
<1>7. AnsweredByAttempt'
  BY <1>1, <1>2 DEF BindingInv, TypeOK, AnsweredByAttempt, SameHash
<1> QED BY <1>3, <1>4, <1>5, <1>6, <1>7 DEF BindingInv

\* Every step keeps the invariant.
LEMMA NextInv == BindingInv /\ [Next]_vars => BindingInv'
<1> SUFFICES ASSUME BindingInv, [Next]_vars PROVE BindingInv'
  OBVIOUS
<1>0. CASE UNCHANGED vars
  BY <1>0 DEF vars, bindingVars, nodeVars, BindingInv, TypeOK, BoundIsAttempt, SupersededUnsent,
              SeenIsAttempt, RebindsUnsent, AnsweredByAttempt, SameHash
<1>1. ASSUME NEW c \in Copies, Repeat(c) PROVE BindingInv'
  <2>1. CASE current = NoCopy
    BY <1>1, <2>1, MovesKeepInv DEF Repeat
  <2>2. CASE current # NoCopy /\ SameHash(c)
    BY <1>1, <2>2, LooksKeepInv DEF Repeat, LookedAt, Looking
  <2>3. CASE current # NoCopy /\ ~SameHash(c)
    BY <1>1, <2>3, RefusalKeepsInv DEF Repeat, LookedAt
  <2> QED BY <2>1, <2>2, <2>3
<1>2. ASSUME NEW c \in Copies, View(c) PROVE BindingInv'
  BY <1>2, ViewKeepsInv DEF View, Looking
<1>3. ASSUME NEW c \in Copies, ReadBack(c) PROVE BindingInv'
  <2>0. current # NoCopy
    BY <1>3 DEF ReadBack, BindingInv, RebindsUnsent
  <2>1. CASE current = c
    BY <1>3, <2>1, ForwardInv DEF ReadBack
  <2>2. CASE current # c /\ SameHash(c)
    BY <1>3, <2>0, <2>2, LooksKeepInv DEF ReadBack, LookedAt, Looking
  <2>3. CASE current # c /\ ~SameHash(c)
    BY <1>3, <2>3, RefusalKeepsInv DEF ReadBack, LookedAt
  <2> QED BY <2>1, <2>2, <2>3
<1>4. ASSUME NEW c \in Copies, Reread(c) PROVE BindingInv'
  <2>1. current # NoCopy /\ SameHash(c)
    BY <1>4 DEF Reread, BindingInv, RebindsUnsent
  <2>2. CASE current = c
    BY <1>4, <2>2, ForwardInv DEF Reread
  <2>3. CASE current # c
    BY <1>4, <2>1, <2>3, LooksKeepInv DEF Reread, Looking
  <2> QED BY <2>2, <2>3
<1>5. ASSUME NEW c \in Copies, Fails(c) PROVE BindingInv'
  BY <1>5, MovesKeepInv DEF Fails
<1>6. ASSUME NEW c \in Copies, Arrive(c) \/ Dropped(c) \/ NodeActs(c) PROVE BindingInv'
  <2>1. c \in attempts /\ TypeOK
    BY <1>6 DEF Arrive, Dropped, NodeActs, BindingInv, BoundIsAttempt
  <2>2. NodeStep(c)
    BY <1>6, <2>1, LedgerSteps DEF Arrive, Dropped, NodeActs, BindingInv, AnsweredByAttempt
  <2>3. UNCHANGED <<bindingVars, pc, seen, answer>> /\ inFlight' \subseteq inFlight
    BY <1>6 DEF Arrive, Dropped, NodeActs
  <2> QED BY <2>1, <2>2, <2>3, NodesKeepInv
<1> QED BY <1>0, <1>1, <1>2, <1>3, <1>4, <1>5, <1>6, CreateInv, RebindInv, TombstoneInv,
           UnansweredInv, ForwardInv DEF Next

-----------------------------------------------------------------------------
(* The theorems.                                                           *)

\* The invariant of a key's binding: a superseded attempt never ran, a handler
\* replaces only an attempt it saw unsent, an answer is a completed attempt's.
THEOREM BindingInvariant == Spec => []BindingInv
BY InitInv, NextInv, PTL DEF Spec

\* Over any number of copies of a keyed request, lost, late, repeated or
\* failing anywhere, at most one attempt reaches a runtime: all but the bound
\* one are recorded as unsent.
THEOREM KeyRunsOnce == Spec => []RunsOnce
<1>1. BindingInv => RunsOnce
  <2> SUFFICES ASSUME BindingInv, NEW c \in Copies, NEW d \in Copies, sends[c] > 0, sends[d] > 0
               PROVE  c = d
    BY DEF RunsOnce
  <2>1. \A x \in Copies : sends[x] > 0 => x = current
    BY DEF BindingInv, BoundIsAttempt, SupersededUnsent, AnsweredByAttempt
  <2> QED BY <2>1
<1> QED BY <1>1, BindingInvariant, PTL

\* All callers a key answers sent the same payload and get the result of the
\* same attempt, whether they ran it, waited for it or replayed it.
THEOREM KeyAnswersAgree == Spec => []AnswersAgree
<1>1. BindingInv => AnswersAgree
  <2> SUFFICES ASSUME BindingInv, NEW c \in Copies, NEW d \in Copies,
                      answer[c] # NoCopy, answer[d] # NoCopy
               PROVE  answer[c] = answer[d] /\ PayloadOf[c] = PayloadOf[d]
    BY DEF AnswersAgree
  <2>1. \A x \in Copies : answer[x] # NoCopy => answer[x] = current /\ SameHash(x)
    BY DEF BindingInv, SupersededUnsent, AnsweredByAttempt
  <2> QED BY <2>1 DEF SameHash
<1> QED BY <1>1, BindingInvariant, PTL

-----------------------------------------------------------------------------
(* Which weights answer.                                                   *)

\* The node, its registry row and its callers: WeightPins shares no state with the key's.
CONSTANTS Weights, Declares, Unpinned, Requests, Documents, MaxBatches, Pulls, Repins, Loads,
          Faults, MaxRewrites

VARIABLES disk, pin, validated, gate, handler, space, made, op, row, call, capacity, late,
          ran, rewrites

P == INSTANCE WeightPins

Handler == [pc : {"idle", "registered", "measured", "admitted", "checked", "sent", "ended"},
            pin : P!Digests, identity : P!Digests, batch : Nat, loose : BOOLEAN]
Operation == [by : P!Calls \cup {"none"}, digest : P!Digests,
              pc : {"none", "waiting", "running", "pulled", "pinning", "recording",
                    "measuring", "approving"}]
Call == [pc : {"start", "row", "fetching", "ready", "posted", "guarded", "ok", "refused",
               "failed", "unsure", "written"}, pin : P!Digests, declared : BOOLEAN]
Capacity == [known : [P!Digests -> P!Digests], epoch : Nat, by : P!Calls \cup {"none"},
             read : P!Digests, at : Nat]
States == {"absent", "accepted", "running", "completed", "failed", "unknown", "cancelled"}

PinTypes ==
  /\ disk \in Weights /\ pin \in P!Digests /\ validated \in BOOLEAN
  /\ gate \in {"serving", "draining", "blocked"}
  /\ handler \in [P!Senders -> Handler]
  /\ space \in [Documents -> P!Digests] /\ made \in [Documents -> SUBSET Weights]
  /\ op \in Operation /\ row \in [P!Calls -> States]
  /\ call \in [P!Calls -> Call] /\ capacity \in Capacity
  /\ late \in BOOLEAN /\ rewrites \in Nat /\ rewrites <= MaxRewrites

Inside == {"admitted", "checked", "sent"}
Occupied == {"running", "pulled", "pinning", "recording", "measuring", "approving"}

\* An operation at work and a pull nobody waits for have the node to themselves.
Alone ==
  /\ gate = "serving" => op.pc = "none"
  /\ op.pc # "none" => op.by \in P!Calls
  /\ op.pc \in Occupied => gate = "draining" /\ \A s \in P!Senders : handler[s].pc \notin Inside
  /\ late => gate = "blocked" /\ \A s \in P!Senders : handler[s].pc \notin Inside

\* What the guard and the relay made sure of.
Passed(s, h) ==
  /\ h.pc \in Inside \cup {"measured"} =>
       /\ h.identity \in Weights /\ P!PinAllows(h.pin, h.identity)
       /\ s \in Documents => h.identity = space[s]
  /\ h.pc = "checked" /\ ~h.loose => h.identity = disk

Guarded == \A s \in P!Senders : Passed(s, handler[s])

\* The digest an operation is about to pin is the one served, but for a hand on the host.
Named == op.pc \in {"pinning", "measuring", "approving"} => op.digest = disk \/ rewrites > 0

\* A context length found for a row was declared by the weights it names.
Declared ==
  \A k \in P!Calls : call[k].declared =>
    call[k].pc # "start" /\ call[k].pin \in Declares \cup {Unpinned}

PinsInv == PinTypes /\ Alone /\ Guarded /\ P!RunsAsCounted /\ P!OneSpace /\ Named /\ Declared

\* Handlers rest, and the disk with them or while nobody is past the guard.
LEMMA HandlersRest ==
  ASSUME Guarded, P!RunsAsCounted, P!OneSpace, UNCHANGED <<handler, space, made, ran>>,
         disk' = disk \/ \A s \in P!Senders : handler[s].pc \notin Inside
  PROVE  Guarded' /\ P!RunsAsCounted' /\ P!OneSpace'
<1>1. Guarded'
  BY DEF Guarded, Passed, Inside
<1>2. P!RunsAsCounted' /\ P!OneSpace'
  BY DEF P!RunsAsCounted, P!OneSpace
<1> QED BY <1>1, <1>2

\* One request moves, from inside or through an open gate, and nothing else but its outcome.
Moves(s, h) ==
  /\ handler' = [handler EXCEPT ![s] = h]
  /\ UNCHANGED <<disk, pin, validated, space, op, row, call, capacity, late, rewrites>>
  /\ h.pc \in Inside => handler[s].pc \in Inside \/ gate = "serving"
  /\ gate' = gate \/ (gate' = "blocked" /\ handler[s].pc = "sent")

Ledgered == made' \in [Documents -> SUBSET Weights] /\ P!RunsAsCounted' /\ P!OneSpace'

\* A step of one request keeps the invariant if what it leaves the request with does.
LEMMA HandlerMoves ==
  ASSUME PinsInv, NEW s \in P!Senders, NEW h \in Handler, Moves(s, h), Passed(s, h), Ledgered
  PROVE  PinsInv'
<1>0. /\ handler' \in [P!Senders -> Handler] /\ handler'[s] = h
      /\ \A t \in P!Senders : t # s => handler'[t] = handler[t]
  BY DEF PinsInv, PinTypes, Moves
<1>1. PinTypes'
  BY <1>0 DEF PinsInv, PinTypes, Moves, Ledgered
<1>2. Alone'
  <2>1. gate' = "serving" => op'.pc = "none"
    BY DEF PinsInv, Alone, Moves
  <2>2. ASSUME op.pc \in Occupied \/ late
        PROVE  gate' = gate /\ \A t \in P!Senders : handler'[t].pc \notin Inside
    <3>1. handler[s].pc \notin Inside /\ gate # "serving"
      BY <2>2 DEF PinsInv, Alone
    <3>2. gate' = gate
      BY <3>1 DEF Inside, Moves
    <3> QED BY <1>0, <2>2, <3>1, <3>2 DEF PinsInv, Alone, Moves
  <2> QED BY <2>1, <2>2 DEF PinsInv, Alone, Moves
<1>3. Guarded'
  <2> SUFFICES ASSUME NEW t \in P!Senders PROVE Passed(t, handler[t])'
    BY DEF Guarded
  <2>1. CASE t = s
    BY <1>0, <2>1 DEF Passed, Moves
  <2>2. CASE t # s
    BY <1>0, <2>2 DEF PinsInv, Guarded, Passed, Moves
  <2> QED BY <2>1, <2>2
<1>4. Named' /\ Declared'
  BY DEF PinsInv, Named, Declared, Moves
<1> QED BY <1>1, <1>2, <1>3, <1>4 DEF PinsInv, Ledgered

\* A sender is a request or a document.
LEMMA EndedTyped ==
  ASSUME NEW h \in Handler
  PROVE  /\ P!Ended(h) \in Handler /\ P!Ended(h).pc = "ended"
BY DEF Handler, P!Ended, P!NoHandler, P!Digests

\* The guard, the admission, the relay and the answer.
LEMMA RequestStep ==
  ASSUME P!WeightPinsAssumption, PinsInv, NEW s \in P!Senders,
         P!Register(s) \/ P!Measure(s) \/ P!Admit(s) \/ P!Revise(s) \/ P!Answered(s)
  PROVE  PinsInv'
<1>0. handler[s] \in Handler /\ disk \in Weights /\ pin \in P!Digests /\ Weights \subseteq P!Digests
  BY DEF PinsInv, PinTypes, P!Digests
<1>1. /\ UNCHANGED <<disk, pin, validated, space, op, row, call, capacity, late, rewrites>>
      /\ UNCHANGED <<made, ran>>
  BY DEF P!Register, P!Measure, P!Admit, P!Revise, P!Answered
<1>2. Ledgered
  BY <1>1 DEF PinsInv, PinTypes, Ledgered, P!RunsAsCounted, P!OneSpace
<1>4. \A h \in Handler : h.pc \in {"idle", "registered", "ended"} => Passed(s, h) /\ h.pc \notin Inside
  BY DEF Passed, Inside
<1>5. CASE P!Register(s)
  <2> DEFINE h == [handler[s] EXCEPT !.pc = "registered", !.pin = pin]
  <2>1. h \in Handler /\ h.pc = "registered"
    BY <1>0 DEF Handler
  <2>2. handler' = [handler EXCEPT ![s] = h] /\ gate' = gate
    BY <1>0, <1>5 DEF P!Register, PinsInv, PinTypes, Handler
  <2> HIDE DEF h
  <2>3. Passed(s, h) /\ h.pc \notin Inside
    BY <1>4, <2>1
  <2>4. Moves(s, h)
    BY <1>1, <2>2, <2>3 DEF Moves
  <2> QED BY <1>2, <2>1, <2>3, <2>4, HandlerMoves
<1>6. CASE P!Measure(s) /\ P!GuardPasses(s, disk)
  <2> DEFINE h == [handler[s] EXCEPT !.pc = "measured", !.identity = disk]
  <2>1. h \in Handler /\ h.pc = "measured" /\ h.identity = disk /\ h.pin = handler[s].pin
    BY <1>0 DEF Handler
  <2>2. handler' = [handler EXCEPT ![s] = h] /\ gate' = gate
    BY <1>6 DEF P!Measure
  <2> HIDE DEF h
  <2>3. Passed(s, h)
    BY <1>0, <1>6, <2>1 DEF Passed, P!GuardPasses, Inside
  <2>4. Moves(s, h)
    BY <1>1, <2>1, <2>2 DEF Moves, Inside
  <2> QED BY <1>2, <2>1, <2>3, <2>4, HandlerMoves
<1>7. CASE P!Admit(s) /\ gate = "serving"
  <2> DEFINE h == [handler[s] EXCEPT !.pc = "admitted"]
  <2>1. h \in Handler /\ h.pc = "admitted" /\ h.identity = handler[s].identity /\ h.pin = handler[s].pin
    BY <1>0 DEF Handler
  <2>2. handler' = [handler EXCEPT ![s] = h] /\ gate' = gate /\ handler[s].pc = "measured"
    BY <1>7 DEF P!Admit
  <2> HIDE DEF h
  <2>3. Passed(s, h)
    BY <2>1, <2>2 DEF PinsInv, Guarded, Passed, Inside
  <2>4. Moves(s, h)
    BY <1>1, <1>7, <2>2 DEF Moves
  <2> QED BY <1>2, <2>1, <2>3, <2>4, HandlerMoves
<1>8. CASE P!Revise(s) /\ P!RevisionMatches(s) /\ handler' = [handler EXCEPT ![s].pc = "checked"]
  <2> DEFINE h == [handler[s] EXCEPT !.pc = "checked"]
  <2>1. h \in Handler /\ h.pc = "checked" /\ h.identity = handler[s].identity /\ h.pin = handler[s].pin
    BY <1>0 DEF Handler
  <2>2. /\ handler' = [handler EXCEPT ![s] = h] /\ gate' = gate /\ handler[s].pc = "admitted"
        /\ handler[s].identity = disk
    BY <1>8 DEF P!Revise, P!RevisionMatches
  <2> HIDE DEF h
  <2>3. Passed(s, h)
    BY <2>1, <2>2 DEF PinsInv, Guarded, Passed, Inside
  <2>4. Moves(s, h)
    BY <1>1, <2>2 DEF Moves, Inside
  <2> QED BY <1>2, <2>1, <2>3, <2>4, HandlerMoves
<1>9. CASE /\ handler' = [handler EXCEPT ![s] = [P!NoHandler EXCEPT !.batch = handler[s].batch + 1]]
           /\ gate' = gate
  <2> DEFINE n == handler[s].batch + 1
             h == [P!NoHandler EXCEPT !.batch = n]
  <2>1. handler' = [handler EXCEPT ![s] = h]
    BY <1>9
  <2>2. n \in Nat
    BY <1>0 DEF Handler
  <2> HIDE DEF n
  <2>3. h \in Handler /\ h.pc = "idle"
    BY <2>2 DEF Handler, P!NoHandler, P!Digests
  <2> HIDE DEF h
  <2>4. Passed(s, h) /\ h.pc \notin Inside
    BY <1>4, <2>3
  <2>5. Moves(s, h)
    BY <1>1, <1>9, <2>1, <2>4 DEF Moves
  <2> QED BY <1>2, <2>3, <2>4, <2>5, HandlerMoves
<1>10. CASE /\ handler' = [handler EXCEPT ![s] = P!Ended(handler[s])]
            /\ gate' = gate \/ (gate' = "blocked" /\ handler[s].pc = "sent")
  <2>1. /\ P!Ended(handler[s]) \in Handler /\ Passed(s, P!Ended(handler[s]))
        /\ P!Ended(handler[s]).pc \notin Inside
    BY <1>0, <1>4, EndedTyped
  <2>2. Moves(s, P!Ended(handler[s]))
    BY <1>1, <1>10, <2>1 DEF Moves
  <2> QED BY <1>2, <2>1, <2>2, HandlerMoves
<1>11. CASE P!Measure(s) /\ ~P!GuardPasses(s, disk)
  <2>1. handler' = [handler EXCEPT ![s] = P!Ended(handler[s])] /\ gate' = gate
    BY <1>11 DEF P!Measure
  <2> QED BY <1>10, <2>1
<1>12. CASE P!Admit(s) /\ gate # "serving"
  <2>1. handler' = [handler EXCEPT ![s] = P!Ended(handler[s])] /\ gate' = gate
    BY <1>12 DEF P!Admit
  <2> QED BY <1>10, <2>1
<1>13. CASE P!Revise(s)
  <2>1. gate' = gate
    BY <1>13 DEF P!Revise
  <2>2. \/ P!RevisionMatches(s) /\ handler' = [handler EXCEPT ![s].pc = "checked"]
        \/ handler' = [handler EXCEPT ![s] = P!Ended(handler[s])]
    BY <1>13 DEF P!Revise
  <2> QED BY <1>8, <1>10, <1>13, <2>1, <2>2
<1>14. CASE P!Answered(s)
  <2>1. \/ /\ s \in Documents /\ gate' = gate
           /\ handler' = [handler EXCEPT ![s] = [P!NoHandler EXCEPT !.batch = handler[s].batch + 1]]
        \/ /\ handler' = [handler EXCEPT ![s] = P!Ended(handler[s])]
           /\ gate' = gate \/ (gate' = "blocked" /\ handler[s].pc = "sent")
    <3>1. CASE s \in Documents
      BY <1>14, <3>1 DEF P!Answered
    <3>2. CASE s \notin Documents
      BY <1>14, <3>2 DEF P!Answered
    <3> QED BY <3>1, <3>2
  <2> QED BY <1>9, <1>10, <2>1
<1> QED BY <1>5, <1>6, <1>7, <1>11, <1>12, <1>13, <1>14


\* What ran was counted against the weights it ran on, and what a document is made
\* of grows by those of its space only.
LEMMA SendStep ==
  ASSUME P!WeightPinsAssumption, PinsInv, NEW s \in P!Senders, P!Send(s)
  PROVE  PinsInv'
<1> DEFINE h == [handler[s] EXCEPT !.pc = "sent"]
<1>0. handler[s] \in Handler /\ handler[s].pc = "checked" /\ disk \in Weights
  BY DEF PinsInv, PinTypes, P!Send
<1>1. /\ h \in Handler /\ h.pc = "sent" /\ h.identity = handler[s].identity
      /\ h.pin = handler[s].pin
  BY <1>0 DEF Handler
<1>2. handler' = [handler EXCEPT ![s] = h] /\ gate' = gate
  BY DEF P!Send
<1> HIDE DEF h
<1>3. /\ handler[s].identity \in Weights /\ P!PinAllows(handler[s].pin, handler[s].identity)
      /\ s \in Documents => handler[s].identity = space[s]
      /\ ~handler[s].loose => handler[s].identity = disk
  BY <1>0 DEF PinsInv, Guarded, Passed, Inside
<1>4. Passed(s, h)
  BY <1>1, <1>3 DEF Passed
<1>5. Moves(s, h)
  BY <1>0, <1>2 DEF Moves, P!Send, Inside
<1>6. \A d \in Documents : made'[d] = IF d = s /\ ~handler[s].loose THEN made[d] \cup {disk} ELSE made[d]
  BY DEF P!Send
<1>7. made' \in [Documents -> SUBSET Weights]
  BY <1>0 DEF P!Send, PinsInv, PinTypes
<1>8. P!RunsAsCounted'
  BY <1>3 DEF P!Send, PinsInv, P!RunsAsCounted
<1>9. P!OneSpace'
  <2> SUFFICES ASSUME NEW d \in Documents PROVE made'[d] \subseteq {space'[d]}
    BY DEF P!OneSpace
  <2>1. space' = space /\ made[d] \subseteq {space[d]}
    BY DEF P!Send, PinsInv, P!OneSpace
  <2> QED BY <1>3, <1>6, <2>1
<1> QED BY <1>1, <1>4, <1>5, <1>7, <1>8, <1>9, HandlerMoves DEF Ledgered

\* A space is resolved before a vector is made or a batch is past the guard.
LEMMA ResolveStep ==
  ASSUME P!WeightPinsAssumption, PinsInv, NEW d \in Documents, P!ResolveSpace(d)
  PROVE  PinsInv'
<1>1. /\ space[d] = Unpinned /\ space' = [space EXCEPT ![d] = pin] /\ pin \in P!Digests
      /\ UNCHANGED <<disk, pin, validated, gate, handler, made, op, row, call, capacity, late, ran, rewrites>>
  BY DEF P!ResolveSpace, PinsInv, PinTypes
<1>2. PinTypes' /\ Alone' /\ Named' /\ Declared' /\ P!RunsAsCounted'
  BY <1>1 DEF PinsInv, PinTypes, Alone, Named, Declared, P!RunsAsCounted
<1>3. \A e \in Documents : space'[e] = IF e = d THEN pin ELSE space[e]
  BY <1>1 DEF PinsInv, PinTypes
<1>4. Guarded'
  <2> SUFFICES ASSUME NEW s \in P!Senders PROVE Passed(s, handler[s])'
    BY DEF Guarded
  <2>1. Passed(s, handler[s])
    BY DEF PinsInv, Guarded
  <2> QED BY <1>1, <1>3, <2>1 DEF Passed, P!WeightPinsAssumption
<1>5. P!OneSpace'
  <2> SUFFICES ASSUME NEW e \in Documents PROVE made[e] \subseteq {space'[e]}
    BY <1>1 DEF P!OneSpace
  <2>1. made[e] \subseteq {space[e]} /\ made[e] \subseteq Weights
    BY DEF PinsInv, PinTypes, P!OneSpace
  <2> QED BY <1>1, <1>3, <2>1 DEF P!WeightPinsAssumption
<1> QED BY <1>2, <1>4, <1>5 DEF PinsInv

\* A call of an administrator moves, or the cache beside it.
LEMMA CallMoves ==
  ASSUME PinsInv,
         UNCHANGED <<disk, pin, gate, handler, space, made, op, row, late, ran, rewrites>>,
         call' \in [P!Calls -> Call], capacity' \in Capacity, validated' \in BOOLEAN, Declared'
  PROVE  PinsInv'
<1>1. PinTypes'
  BY DEF PinsInv, PinTypes
<1>2. Alone' /\ Guarded' /\ P!RunsAsCounted' /\ P!OneSpace' /\ Named'
  BY DEF PinsInv, Alone, Guarded, Passed, P!RunsAsCounted, P!OneSpace, Named
<1> QED BY <1>1, <1>2 DEF PinsInv

\* One call moves to a state that keeps what is declared true of its row.
LEMMA OneCallMoves ==
  ASSUME PinsInv, NEW k \in P!Calls, NEW c \in Call, call' = [call EXCEPT ![k] = c],
         UNCHANGED <<disk, pin, gate, handler, space, made, op, row, late, ran, rewrites>>,
         capacity' \in Capacity, validated' \in BOOLEAN,
         c.declared => c.pc # "start" /\ c.pin \in Declares \cup {Unpinned}
  PROVE  PinsInv'
<1>1. call' \in [P!Calls -> Call] /\ \A j \in P!Calls : call'[j] = IF j = k THEN c ELSE call[j]
  BY DEF PinsInv, PinTypes
<1>2. Declared'
  BY <1>1 DEF PinsInv, Declared
<1> QED BY <1>1, <1>2, CallMoves

Pcs == {"row", "fetching", "ready", "posted", "guarded", "ok", "refused",
        "failed", "unsure", "written"}

\* A call that keeps its row and what it found of it.
LEMMA CallGoesOn ==
  ASSUME PinsInv, NEW k \in P!Calls, NEW place \in Pcs, call' = [call EXCEPT ![k].pc = place],
         UNCHANGED <<disk, pin, gate, handler, space, made, op, row, late, ran, rewrites>>,
         capacity' \in Capacity, validated' \in BOOLEAN
  PROVE  PinsInv'
<1> DEFINE c == [call[k] EXCEPT !.pc = place]
<1>1. call[k] \in Call /\ (call[k].declared => call[k].pin \in Declares \cup {Unpinned})
  BY DEF PinsInv, PinTypes, Declared
<1>2. c \in Call /\ c.declared = call[k].declared /\ c.pin = call[k].pin /\ c.pc # "start"
  BY <1>1 DEF Call, Pcs
<1>3. call' = [call EXCEPT ![k] = c]
  OBVIOUS
<1> HIDE DEF c
<1> QED BY <1>1, <1>2, <1>3, OneCallMoves

\* A context length read for a call is one its row's weights declare.
LEMMA CallFinds ==
  ASSUME P!WeightPinsAssumption, PinsInv, NEW k \in P!Calls, NEW document,
         call' = [call EXCEPT ![k].pc = "ready", ![k].declared = P!DeclaredOf(document, call[k].pin)],
         UNCHANGED <<disk, pin, gate, handler, space, made, op, row, late, ran, rewrites>>,
         capacity' \in Capacity, validated' \in BOOLEAN
  PROVE  PinsInv'
<1> DEFINE b == P!DeclaredOf(document, call[k].pin)
           c == [call[k] EXCEPT !.pc = "ready", !.declared = b]
<1>1. call[k] \in Call /\ b \in BOOLEAN /\ (b => call[k].pin \in Declares \cup {Unpinned})
  BY DEF PinsInv, PinTypes, P!DeclaredOf, P!PinAllows
<1>2. call' = [call EXCEPT ![k] = c]
  OBVIOUS
<1> HIDE DEF b
<1>3. c \in Call /\ c.declared = b /\ c.pin = call[k].pin /\ c.pc # "start"
  BY <1>1 DEF Call
<1> HIDE DEF c
<1> QED BY <1>1, <1>2, <1>3, OneCallMoves

\* The capacities of the adapter.
LEMMA CapacityTyped ==
  ASSUME PinsInv
  PROVE  /\ capacity \in Capacity /\ P!NoCapacities \in [P!Digests -> P!Digests]
         /\ \A m \in [P!Digests -> P!Digests] : [capacity EXCEPT !.known = m] \in Capacity
         /\ [capacity EXCEPT !.known = P!NoCapacities, !.epoch = capacity.epoch + 1] \in Capacity
         /\ \A k \in P!Calls : [capacity EXCEPT !.by = k, !.read = disk, !.at = capacity.epoch] \in Capacity
         /\ \A m \in [P!Digests -> P!Digests] :
              [capacity EXCEPT !.by = "none", !.read = Unpinned, !.known = m] \in Capacity
         /\ [capacity EXCEPT !.by = "none", !.read = Unpinned] \in Capacity
<1>1. capacity \in Capacity /\ disk \in P!Digests /\ Unpinned \in P!Digests
  BY DEF PinsInv, PinTypes, P!Digests
<1>2. P!NoCapacities \in [P!Digests -> P!Digests]
  BY <1>1 DEF P!NoCapacities
<1> DEFINE n == capacity.epoch + 1
<1>3. n \in Nat /\ capacity.epoch \in Nat
  BY <1>1 DEF Capacity
<1> HIDE DEF n
<1>4. [capacity EXCEPT !.known = P!NoCapacities, !.epoch = n] \in Capacity
  BY <1>1, <1>2, <1>3 DEF Capacity
<1>5. \A k \in P!Calls : [capacity EXCEPT !.by = k, !.read = disk, !.at = capacity.epoch] \in Capacity
  BY <1>1, <1>3 DEF Capacity
<1>6. \A m \in [P!Digests -> P!Digests] :
        /\ [capacity EXCEPT !.known = m] \in Capacity
        /\ [capacity EXCEPT !.by = "none", !.read = Unpinned, !.known = m] \in Capacity
  BY <1>1 DEF Capacity
<1>7. [capacity EXCEPT !.by = "none", !.read = Unpinned] \in Capacity
  BY <1>1 DEF Capacity
<1> QED BY <1>1, <1>2, <1>4, <1>5, <1>6, <1>7 DEF n

\* The administrators' calls and the capacity cache.
LEMMA CallStep ==
  ASSUME P!WeightPinsAssumption, PinsInv, NEW k \in P!Calls,
         \/ P!ReadRow(k) \/ P!CachedCapacity(k) \/ P!FetchCapacity(k) \/ P!FetchedCapacity(k)
         \/ P!FoundLoaded(k) \/ P!Post(k) \/ P!Answer(k) \/ P!SetCapacity(k) \/ P!GuardLoad(k)
  PROVE  PinsInv'
<1>0. /\ call[k] \in Call /\ capacity \in Capacity /\ validated \in BOOLEAN /\ pin \in P!Digests
      /\ disk \in P!Digests
  BY DEF PinsInv, PinTypes, P!Digests
<1>1. UNCHANGED <<disk, pin, gate, handler, space, made, op, row, late, ran, rewrites>>
  BY DEF P!ReadRow, P!CachedCapacity, P!FetchCapacity, P!FetchedCapacity, P!FoundLoaded, P!Post, P!Answer,
     P!SetCapacity, P!GuardLoad
<1>2. CASE P!ReadRow(k)
  <2> DEFINE c == [call[k] EXCEPT !.pc = "row", !.pin = pin]
  <2> SUFFICES PinsInv'
    OBVIOUS
  <2>1. call' = [call EXCEPT ![k] = c] /\ capacity' \in Capacity /\ validated' \in BOOLEAN
    BY <1>0, <1>2 DEF P!ReadRow
  <2>2. c \in Call /\ c.declared = call[k].declared
    BY <1>0 DEF Call
  <2>3. ~call[k].declared
    BY <1>2 DEF P!ReadRow, PinsInv, Declared
  <2> HIDE DEF c
  <2> QED BY <1>1, <2>1, <2>2, <2>3, OneCallMoves
<1>3. CASE P!CachedCapacity(k)
  BY <1>0, <1>1, <1>3, CallFinds DEF P!CachedCapacity
<1>4. CASE P!FetchCapacity(k)
  <2>1. capacity' \in Capacity
    BY <1>4, CapacityTyped DEF P!FetchCapacity
  <2>2. call' = [call EXCEPT ![k].pc = "fetching"] /\ validated' \in BOOLEAN /\ "fetching" \in Pcs
    BY <1>0, <1>4 DEF P!FetchCapacity, Pcs
  <2> QED BY <1>1, <2>1, <2>2, CallGoesOn
<1>5. CASE P!FetchedCapacity(k)
  <2>1. capacity' \in Capacity /\ validated' \in BOOLEAN
    <3>1. [P!NoCapacities EXCEPT ![call[k].pin] = capacity.read] \in [P!Digests -> P!Digests]
      BY <1>0, CapacityTyped DEF Capacity
    <3>2. capacity.known \in [P!Digests -> P!Digests]
      BY <1>0 DEF Capacity
    <3> DEFINE m == IF capacity.at = capacity.epoch
                    THEN [P!NoCapacities EXCEPT ![call[k].pin] = capacity.read] ELSE capacity.known
    <3>3. m \in [P!Digests -> P!Digests]
      BY <3>1, <3>2
    <3>4. \/ capacity' = [capacity EXCEPT !.by = "none", !.read = Unpinned, !.known = m]
          \/ capacity' = [capacity EXCEPT !.by = "none", !.read = Unpinned]
      BY <1>5 DEF P!FetchedCapacity
    <3> HIDE DEF m
    <3>5. validated' \in BOOLEAN
      BY <1>0, <1>5 DEF P!FetchedCapacity
    <3> QED BY <3>3, <3>4, <3>5, CapacityTyped
  <2>2. \/ call' = [call EXCEPT ![k].pc = "ready", ![k].declared = P!DeclaredOf(capacity.read, call[k].pin)]
        \/ call' = [call EXCEPT ![k].pc = "ready"]
    BY <1>5 DEF P!FetchedCapacity
  <2>3. "ready" \in Pcs
    BY DEF Pcs
  <2> QED BY <1>1, <2>1, <2>2, <2>3, CallFinds, CallGoesOn
<1>6. CASE P!FoundLoaded(k)
  <2>1. call' = [call EXCEPT ![k].pc = "ok"] /\ "ok" \in Pcs /\ capacity' \in Capacity /\ validated' \in BOOLEAN
    BY <1>0, <1>6 DEF P!FoundLoaded, Pcs
  <2> QED BY <1>1, <2>1, CallGoesOn
<1>7. CASE P!Post(k)
  <2>1. capacity' \in Capacity
    BY <1>7, CapacityTyped DEF P!Post
  <2>2. call' = [call EXCEPT ![k].pc = "posted"] /\ validated' \in BOOLEAN /\ "posted" \in Pcs
    BY <1>0, <1>7 DEF P!Post, Pcs
  <2> QED BY <1>1, <2>1, <2>2, CallGoesOn
<1>8. CASE P!Answer(k)
  <2>1. capacity' \in Capacity /\ validated' \in BOOLEAN
    BY <1>0, <1>8 DEF P!Answer
  <2>2. P!Told(k) \in Pcs /\ "unsure" \in Pcs
    BY DEF P!Told, Pcs
  <2>3. call' = [call EXCEPT ![k].pc = P!Told(k)] \/ call' = [call EXCEPT ![k].pc = "unsure"]
    BY <1>8 DEF P!Answer
  <2> QED BY <1>1, <2>1, <2>2, <2>3, CallGoesOn
<1>9. CASE P!SetCapacity(k)
  <2>1. call' = [call EXCEPT ![k].pc = "written"] /\ "written" \in Pcs /\ capacity' \in Capacity
    BY <1>0, <1>9 DEF P!SetCapacity, Pcs
  <2>2. validated' \in BOOLEAN
    BY <1>0, <1>9 DEF P!SetCapacity, Call
  <2> QED BY <1>1, <2>1, <2>2, CallGoesOn
<1>10. CASE P!GuardLoad(k)
  <2>1. capacity' \in Capacity /\ validated' \in BOOLEAN
    BY <1>0, <1>10 DEF P!GuardLoad
  <2> DEFINE to == IF P!PinAllows(pin, disk) THEN "guarded" ELSE "failed"
  <2>2. call' = [call EXCEPT ![k].pc = to] /\ to \in Pcs
    BY <1>10 DEF P!GuardLoad, Pcs
  <2> QED BY <1>1, <2>1, <2>2, CallGoesOn
<1> QED BY <1>2, <1>3, <1>4, <1>5, <1>6, <1>7, <1>8, <1>9, <1>10

\* An entry of the capacity cache expires.
LEMMA ExpireStep ==
  ASSUME PinsInv, P!ExpireCapacity
  PROVE  PinsInv'
<1>1. capacity' \in Capacity
  BY CapacityTyped DEF P!ExpireCapacity
<1>2. UNCHANGED <<disk, pin, gate, handler, space, made, op, row, late, ran, rewrites>>
      /\ validated' = validated /\ call' = call
  BY DEF P!ExpireCapacity
<1>3. call' \in [P!Calls -> Call] /\ validated' \in BOOLEAN /\ Declared'
  BY <1>2 DEF PinsInv, PinTypes, Declared
<1> QED BY <1>1, <1>2, <1>3, CallMoves

-----------------------------------------------------------------------------
(* The exclusive operation and the host.                                   *)

Gates == {"serving", "draining", "blocked"}
Nobody == \A s \in P!Senders : handler[s].pc \notin Inside

\* What an operation's step must keep: the node to itself, and the digest it is
\* about to pin.
LEMMA OperationMoves ==
  ASSUME PinsInv, UNCHANGED <<handler, space, made, ran, capacity, call, rewrites>>,
         disk' \in Weights, pin' \in P!Digests, validated' \in BOOLEAN, gate' \in Gates,
         op' \in Operation, row' \in [P!Calls -> States], late' \in BOOLEAN,
         disk' = disk \/ Nobody,
         gate' = "serving" => op'.pc = "none",
         op'.pc # "none" => op'.by \in P!Calls,
         op'.pc \in Occupied => gate' = "draining" /\ Nobody,
         late' => gate' = "blocked" /\ Nobody,
         Named'
  PROVE  PinsInv'
<1>1. PinTypes'
  BY DEF PinsInv, PinTypes, Gates
<1>2. Nobody' = Nobody
  BY DEF Nobody
<1>3. Alone'
  BY <1>2 DEF Alone, Nobody
<1>4. Guarded' /\ P!RunsAsCounted' /\ P!OneSpace'
  BY HandlersRest DEF PinsInv, Nobody
<1>5. Declared'
  BY DEF PinsInv, Declared
<1> QED BY <1>1, <1>3, <1>4, <1>5 DEF PinsInv

\* What is known while an operation is at work.
LEMMA AtWork ==
  ASSUME PinsInv
  PROVE  /\ disk \in Weights /\ disk \in P!Digests /\ pin \in P!Digests /\ validated \in BOOLEAN
         /\ gate \in Gates /\ op \in Operation /\ row \in [P!Calls -> States] /\ late \in BOOLEAN
         /\ P!NoOp \in Operation /\ P!NoOp.pc = "none" /\ "none" \notin Occupied
         /\ rewrites \in Nat
         /\ op.pc # "none" => op.by \in P!Calls /\ gate # "serving"
         /\ op.pc \in Occupied => gate = "draining" /\ Nobody /\ ~late /\ P!Reopened(gate) = "serving"
         /\ late => gate = "blocked" /\ Nobody
         /\ \A k \in P!Calls, v \in States : [row EXCEPT ![k] = v] \in [P!Calls -> States]
<1>1. PinTypes /\ Alone
  BY DEF PinsInv
<1>2. P!NoOp \in Operation /\ P!NoOp.pc = "none"
  BY DEF P!NoOp, Operation, P!Digests
<1>3. op.pc \in Occupied => gate = "draining" /\ Nobody /\ ~late
  BY <1>1 DEF Alone, Nobody
<1>4. \A k \in P!Calls, v \in States : [row EXCEPT ![k] = v] \in [P!Calls -> States]
  BY <1>1 DEF PinTypes
<1>5. /\ disk \in Weights /\ disk \in P!Digests /\ pin \in P!Digests /\ validated \in BOOLEAN
      /\ gate \in Gates /\ op \in Operation /\ row \in [P!Calls -> States] /\ late \in BOOLEAN
      /\ rewrites \in Nat
  BY <1>1 DEF PinTypes, P!Digests, Gates
<1>6. op.pc # "none" => op.by \in P!Calls /\ gate # "serving"
  BY <1>1 DEF Alone
<1>7. late => gate = "blocked" /\ Nobody
  BY <1>1 DEF Alone, Nobody
<1>8. "none" \notin Occupied
  BY DEF Occupied
<1> QED BY <1>2, <1>3, <1>4, <1>5, <1>6, <1>7, <1>8 DEF P!Reopened

\* An operation ends, in the outcome given or as it was.
LEMMA OperationEnds ==
  ASSUME PinsInv, op.pc # "none", op' = P!NoOp,
         UNCHANGED <<handler, space, made, ran, capacity, call, rewrites, disk, late>>,
         pin' \in P!Digests, validated' \in BOOLEAN, gate' \in Gates,
         row' \in [P!Calls -> States], late => gate' = "blocked"
  PROVE  PinsInv'
<1>1. Named'
  BY DEF Named, P!NoOp
<1> QED BY <1>1, AtWork, OperationMoves

\* An operation goes on to its next step, the node its own.
LEMMA OperationGoesOn ==
  ASSUME PinsInv, op.pc \in Occupied, op' \in Operation, op'.by = op.by, op'.pc \in Occupied,
         UNCHANGED <<handler, space, made, ran, capacity, call, rewrites, gate, late>>,
         disk' \in Weights, pin' \in P!Digests, validated' \in BOOLEAN,
         row' \in [P!Calls -> States],
         op'.pc \in {"pinning", "measuring", "approving"} => op'.digest = disk' \/ rewrites > 0
  PROVE  PinsInv'
<1>1. Named'
  BY DEF Named
<1>2. op.pc # "none" /\ op'.pc # "none"
  BY AtWork
<1> QED BY <1>1, <1>2, AtWork, OperationMoves

\* The outcome of the runtime is committed.
LEMMA SettledMoves ==
  ASSUME PinsInv, op.pc \in Occupied, NEW outcome \in {"completed", "failed"}, P!Settled(outcome),
         UNCHANGED <<handler, space, made, ran, capacity, call, rewrites, late, validated>>,
         pin' \in P!Digests, disk' \in Weights, outcome = "failed" => disk' = disk
  PROVE  PinsInv'
<1>1. op.by \in P!Calls /\ op.pc # "none" /\ op \in Operation /\ row' \in [P!Calls -> States]
      /\ validated' \in BOOLEAN
  <2>1. op.by \in P!Calls /\ op.pc # "none"
    BY AtWork
  <2>2. outcome \in States /\ row' = [row EXCEPT ![op.by] = outcome]
    BY DEF States, P!Settled
  <2> QED BY <2>1, <2>2, AtWork
<1>2. CASE outcome = "completed"
  <2> DEFINE next == IF op.by \in Pulls THEN "pulled" ELSE "recording"
             o == [op EXCEPT !.pc = next]
  <2>1. op' = o /\ gate' = gate
    BY <1>2 DEF P!Settled
  <2>2. next \in {"pulled", "recording"}
    OBVIOUS
  <2> HIDE DEF next
  <2>3. o \in Operation /\ o.by = op.by /\ o.pc = next
    BY <1>1, <2>2 DEF Operation
  <2> HIDE DEF o
  <2>4. next \in Occupied /\ next \notin {"pinning", "measuring", "approving"}
    BY <2>2 DEF Occupied
  <2> QED BY <1>1, <2>1, <2>3, <2>4, OperationGoesOn
<1>3. CASE outcome = "failed"
  <2>1. op' = P!NoOp /\ gate' = P!Reopened(gate) /\ disk' = disk
    BY <1>3 DEF P!Settled
  <2>2. gate' \in Gates /\ ~late
    BY <2>1, AtWork DEF Gates
  <2> QED BY <1>1, <2>1, <2>2, OperationEnds
<1> QED BY <1>2, <1>3

\* The gate closes for an operation, or the call is refused.
LEMMA ExclusiveStep ==
  ASSUME P!WeightPinsAssumption, PinsInv, NEW k \in P!Calls, P!Exclusive(k)
  PROVE  PinsInv'
<1>1. CASE gate = "serving"
  <2> DEFINE o == [P!NoOp EXCEPT !.by = k, !.pc = "waiting"]
  <2>1. /\ op' = o /\ row' = [row EXCEPT ![k] = "accepted"] /\ gate' = "draining"
        /\ UNCHANGED <<handler, space, made, ran, capacity, call, rewrites, disk, pin, validated, late>>
    BY <1>1 DEF P!Exclusive
  <2>2. o \in Operation /\ o.by = k /\ o.pc = "waiting"
    BY DEF Operation, P!NoOp, P!Digests
  <2> HIDE DEF o
  <2>3. "accepted" \in States /\ "waiting" \notin Occupied
    BY DEF States, Occupied
  <2>4. ~late
    BY <1>1, AtWork
  <2>5. Named'
    BY <2>1, <2>2 DEF Named
  <2>6. row' \in [P!Calls -> States] /\ gate' \in Gates
    BY <2>1, <2>3, AtWork DEF Gates
  <2> QED BY <2>1, <2>2, <2>3, <2>4, <2>5, <2>6, AtWork, OperationMoves
<1>2. CASE gate # "serving"
  <2>1. /\ call' = [call EXCEPT ![k].pc = "failed"]
        /\ UNCHANGED <<disk, pin, gate, handler, space, made, op, row, late, ran, rewrites>>
        /\ UNCHANGED <<capacity, validated>>
    BY <1>2 DEF P!Exclusive
  <2>2. "failed" \in Pcs /\ capacity' \in Capacity /\ validated' \in BOOLEAN
    BY <2>1, AtWork, CapacityTyped DEF Pcs
  <2> QED BY <2>1, <2>2, CallGoesOn
<1> QED BY <1>1, <1>2

\* The work before it has ended: the operation starts, or is cancelled.
LEMMA PromoteStep ==
  ASSUME PinsInv, P!PromoteExclusive
  PROVE  PinsInv'
<1>0. /\ op.pc = "waiting" /\ op \in Operation
      /\ UNCHANGED <<handler, space, made, ran, capacity, call, rewrites, disk, pin, validated, late>>
      /\ gate' = gate
  BY AtWork DEF P!PromoteExclusive
<1>1. Nobody
  BY DEF P!PromoteExclusive, P!Idle, P!Admitted, Nobody, Inside
<1>2. CASE gate = "draining"
  <2> DEFINE o == [op EXCEPT !.pc = "running"]
  <2>1. op' = o /\ row' = [row EXCEPT ![op.by] = "running"]
    BY <1>2 DEF P!PromoteExclusive
  <2>2. o \in Operation /\ o.by = op.by /\ o.pc = "running"
    BY <1>0 DEF Operation
  <2> HIDE DEF o
  <2>3. "running" \in States
    BY DEF States
  <2>4. Named'
    BY <2>1, <2>2 DEF Named
  <2>5. row' \in [P!Calls -> States] /\ op.by \in P!Calls /\ ~late
    BY <1>0, <1>2, <2>1, <2>3, AtWork
  <2> QED BY <1>0, <1>1, <1>2, <2>1, <2>2, <2>4, <2>5, AtWork, OperationMoves
<1>3. CASE gate # "draining"
  <2>1. op' = P!NoOp /\ row' = [row EXCEPT ![op.by] = "cancelled"] /\ "cancelled" \in States
    BY <1>3 DEF P!PromoteExclusive, States
  <2>2. row' \in [P!Calls -> States] /\ op.by \in P!Calls
    BY <1>0, <2>1, AtWork
  <2> QED BY <1>0, <2>1, <2>2, AtWork, OperationEnds
<1> QED BY <1>2, <1>3

\* The runtime, the follow-up of a pull and the operator's re-pin.
LEMMA OperationStep ==
  ASSUME P!WeightPinsAssumption, PinsInv,
         \/ P!RunAtRuntime \/ P!RunUncertain \/ P!ReadServed \/ P!PinServed \/ P!RecordCapacity
         \/ (\E w \in Weights : P!RepinServed(w)) \/ P!RepinMeasured \/ P!RepinWritten
  PROVE  PinsInv'
<1>0. /\ op.pc \in Occupied /\ op \in Operation /\ op.by \in P!Calls /\ op.pc # "none"
      /\ gate = "draining" /\ Nobody /\ ~late /\ P!Reopened(gate) = "serving"
      /\ UNCHANGED <<handler, space, made, ran, capacity, call, rewrites>>
      /\ disk \in Weights /\ disk \in P!Digests /\ pin \in P!Digests /\ validated \in BOOLEAN
      /\ row \in [P!Calls -> States] /\ "serving" \in Gates /\ "blocked" \in Gates
  <2>1. /\ op.pc \in Occupied
        /\ UNCHANGED <<handler, space, made, ran, capacity, call, rewrites>>
    BY DEF P!RunAtRuntime, P!RunUncertain, P!ReadServed, P!PinServed, P!RecordCapacity, P!RepinServed,
       P!RepinMeasured, P!RepinWritten, Occupied
  <2> QED BY <2>1, AtWork DEF Gates
<1>1. \A place \in Occupied : [op EXCEPT !.pc = place] \in Operation
  BY <1>0 DEF Operation, Occupied
<1>2. \A place \in Occupied : [op EXCEPT !.pc = place, !.digest = disk] \in Operation
  BY <1>0 DEF Operation, Occupied
<1>3. \A place \in Occupied :
        /\ [op EXCEPT !.pc = place].by = op.by /\ [op EXCEPT !.pc = place].pc = place
        /\ [op EXCEPT !.pc = place].digest = op.digest
        /\ [op EXCEPT !.pc = place, !.digest = disk].by = op.by
        /\ [op EXCEPT !.pc = place, !.digest = disk].pc = place
        /\ [op EXCEPT !.pc = place, !.digest = disk].digest = disk
  BY <1>0 DEF Operation
<1>4. CASE P!RunAtRuntime
  <2>1. /\ UNCHANGED <<late, validated>> /\ pin' \in P!Digests /\ disk' \in Weights
        /\ P!Settled("completed") \/ (P!Settled("failed") /\ disk' = disk)
    BY <1>0, <1>4 DEF P!RunAtRuntime
  <2> QED BY <1>0, <2>1, SettledMoves
<1>5. CASE P!RunUncertain
  <2>1. /\ op' = P!NoOp /\ gate' = "blocked" /\ late' = (op.by \in Pulls)
        /\ row' = [row EXCEPT ![op.by] = "unknown"] /\ UNCHANGED <<disk, pin, validated>>
    BY <1>5 DEF P!RunUncertain
  <2>2. row' \in [P!Calls -> States] /\ late' \in BOOLEAN /\ Named'
    BY <1>0, <2>1 DEF States, Named, P!NoOp
  <2> QED BY <1>0, <2>1, <2>2, AtWork, OperationMoves
<1>6. CASE P!ReadServed
  <2>1. UNCHANGED <<disk, pin, validated, late, row>>
    BY <1>6 DEF P!ReadServed
  <2>2. CASE op' = [op EXCEPT !.pc = "pinning", !.digest = disk] /\ gate' = gate
    <3>1. "pinning" \in Occupied
      BY DEF Occupied
    <3> QED BY <1>0, <1>2, <1>3, <2>1, <2>2, <3>1, OperationGoesOn
  <2>3. CASE op' = P!NoOp /\ gate' = P!Reopened(gate)
    BY <1>0, <2>1, <2>3, OperationEnds
  <2> QED BY <1>6, <2>2, <2>3 DEF P!ReadServed
<1>7. CASE P!PinServed
  <2>1. UNCHANGED <<disk, validated, late, row>> /\ op.digest \in P!Digests
    BY <1>0, <1>7 DEF P!PinServed, Operation
  <2>2. CASE pin' = op.digest /\ op' = [op EXCEPT !.pc = "recording"] /\ gate' = gate
    <3>1. "recording" \in Occupied
      BY DEF Occupied
    <3> QED BY <1>0, <1>1, <1>3, <2>1, <2>2, <3>1, OperationGoesOn
  <2>3. CASE pin' = pin /\ op' = P!NoOp /\ gate' = P!Reopened(gate)
    BY <1>0, <2>1, <2>3, OperationEnds
  <2> QED BY <1>7, <2>2, <2>3 DEF P!PinServed
<1>8. CASE P!RecordCapacity
  <2>1. UNCHANGED <<disk, pin, late, row>> /\ op' = P!NoOp /\ gate' = P!Reopened(gate)
    BY <1>8 DEF P!RecordCapacity
  <2>2. validated' \in BOOLEAN
    <3>1. validated' = (disk \in Declares) \/ validated' = validated
      BY <1>8 DEF P!RecordCapacity
    <3>2. CASE validated' = validated
      <4>1. validated \in BOOLEAN
        BY <1>0
      <4> QED BY <4>1, <3>2
    <3>3. CASE validated' = (disk \in Declares)
      <4>1. (disk \in Declares) \in BOOLEAN
        OBVIOUS
      <4> QED BY <4>1, <3>3
    <3> QED BY <3>1, <3>2, <3>3
  <2> QED BY <1>0, <2>1, <2>2, OperationEnds
<1>9. ASSUME NEW w \in Weights, P!RepinServed(w) PROVE PinsInv'
  <2>1. UNCHANGED <<disk, pin, validated, late>>
    BY <1>9 DEF P!RepinServed
  <2>2. CASE disk = w /\ op' = [op EXCEPT !.pc = "measuring", !.digest = w] /\ UNCHANGED <<row, gate>>
    <3>1. "measuring" \in Occupied
      BY DEF Occupied
    <3> QED BY <1>0, <1>2, <1>3, <2>1, <2>2, <3>1, OperationGoesOn
  <2>3. CASE P!Settled("failed")
    BY <1>0, <2>1, <2>3, SettledMoves
  <2> QED BY <1>9, <2>2, <2>3 DEF P!RepinServed
<1>10. CASE P!RepinMeasured
  <2>1. UNCHANGED <<disk, pin, validated, late>>
    BY <1>10 DEF P!RepinMeasured
  <2>2. CASE disk = op.digest /\ op' = [op EXCEPT !.pc = "approving"] /\ UNCHANGED <<row, gate>>
    <3>1. "approving" \in Occupied
      BY DEF Occupied
    <3> QED BY <1>0, <1>1, <1>3, <2>1, <2>2, <3>1, OperationGoesOn
  <2>3. CASE P!Settled("failed")
    BY <1>0, <2>1, <2>3, SettledMoves
  <2> QED BY <1>10, <2>2, <2>3 DEF P!RepinMeasured
<1>11. CASE P!RepinWritten
  <2>1. UNCHANGED <<disk, validated, late>> /\ op.digest \in P!Digests
    BY <1>0, <1>11 DEF P!RepinWritten, Operation
  <2>2. pin' \in P!Digests /\ (P!Settled("completed") \/ P!Settled("failed"))
    BY <1>0, <1>11, <2>1 DEF P!RepinWritten
  <2> QED BY <1>0, <2>1, <2>2, SettledMoves
<1> QED BY <1>4, <1>5, <1>6, <1>7, <1>8, <1>9, <1>10, <1>11

\* A pull nobody waits for ends while the node is blocked.
LEMMA LatePullStep ==
  ASSUME PinsInv, P!LatePull
  PROVE  PinsInv'
<1>1. /\ late /\ late' = FALSE /\ disk' \in Weights
      /\ UNCHANGED <<pin, validated, gate, handler, space, made, op, row, call, capacity, ran, rewrites>>
  BY DEF P!LatePull
<1>2. gate = "blocked" /\ Nobody /\ op.pc \notin Occupied
  BY <1>1, AtWork
<1>3. Named'
  BY <1>1, <1>2 DEF Named, Occupied
<1> QED BY <1>1, <1>2, <1>3, AtWork, OperationMoves

\* The agent dies, and with it what it had in hand.
LEMMA CrashStep ==
  ASSUME P!WeightPinsAssumption, PinsInv, P!Crash
  PROVE  PinsInv'
<1>1. /\ op' = P!NoOp /\ UNCHANGED <<disk, pin, validated, space, made, capacity, ran, rewrites>>
      /\ handler' = [s \in P!Senders |-> IF handler[s].pc = "idle" THEN handler[s] ELSE P!Ended(handler[s])]
      /\ call' = [k \in P!Calls |-> IF call[k].pc \in {"posted", "guarded"} /\ row[k] = "absent"
                                  THEN [call[k] EXCEPT !.pc = "unsure"] ELSE call[k]]
  BY DEF P!Crash
<1>2. PinTypes
  BY DEF PinsInv
<1>3. handler' \in [P!Senders -> Handler] /\ \A s \in P!Senders : handler'[s].pc \in {"idle", "ended"}
  <2>1. \A s \in P!Senders : /\ handler'[s] \in Handler /\ handler'[s].pc \in {"idle", "ended"}
    BY <1>1, <1>2, EndedTyped DEF PinTypes
  <2> QED BY <1>1, <2>1
<1>4. \A k \in P!Calls : /\ call'[k] \in Call
                         /\ call'[k].declared => call'[k].pc # "start" /\ call'[k].pin \in Declares \cup {Unpinned}
  <2> SUFFICES ASSUME NEW k \in P!Calls
               PROVE  /\ call'[k] \in Call
                      /\ call'[k].declared => call'[k].pc # "start" /\ call'[k].pin \in Declares \cup {Unpinned}
    OBVIOUS
  <2> DEFINE c == [call[k] EXCEPT !.pc = "unsure"]
  <2>1. call[k] \in Call
    BY <1>2 DEF PinTypes
  <2>2. c \in Call /\ c.declared = call[k].declared /\ c.pin = call[k].pin /\ c.pc = "unsure"
    BY <2>1 DEF Call
  <2>3. call'[k] = c \/ call'[k] = call[k]
    BY <1>1
  <2> HIDE DEF c
  <2> QED BY <2>1, <2>2, <2>3 DEF PinsInv, Declared
<1>5. gate' \in Gates /\ late' \in BOOLEAN /\ (late' => gate' = "blocked") 
  <2>1. late => gate = "blocked"
    BY AtWork
  <2>2. late \in BOOLEAN
    BY AtWork
  <2> QED BY <2>1, <2>2 DEF P!Crash, Gates
<1>6. row' \in [P!Calls -> States]
  <2>1. \A k \in P!Calls : row'[k] \in States
    BY <1>2 DEF P!Crash, PinTypes, States
  <2> QED BY <2>1 DEF P!Crash
<1>7. PinTypes'
  <2>1. UNCHANGED <<disk, pin, validated, space, made, capacity, rewrites>>
        /\ op' \in Operation
    BY <1>1, AtWork
  <2>2. handler' \in [P!Senders -> Handler] /\ call' \in [P!Calls -> Call]
    <3>1. call' = [k \in P!Calls |-> call'[k]]
      BY <1>1
    <3> QED BY <1>3, <1>4, <3>1
  <2> QED BY <1>2, <1>5, <1>6, <2>1, <2>2 DEF PinTypes, Gates
<1>8. Alone' /\ Named' /\ Declared'
  <2>1. op'.pc = "none"
    BY <1>1, AtWork
  <2>2. Alone'
    BY <1>3, <1>5, <2>1, AtWork DEF Alone, Inside, Occupied
  <2>3. Named'
    BY <2>1 DEF Named
  <2>4. Declared'
    BY <1>4 DEF Declared
  <2> QED BY <2>2, <2>3, <2>4
<1>9. Guarded'
  BY <1>3 DEF Guarded, Passed, Inside
<1>10. P!RunsAsCounted' /\ P!OneSpace'
  BY <1>1 DEF PinsInv, P!RunsAsCounted, P!OneSpace
<1> QED BY <1>7, <1>8, <1>9, <1>10 DEF PinsInv

\* The runtime was restarted: nothing of it is left.
LEMMA RestartStep ==
  ASSUME PinsInv, P!Restart
  PROVE  PinsInv'
<1>1. /\ op = P!NoOp /\ gate' = "serving" /\ late' = FALSE
      /\ UNCHANGED <<disk, pin, validated, handler, space, made, op, call, capacity, ran, rewrites>>
  BY DEF P!Restart
<1>2. row' \in [P!Calls -> States]
  <2>1. \A k \in P!Calls : row'[k] \in States
    BY AtWork DEF P!Restart, States
  <2> QED BY <2>1 DEF P!Restart
<1>3. Named' /\ gate' \in Gates
  BY <1>1 DEF Named, P!NoOp, Gates
<1> QED BY <1>1, <1>2, <1>3, AtWork, OperationMoves

\* A hand on the host: whoever is between the relay's check and the runtime is loose.
LEMMA RewriteStep ==
  ASSUME P!WeightPinsAssumption, PinsInv, NEW w \in Weights, P!RewriteTag(w)
  PROVE  PinsInv'
<1>1. /\ rewrites < MaxRewrites /\ disk' = w /\ rewrites' = rewrites + 1
      /\ handler' = [s \in P!Senders |-> [handler[s] EXCEPT !.loose = handler[s].loose \/ handler[s].pc = "checked"]]
      /\ UNCHANGED <<pin, validated, gate, space, made, op, row, call, capacity, late, ran>>
  BY DEF P!RewriteTag
<1>2. rewrites \in Nat /\ PinTypes
  BY DEF PinsInv, PinTypes
<1>3. \A s \in P!Senders :
        /\ handler'[s] \in Handler /\ handler'[s].pc = handler[s].pc /\ handler'[s].pin = handler[s].pin
        /\ handler'[s].identity = handler[s].identity
        /\ handler[s].pc = "checked" => handler'[s].loose
  <2> SUFFICES ASSUME NEW s \in P!Senders
               PROVE  /\ handler'[s] \in Handler /\ handler'[s].pc = handler[s].pc
                      /\ handler'[s].pin = handler[s].pin
                      /\ handler'[s].identity = handler[s].identity
                      /\ handler[s].pc = "checked" => handler'[s].loose
    OBVIOUS
  <2> DEFINE b == handler[s].loose \/ handler[s].pc = "checked"
             h == [handler[s] EXCEPT !.loose = b]
  <2>1. handler'[s] = h /\ b \in BOOLEAN /\ (handler[s].pc = "checked" => b)
    BY <1>1
  <2>2. handler[s] \in Handler
    BY <1>2 DEF PinTypes
  <2> HIDE DEF b
  <2>3. /\ h \in Handler /\ h.pc = handler[s].pc /\ h.pin = handler[s].pin
        /\ h.identity = handler[s].identity /\ h.loose = b
    BY <2>1, <2>2 DEF Handler
  <2> HIDE DEF h
  <2> QED BY <2>1, <2>3
<1>4. handler' \in [P!Senders -> Handler]
  BY <1>1, <1>3
<1>5. rewrites' \in Nat /\ rewrites' <= MaxRewrites /\ rewrites' > 0
  BY <1>1, <1>2 DEF P!WeightPinsAssumption
<1>6. PinTypes'
  BY <1>1, <1>2, <1>4, <1>5 DEF PinTypes
<1>7. Alone'
  BY <1>1, <1>3 DEF PinsInv, Alone
<1>8. Guarded'
  <2> SUFFICES ASSUME NEW s \in P!Senders PROVE Passed(s, handler[s])'
    BY DEF Guarded
  <2>1. Passed(s, handler[s])
    BY DEF PinsInv, Guarded
  <2> QED BY <1>1, <1>3, <2>1 DEF Passed
<1>9. P!RunsAsCounted' /\ P!OneSpace' /\ Named' /\ Declared'
  BY <1>1, <1>5 DEF PinsInv, P!RunsAsCounted, P!OneSpace, Named, Declared
<1> QED BY <1>6, <1>7, <1>8, <1>9 DEF PinsInv

\* The invariant of the weights that answer.
THEOREM PinsInvariant ==
  ASSUME P!WeightPinsAssumption
  PROVE  P!Spec => []PinsInv
<1>1. P!Init => PinsInv
  <2> SUFFICES ASSUME P!Init PROVE PinsInv
    OBVIOUS
  <2>1. P!NoHandler \in Handler /\ P!NoHandler.pc = "idle"
    BY DEF P!NoHandler, Handler, P!Digests
  <2>2. P!NoOp \in Operation /\ P!NoOp.pc = "none"
    BY DEF P!NoOp, Operation, P!Digests
  <2>3. P!NoCapacities \in [P!Digests -> P!Digests]
    BY DEF P!NoCapacities, P!Digests
  <2>4. capacity \in Capacity
    <3>1. 0 \in Nat
      OBVIOUS
    <3> QED BY <2>3, <3>1 DEF P!Init, Capacity, P!Digests
  <2>5. call \in [P!Calls -> Call] /\ \A k \in P!Calls : ~call[k].declared
    BY DEF P!Init, Call, P!Digests
  <2>6. rewrites \in Nat /\ rewrites <= MaxRewrites
    BY DEF P!Init, P!WeightPinsAssumption
  <2>7. PinTypes
    BY <2>1, <2>2, <2>4, <2>5, <2>6 DEF P!Init, PinTypes, P!Digests, States
  <2>8. Alone /\ Guarded /\ Named
    BY <2>1, <2>2 DEF P!Init, Alone, Guarded, Passed, Named, Inside, Occupied
  <2>9. P!RunsAsCounted /\ P!OneSpace /\ Declared
    BY <2>5 DEF P!Init, P!RunsAsCounted, P!OneSpace, Declared
  <2> QED BY <2>7, <2>8, <2>9 DEF PinsInv
<1>2. PinsInv /\ [P!Next]_P!vars => PinsInv'
  <2> SUFFICES ASSUME PinsInv, [P!Next]_P!vars PROVE PinsInv'
    OBVIOUS
  <2>1. ASSUME NEW s \in P!Senders,
               P!Register(s) \/ P!Measure(s) \/ P!Admit(s) \/ P!Revise(s) \/ P!Send(s) \/ P!Answered(s)
        PROVE  PinsInv'
    BY <2>1, RequestStep, SendStep
  <2>2. ASSUME NEW k \in P!Calls,
               \/ P!ReadRow(k) \/ P!CachedCapacity(k) \/ P!FetchCapacity(k) \/ P!FetchedCapacity(k)
               \/ P!FoundLoaded(k) \/ P!Post(k) \/ P!Answer(k) \/ P!SetCapacity(k) \/ P!GuardLoad(k)
               \/ P!Exclusive(k)
        PROVE  PinsInv'
    BY <2>2, CallStep, ExclusiveStep
  <2>3. CASE \/ P!RunAtRuntime \/ P!RunUncertain \/ P!ReadServed \/ P!PinServed \/ P!RecordCapacity
             \/ (\E w \in Weights : P!RepinServed(w)) \/ P!RepinMeasured \/ P!RepinWritten
    BY <2>3, OperationStep
  <2>4. CASE (\E d \in Documents : P!ResolveSpace(d)) \/ P!ExpireCapacity \/ P!PromoteExclusive \/ P!LatePull
    BY <2>4, ResolveStep, ExpireStep, PromoteStep, LatePullStep
  <2>5. CASE P!Crash \/ P!Restart \/ \E w \in Weights : P!RewriteTag(w)
    BY <2>5, CrashStep, RestartStep, RewriteStep
  <2>6. CASE UNCHANGED P!vars
    BY <2>6 DEF P!vars, PinsInv, PinTypes, Alone, Guarded, Passed, P!RunsAsCounted, P!OneSpace, Named, Declared
  <2> QED BY <2>1, <2>2, <2>3, <2>4, <2>5, <2>6 DEF P!Next
<1> QED BY <1>1, <1>2, PTL DEF P!Spec

\* What runs is what its prompt was counted against and what the guard found
\* pinned, and a document's vectors are of one space, whatever is pulled,
\* re-pinned or lost beside it (check_pin, _revision_mismatch, check_generation).
THEOREM CountedIsRun ==
  ASSUME P!WeightPinsAssumption
  PROVE  P!Spec => [](P!TypeOK /\ P!RunsAsCounted /\ P!OneSpace)
<1>1. PinsInv => P!TypeOK
  <2> SUFFICES ASSUME PinsInv PROVE P!TypeOK
    OBVIOUS
  <2>1. PinTypes
    BY DEF PinsInv
  <2>2. \A s \in P!Senders : /\ handler[s].pc \in {"idle", "registered", "measured", "admitted",
                                                   "checked", "sent", "ended"}
                             /\ {handler[s].pin, handler[s].identity} \subseteq P!Digests
    BY <2>1 DEF PinTypes, Handler
  <2>3. op.by \in P!Calls \cup {"none"} /\ op.digest \in P!Digests /\ capacity.known \in [P!Digests -> P!Digests]
    BY <2>1 DEF PinTypes, Operation, Capacity
  <2>4. rewrites \in 0..MaxRewrites
    BY <2>1 DEF PinTypes, P!WeightPinsAssumption
  <2> QED BY <2>1, <2>2, <2>3, <2>4 DEF P!TypeOK, PinTypes, States
<1>2. PinsInv => P!RunsAsCounted /\ P!OneSpace
  BY DEF PinsInv
<1> QED BY <1>1, <1>2, PinsInvariant, PTL

\* A pull and a re-pin move the pin only to weights the node serves at that moment,
\* but for a hand on the host (_repin and _operator_repin, which run with the node
\* to themselves).
THEOREM PinIsServed ==
  ASSUME P!WeightPinsAssumption
  PROVE  P!Spec => [][P!PinNamesServed]_P!vars
<1>1. PinsInv /\ [P!Next]_P!vars => [P!PinNamesServed]_P!vars
  <2> SUFFICES ASSUME PinsInv, P!Next, pin' # pin PROVE pin' = disk \/ rewrites > 0
    BY DEF P!PinNamesServed, P!vars
  <2>1. /\ op.pc \in {"pinning", "approving"} /\ pin' = op.digest
    BY DEF P!Next, P!ResolveSpace, P!Register, P!Measure, P!Admit, P!Revise, P!Send, P!Answered, P!ReadRow,
       P!CachedCapacity, P!FetchCapacity, P!FetchedCapacity, P!FoundLoaded, P!Post, P!Answer, P!SetCapacity,
       P!GuardLoad, P!Exclusive, P!ExpireCapacity, P!PromoteExclusive, P!RunAtRuntime, P!RunUncertain,
       P!LatePull, P!ReadServed, P!PinServed, P!RecordCapacity, P!RepinServed, P!RewriteTag, P!RepinMeasured,
       P!RepinWritten, P!Crash, P!Restart
  <2> QED BY <2>1 DEF PinsInv, Named
<1> QED BY <1>1, PinsInvariant, PTL DEF P!Spec

\* A row's capacity becomes known only from weights the row names, whatever was
\* cached or pulled since they were read (set_capacity_validated, _record_capacity).
THEOREM CapacityIsOfThePinned ==
  ASSUME P!WeightPinsAssumption
  PROVE  P!Spec => [][P!CapacityOfPinned]_P!vars
<1>1. PinsInv /\ [P!Next]_P!vars => [P!CapacityOfPinned]_P!vars
  <2> SUFFICES ASSUME PinsInv, P!Next, ~validated, validated' PROVE pin' \in Declares \cup {Unpinned}
    BY DEF P!CapacityOfPinned, P!vars
  <2>1. P!RecordCapacity \/ \E k \in P!Calls : P!SetCapacity(k)
    BY DEF P!Next, P!ResolveSpace, P!Register, P!Measure, P!Admit, P!Revise, P!Send, P!Answered, P!ReadRow,
       P!CachedCapacity, P!FetchCapacity, P!FetchedCapacity, P!FoundLoaded, P!Post, P!Answer,
       P!GuardLoad, P!Exclusive, P!ExpireCapacity, P!PromoteExclusive, P!RunAtRuntime, P!RunUncertain,
       P!LatePull, P!ReadServed, P!PinServed, P!RepinServed, P!RewriteTag, P!RepinMeasured,
       P!RepinWritten, P!Crash, P!Restart
  <2>2. CASE P!RecordCapacity
    BY <2>2 DEF P!RecordCapacity, P!PinAllows
  <2>3. ASSUME NEW k \in P!Calls, P!SetCapacity(k) PROVE pin' \in Declares \cup {Unpinned}
    BY <2>3 DEF P!SetCapacity, PinsInv, Declared
  <2> QED BY <2>1, <2>2, <2>3
<1> QED BY <1>1, PinsInvariant, PTL DEF P!Spec

\* Where every follow-up succeeds and nobody else touches the tag, a node serves
\* only while its pin is of the weights it has: a pull re-pins before it reopens.
THEOREM ServingIsPinned ==
  ASSUME P!WeightPinsAssumption
  PROVE  P!Spec => []P!ServesPinned
<1> DEFINE Quiet == Faults = {} /\ MaxRewrites = 0
           Paired == Quiet => ~late /\ (op.pc \notin {"pulled", "pinning"} => P!PinAllows(pin, disk))
<1>1. P!Init => Paired
  BY DEF P!Init, P!PinAllows
<1>2. PinsInv /\ Paired /\ [P!Next]_P!vars => Paired'
  <2> SUFFICES ASSUME PinsInv, Paired, [P!Next]_P!vars, Quiet
               PROVE  ~late' /\ (op'.pc \notin {"pulled", "pinning"} => P!PinAllows(pin, disk)')
    OBVIOUS
  <2>1. ~late /\ rewrites = 0 /\ op \in Operation /\ P!NoOp.pc = "none"
    BY DEF PinsInv, PinTypes, P!NoOp
  <2>2. CASE UNCHANGED <<disk, pin, op, late>>
    BY <2>1, <2>2 DEF P!PinAllows
  <2>3. ASSUME NEW k \in P!Calls, P!Exclusive(k)
        PROVE  ~late' /\ (op'.pc \notin {"pulled", "pinning"} => P!PinAllows(pin, disk)')
    <3>1. UNCHANGED <<disk, pin, late>>
      BY <2>3 DEF P!Exclusive
    <3>2. gate = "serving" \/ op' = op
      BY <2>3 DEF P!Exclusive
    <3>3. gate = "serving" => op.pc = "none"
      BY DEF PinsInv, Alone
    <3> QED BY <2>1, <3>1, <3>2, <3>3 DEF P!PinAllows
  <2>4. CASE P!PromoteExclusive \/ P!RecordCapacity
    BY <2>1, <2>4 DEF P!PromoteExclusive, P!RecordCapacity, P!PinAllows
  <2>5. CASE P!RunAtRuntime
    <3>1. ~late' /\ pin' = pin /\ op.pc = "running"
      BY <2>1, <2>5 DEF P!RunAtRuntime
    <3>2. CASE P!Settled("completed") /\ op.by \in Pulls
      <4>1. op' = [op EXCEPT !.pc = "pulled"]
        BY <3>2 DEF P!Settled
      <4>2. op'.pc = "pulled"
        BY <2>1, <4>1 DEF Operation
      <4> QED BY <3>1, <4>2
    <3>3. CASE disk' = disk
      BY <3>1, <3>3 DEF P!PinAllows
    <3> QED BY <2>5, <3>2, <3>3 DEF P!RunAtRuntime
  <2>6. CASE P!ReadServed
    <3>1. op' = [op EXCEPT !.pc = "pinning", !.digest = disk] /\ late' = late
      BY <2>6 DEF P!ReadServed
    <3>2. op'.pc = "pinning"
      BY <2>1, <3>1 DEF Operation
    <3> QED BY <2>1, <3>1, <3>2
  <2>7. CASE P!PinServed \/ P!RepinWritten
    <3>1. op.digest = disk
      BY <2>1, <2>7 DEF P!PinServed, P!RepinWritten, PinsInv, Named
    <3> QED BY <2>1, <2>7, <3>1 DEF P!PinServed, P!RepinWritten, P!PinAllows
  <2>8. CASE P!RepinMeasured \/ \E w \in Weights : P!RepinServed(w)
    <3>1. UNCHANGED <<disk, pin, late>> /\ op.pc \in {"measuring", "running"}
      BY <2>8 DEF P!RepinMeasured, P!RepinServed
    <3> QED BY <2>1, <3>1 DEF P!PinAllows
  <2>9. CASE P!RunUncertain \/ P!LatePull \/ P!Crash
    BY <2>1, <2>9 DEF P!RunUncertain, P!LatePull, P!Crash
  <2>10. ASSUME NEW w \in Weights, P!RewriteTag(w) PROVE FALSE
    BY <2>1, <2>10 DEF P!RewriteTag
  <2>11. CASE P!Restart
    BY <2>1, <2>11 DEF P!Restart, P!PinAllows
  <2>12. \/ UNCHANGED <<disk, pin, op, late>> \/ (\E k \in P!Calls : P!Exclusive(k))
         \/ P!PromoteExclusive \/ P!RecordCapacity \/ P!RunAtRuntime \/ P!ReadServed \/ P!PinServed
         \/ P!RepinWritten \/ P!RepinMeasured \/ (\E w \in Weights : P!RepinServed(w))
         \/ P!RunUncertain \/ P!LatePull \/ P!Crash \/ (\E w \in Weights : P!RewriteTag(w)) \/ P!Restart
    BY DEF P!Next, P!vars, P!ResolveSpace, P!Register, P!Measure, P!Admit, P!Revise, P!Send, P!Answered, P!ReadRow,
       P!CachedCapacity, P!FetchCapacity, P!FetchedCapacity, P!FoundLoaded, P!Post, P!Answer, P!SetCapacity,
       P!GuardLoad, P!ExpireCapacity
  <2> QED BY <2>2, <2>3, <2>4, <2>5, <2>6, <2>7, <2>8, <2>9, <2>10, <2>11, <2>12
<1>3. PinsInv /\ Paired => P!ServesPinned
  <2>1. PinsInv /\ gate = "serving" => op.pc = "none"
    BY DEF PinsInv, Alone
  <2> QED BY <2>1 DEF P!ServesPinned
<1> QED BY <1>1, <1>2, <1>3, PinsInvariant, PTL DEF P!Spec

-----------------------------------------------------------------------------
(* Which models the reconciler restores, and in what order.                *)

\* A node's registry of models and the tasks that move it, as one node's own.
CONSTANTS Models, Size, Budget, AbsenceFrees, WantedFirst, Operator, Trouble, GiveUpAfter,
          MaxRepairRounds, MaxOps, MaxFaults

VARIABLES resident, load, unld, pull, probe, lock, rec, evidence, backoff, intents, node, spent,
          ghost

R == INSTANCE Residency

\* The instance counts as this module does.
LEMMA SameFinite ==
  ASSUME NEW S
  PROVE  R!IsFiniteSet(S) <=> IsFiniteSet(S)
BY DEF R!IsFiniteSet, IsFiniteSet

\* A set has one cardinality.
LEMMA SameCount ==
  ASSUME NEW S
  PROVE  R!Cardinality(S) = Cardinality(S)
BY DEF R!Cardinality, Cardinality

\* The registry's models are finitely many.
LEMMA FiniteModels ==
  ASSUME R!ResidencyAssumption
  PROVE  IsFiniteSet(Models)
BY SameFinite DEF R!ResidencyAssumption

\* A set of models that is not empty has a first one (the next of an observation).
LEMMA FirstOfModels ==
  ASSUME R!ResidencyAssumption, NEW L \in SUBSET Models, L # {}
  PROVE  R!Min(L) \in L
<1>1. L \in SUBSET Nat
  BY DEF R!ResidencyAssumption
<1>2. PICK x \in L : \A y \in L : ~ (<<y, x>> \in OpToRel(<, Nat))
  BY <1>1, WFMin, NatLessThanWellFounded
<1>3. \A y \in L : ~(y < x)
  BY <1>1, <1>2 DEF OpToRel
<1>4. \A y \in L : x <= y
  BY <1>1, <1>3
<1> QED BY <1>4 DEF R!Min

\* The order of sizes and aliases is a strict total one.
LEMMA OrderIsTotal ==
  ASSUME R!ResidencyAssumption
  PROVE  /\ \A a \in Models : ~R!RestoredBefore(a, a)
         /\ \A a, b \in Models : a = b \/ R!RestoredBefore(a, b) \/ R!RestoredBefore(b, a)
         /\ \A a, b, c \in Models : R!RestoredBefore(a, b) /\ R!RestoredBefore(b, c) => R!RestoredBefore(a, c)
         /\ \A a, b \in Models : ~(R!RestoredBefore(a, b) /\ R!RestoredBefore(b, a))
<1>1. \A a \in Models : a \in Nat /\ Size[a] \in Nat
  BY DEF R!ResidencyAssumption
<1> QED BY <1>1 DEF R!RestoredBefore

\* A set of models can be put in that order: each takes the place after those that
\* precede it.
LEMMA Sortable ==
  ASSUME R!ResidencyAssumption, NEW S \in SUBSET Models
  PROVE  \E q \in R!SetToSeqs(S) : \A i, j \in DOMAIN q : i < j => R!RestoredBefore(q[i], q[j])
<1> DEFINE D == 1..Cardinality(S)
           Before(a) == {b \in S : R!RestoredBefore(b, a)}
           rank == [a \in S |-> Cardinality(Before(a)) + 1]
<1>1. IsFiniteSet(S) /\ Cardinality(S) \in Nat
  BY FiniteModels, FS_Subset, FS_CardinalityType
<1>2. \A a \in S : IsFiniteSet(Before(a)) /\ Cardinality(Before(a)) \in Nat
                   /\ Cardinality(Before(a)) < Cardinality(S)
  <2> SUFFICES ASSUME NEW a \in S
               PROVE  IsFiniteSet(Before(a)) /\ Cardinality(Before(a)) \in Nat
                      /\ Cardinality(Before(a)) < Cardinality(S)
    OBVIOUS
  <2>1. Before(a) \in SUBSET S /\ Before(a) # S
    BY OrderIsTotal
  <2> HIDE DEF Before
  <2>2. IsFiniteSet(Before(a)) /\ Cardinality(Before(a)) \in Nat
    BY <1>1, <2>1, FS_Subset, FS_CardinalityType
  <2> QED BY <1>1, <2>1, <2>2, FS_Subset
<1>3. \A a, b \in S : R!RestoredBefore(a, b) => Cardinality(Before(a)) < Cardinality(Before(b))
  <2> SUFFICES ASSUME NEW a \in S, NEW b \in S, R!RestoredBefore(a, b)
               PROVE  Cardinality(Before(a)) < Cardinality(Before(b))
    OBVIOUS
  <2>1. Before(a) \in SUBSET Before(b) /\ Before(a) # Before(b)
    BY OrderIsTotal
  <2> HIDE DEF Before
  <2>2. Cardinality(Before(a)) <= Cardinality(Before(b))
        /\ (Cardinality(Before(a)) = Cardinality(Before(b)) => Before(a) = Before(b))
    BY <1>2, <2>1, FS_Subset
  <2> QED BY <1>2, <2>1, <2>2
<1>4. rank \in Injection(S, D)
  <2>1. \A a \in S : rank[a] \in D
    <3> HIDE DEF Before
    <3> QED BY <1>1, <1>2
  <2>2. \A a, b \in S : a # b => rank[a] # rank[b]
    <3> HIDE DEF Before
    <3>1. \A a, b \in S : a # b => R!RestoredBefore(a, b) \/ R!RestoredBefore(b, a)
      BY OrderIsTotal
    <3> QED BY <1>2, <1>3, <3>1
  <2> HIDE DEF D, rank
  <2>3. rank \in [S -> D]
    <3>1. rank = [a \in S |-> rank[a]]
      BY DEF rank
    <3> QED BY <2>1, <3>1
  <2> QED BY <2>2, <2>3 DEF Injection, IsInjective
<1>5. rank \in Surjection(S, D)
  <2> HIDE DEF rank
  <2>1. IsFiniteSet(D) /\ Cardinality(D) = Cardinality(S)
    BY <1>1, FS_Interval
  <2> HIDE DEF D
  <2> QED BY <1>1, <1>4, <2>1, FS_Injection
<1> DEFINE q == [i \in D |-> CHOOSE a \in S : rank[a] = i]
<1>6. \A i \in D : q[i] \in S /\ rank[q[i]] = i
  <2>1. \A i \in D : \E a \in S : rank[a] = i
    <3> HIDE DEF D, rank
    <3> QED BY <1>5 DEF Surjection
  <2> HIDE DEF D, rank
  <2> QED BY <2>1
<1>7. q \in R!SetToSeqs(S)
  <2>1. q \in [D -> S]
    <3> HIDE DEF D, rank
    <3> QED BY <1>6
  <2>2. \A i, j \in D : i # j => q[i] # q[j]
    <3> HIDE DEF D, rank, q
    <3> QED BY <1>6
  <2> HIDE DEF q
  <2> QED BY <2>1, <2>2, SameCount DEF R!SetToSeqs
<1>8. \A i, j \in DOMAIN q : i < j => R!RestoredBefore(q[i], q[j])
  <2> SUFFICES ASSUME NEW i \in D, NEW j \in D, i < j PROVE R!RestoredBefore(q[i], q[j])
    OBVIOUS
  <2>1. q[i] \in S /\ q[j] \in S /\ rank[q[i]] = i /\ rank[q[j]] = j
    <3> HIDE DEF D, rank, q
    <3> QED BY <1>6
  <2>2. CASE q[i] = q[j]
    <3>1. i \in Int /\ j \in Int
      BY <1>1
    <3> HIDE DEF D, rank, q
    <3> QED BY <2>1, <2>2, <3>1
  <2>3. CASE R!RestoredBefore(q[j], q[i])
    <3> HIDE DEF q
    <3>1. Cardinality(Before(q[j])) < Cardinality(Before(q[i]))
      <4> HIDE DEF Before
      <4> QED BY <1>3, <2>1, <2>3
    <3>2. Cardinality(Before(q[i])) + 1 = i /\ Cardinality(Before(q[j])) + 1 = j
      BY <2>1
    <3>3. Cardinality(Before(q[i])) \in Nat /\ Cardinality(Before(q[j])) \in Nat
      <4> HIDE DEF Before
      <4> QED BY <1>2, <2>1
    <3> HIDE DEF Before
    <3> QED BY <3>1, <3>2, <3>3
  <2> HIDE DEF rank, q, D
  <2> QED BY <2>1, <2>2, <2>3, OrderIsTotal
<1> QED BY <1>7, <1>8

\* The queue of a pass holds the models that are due, and no others.
LEMMA OrderHoldsTheSet ==
  ASSUME R!ResidencyAssumption, NEW S \in SUBSET Models
  PROVE  R!restore_order(S) \in Seq(Models) /\ \A i \in DOMAIN R!restore_order(S) : R!restore_order(S)[i] \in S
<1>1. R!restore_order(S) \in R!SetToSeqs(S)
  BY Sortable DEF R!restore_order
<1>2. Cardinality(S) \in Nat
  BY FiniteModels, FS_Subset, FS_CardinalityType
<1>3. R!restore_order(S) \in [1..Cardinality(S) -> S]
  BY <1>1, SameCount DEF R!SetToSeqs
<1> QED BY <1>2, <1>3

-----------------------------------------------------------------------------
(* The inductive invariant.                                                *)

ModelRow == [state : R!States, obs : R!Observations, fresh : BOOLEAN, desired : BOOLEAN, ver : Nat]
Places == Models \cup {0}
PassSteps == {"idle", "lock", "next", "loading", "after", "releasing", "look", "looking"}
OnModel == {"loading", "after", "releasing", "look", "looking"}

ResidencyTypes ==
  /\ row \in [Models -> ModelRow] /\ \A m \in Models : row[m].fresh => row[m].obs # "none"
  /\ disk \in SUBSET Models /\ resident \in SUBSET Models
  /\ load \in [R!Actors -> [step : {"none", "asked", "begun", "fits", "running"}, m : Places]]
  /\ unld \in [R!Actors -> [step : {"none", "begun", "running"}, m : Places]]
  /\ pull \in [{1, 2} -> [step : {"none", "claim", "running"}, m : Places]]
  /\ probe \in [R!Probers -> [left : SUBSET Models, holds : SUBSET Models, found : SUBSET Models,
                            answered : BOOLEAN]]
  /\ lock \in R!Actors \cup {"free"}
  /\ rec \in [step : PassSteps, queue : Seq(Models), round : Nat, restored : BOOLEAN, mid : BOOLEAN]
  /\ evidence \in [Models -> [n : 0..2, same : BOOLEAN, near : BOOLEAN]]
  /\ backoff \in [waiting : BOOLEAN, wasted : Nat, gaveUp : BOOLEAN]
  /\ ghost \in [absent : [Models -> 0..2], fruitless : Nat, stranded : SUBSET Models]

\* The pass has one task at a time, for the model at the head of its queue, and the
\* lock of the node from its first model to its end; an operator's load has it
\* from its first step.
TasksOwned ==
  /\ rec.step \notin {"idle", "lock"} <=> lock = "reconciler"
  /\ load["operator"].step # "none" => lock = "operator"
  /\ load["reconciler"].step # "none" <=> rec.step = "loading"
  /\ unld["reconciler"].step # "none" <=> rec.step = "releasing"
  /\ rec.step = "loading" => load["reconciler"].m = Head(rec.queue)
  /\ rec.step = "releasing" => unld["reconciler"].m = Head(rec.queue)
  /\ rec.step \in OnModel => rec.queue # <<>>
  /\ probe["reconciler"].left # {} => rec.step = "looking"
  /\ \A a \in R!Actors : /\ load[a].step # "none" => load[a].m \in Models
                         /\ unld[a].step # "none" => unld[a].m \in Models
  /\ \A i \in {1, 2} : pull[i].step # "none" => pull[i].m \in Models

\* What the backoff counts is at least what was wasted, and a pass runs only below
\* the limit; a node that backs off has no evidence.
WasteCounted ==
  /\ ghost.fruitless <= backoff.wasted /\ backoff.wasted <= GiveUpAfter
  /\ ~backoff.gaveUp => backoff.wasted < GiveUpAfter
  /\ rec.step # "idle" => ~backoff.gaveUp
  /\ rec.step = "idle" => ~rec.restored
  /\ (backoff.waiting \/ backoff.gaveUp) => \A m \in Models : evidence[m].n = 0

\* The evidence of a model counts no more answers than said absent, and an answer it has
\* not counted yet is one more.
EvidenceSeen ==
  \A m \in Models :
    /\ evidence[m].n <= ghost.absent[m]
    /\ evidence[m].n = 0 => ~evidence[m].same
    /\ row[m].obs = "downloaded" /\ ~evidence[m].same => ghost.absent[m] >= 1
    /\ row[m].obs = "downloaded" /\ ~evidence[m].same /\ evidence[m].n > 0 => ghost.absent[m] = 2

\* A withdrawal under a load stands until the pass reads the intent again, and then
\* the weights are gone before it looks.
WithdrawalStands ==
  /\ rec.step \in {"loading", "after"} /\ rec.mid => ~row[Head(rec.queue)].desired
  /\ R!WithdrawnGoes

ResidencyInv ==
  ResidencyTypes /\ TasksOwned /\ WasteCounted /\ EvidenceSeen /\ R!TwiceAbsent /\ WithdrawalStands
  /\ R!TransientOwned

\* The rows of a model after each kind of write.
LEMMA RowsWritten ==
  ASSUME NEW r \in ModelRow, NEW s \in R!States, NEW d \in BOOLEAN
  PROVE  /\ R!Stated(r, s) \in ModelRow /\ R!Wished(r, d) \in ModelRow
         /\ R!Stated(R!Wished(r, d), s) \in ModelRow
         /\ R!Stated(r, s).state = s /\ R!Stated(r, s).obs = "none" /\ ~R!Stated(r, s).fresh
         /\ R!Stated(r, s).desired = r.desired
         /\ R!Wished(r, d).state = r.state /\ R!Wished(r, d).obs = r.obs /\ R!Wished(r, d).fresh = r.fresh
         /\ R!Wished(r, d).desired = d
         /\ R!Stated(R!Wished(r, d), s).state = s /\ R!Stated(R!Wished(r, d), s).obs = "none"
         /\ ~R!Stated(R!Wished(r, d), s).fresh /\ R!Stated(R!Wished(r, d), s).desired = d
<1>1. r.ver + 1 \in Nat
  BY DEF ModelRow
<1>2. "none" \in R!Observations
  BY DEF R!Observations
<1> DEFINE w == R!Wished(r, d)
<1>3. w \in ModelRow /\ w.state = r.state /\ w.obs = r.obs /\ w.fresh = r.fresh /\ w.desired = d
  BY <1>1 DEF ModelRow, R!Wished
<1>4. \A x \in ModelRow : /\ R!Stated(x, s) \in ModelRow /\ R!Stated(x, s).state = s /\ R!Stated(x, s).obs = "none"
                          /\ R!Stated(x, s).fresh = FALSE /\ R!Stated(x, s).desired = x.desired
  BY <1>2 DEF ModelRow, R!Stated
<1> HIDE DEF w
<1> QED BY <1>3, <1>4 DEF w

\* One row is written: the others stay, and every row stays one.
LEMMA RowWrite ==
  ASSUME ResidencyTypes, NEW m \in Models, NEW r \in ModelRow, r.fresh => r.obs # "none",
         row' = [row EXCEPT ![m] = r]
  PROVE  /\ row' \in [Models -> ModelRow] /\ \A x \in Models : row'[x].fresh => row'[x].obs # "none"
         /\ row'[m] = r /\ \A x \in Models \ {m} : row'[x] = row[x]
<1>1. row \in [Models -> ModelRow] /\ \A x \in Models : row[x].fresh => row[x].obs # "none"
  BY DEF ResidencyTypes
<1> QED BY <1>1

\* Nothing runs and nothing is known at first.
LEMMA ResidencyStarts ==
  ASSUME R!ResidencyAssumption, R!Init
  PROVE  ResidencyInv
<1>1. ResidencyTypes
  <2>1. row \in [Models -> ModelRow] /\ \A m \in Models : row[m].obs = "none" /\ ~row[m].fresh
    BY DEF R!Init, ModelRow, R!States, R!Observations
  <2>2. /\ disk \in SUBSET Models /\ resident \in SUBSET Models
        /\ load \in [R!Actors -> [step : {"none", "asked", "begun", "fits", "running"}, m : Places]]
        /\ unld \in [R!Actors -> [step : {"none", "begun", "running"}, m : Places]]
        /\ pull \in [{1, 2} -> [step : {"none", "claim", "running"}, m : Places]]
    BY DEF R!Init, R!NoTask, Places
  <2>3. /\ probe \in [R!Probers -> [left : SUBSET Models, holds : SUBSET Models, found : SUBSET Models,
                                  answered : BOOLEAN]]
        /\ lock \in R!Actors \cup {"free"}
    BY DEF R!Init
  <2>4. rec \in [step : PassSteps, queue : Seq(Models), round : Nat, restored : BOOLEAN, mid : BOOLEAN]
    <3>1. <<>> \in Seq(Models)
      OBVIOUS
    <3> QED BY <3>1 DEF R!Init, R!NoPass, PassSteps
  <2>5. /\ evidence \in [Models -> [n : 0..2, same : BOOLEAN, near : BOOLEAN]]
        /\ backoff \in [waiting : BOOLEAN, wasted : Nat, gaveUp : BOOLEAN]
        /\ ghost \in [absent : [Models -> 0..2], fruitless : Nat, stranded : SUBSET Models]
    BY DEF R!Init, R!NoBackoff
  <2> QED BY <2>1, <2>2, <2>3, <2>4, <2>5 DEF ResidencyTypes
<1>2. TasksOwned
  BY DEF R!Init, TasksOwned, R!NoTask, R!NoPass, R!Actors, OnModel, R!Probers
<1>3. WasteCounted
  <2>1. GiveUpAfter \in Nat /\ GiveUpAfter > 0
    BY DEF R!ResidencyAssumption
  <2>2. ghost.fruitless = 0 /\ backoff = R!NoBackoff /\ rec = R!NoPass
    BY DEF R!Init
  <2> QED BY <2>1, <2>2 DEF WasteCounted, R!NoBackoff, R!NoPass
<1>4. EvidenceSeen /\ R!TransientOwned /\ R!TwiceAbsent /\ WithdrawalStands
  BY DEF R!Init, EvidenceSeen, R!TransientOwned, R!TwiceAbsent, WithdrawalStands, R!WithdrawnGoes, R!NoPass
<1> QED BY <1>1, <1>2, <1>3, <1>4 DEF ResidencyInv

Running(m) == [step |-> "running", m |-> m]

\* A step keeps transient states owned if each model's own step does: it is in none,
\* or in the one it was in with the tasks at work on it, or in a new one with a task.
LEMMA OwnersStay ==
  ASSUME R!TransientOwned,
         \A x \in Models \ ghost'.stranded :
           \/ row'[x].state \notin R!TRANSIENT_STATES
           \/ /\ x \notin ghost.stranded /\ row'[x].state = row[x].state
              /\ \A a \in R!Actors : /\ load[a] = Running(x) => load'[a] = load[a]
                                     /\ unld[a] = Running(x) => unld'[a] = unld[a]
              /\ \A j \in {1, 2} : pull[j] = Running(x) => pull'[j] = pull[j]
           \/ row'[x].state = "loading" /\ \E a \in R!Actors : load'[a] = Running(x)
           \/ row'[x].state = "unloading" /\ \E a \in R!Actors : unld'[a] = Running(x)
           \/ row'[x].state = "downloading" /\ \E j \in {1, 2} : pull'[j] = Running(x)
  PROVE  R!TransientOwned'
<1> SUFFICES ASSUME NEW x \in Models \ ghost'.stranded
             PROVE  /\ row'[x].state = "loading" => \E a \in R!Actors : load'[a] = Running(x)
                    /\ row'[x].state = "unloading" => \E a \in R!Actors : unld'[a] = Running(x)
                    /\ row'[x].state = "downloading" => \E j \in {1, 2} : pull'[j] = Running(x)
  BY DEF R!TransientOwned, Running
<1>1. CASE row'[x].state \notin R!TRANSIENT_STATES
  BY <1>1 DEF R!TRANSIENT_STATES
<1>2. CASE /\ x \notin ghost.stranded /\ row'[x].state = row[x].state
           /\ \A a \in R!Actors : /\ load[a] = Running(x) => load'[a] = load[a]
                                  /\ unld[a] = Running(x) => unld'[a] = unld[a]
           /\ \A j \in {1, 2} : pull[j] = Running(x) => pull'[j] = pull[j]
  <2>1. /\ row[x].state = "loading" => \E a \in R!Actors : load[a] = Running(x)
        /\ row[x].state = "unloading" => \E a \in R!Actors : unld[a] = Running(x)
        /\ row[x].state = "downloading" => \E j \in {1, 2} : pull[j] = Running(x)
    BY <1>2 DEF R!TransientOwned, Running
  <2> HIDE DEF Running
  <2> QED BY <1>2, <2>1
<1> HIDE DEF Running
<1> QED BY <1>1, <1>2

-----------------------------------------------------------------------------
(* The operators' requests, and what happens around the pass.              *)

\* Tasks of the operators begin.
LEMMA RequestsKeep ==
  ASSUME ResidencyInv, NEW m \in Models, NEW i \in {1, 2},
         R!OperatorLoad(m) \/ R!OperatorUnload(m) \/ R!DownloadStart(i, m)
  PROVE  ResidencyInv'
<1>0. ResidencyTypes /\ TasksOwned /\ m \in Places
  BY DEF ResidencyInv, Places
<1>1. /\ load' = load \/ (R!OperatorLoad(m) /\ load' = [load EXCEPT !["operator"] = [step |-> "asked", m |-> m]])
      /\ unld' = unld \/ (R!OperatorUnload(m) /\ unld' = [unld EXCEPT !["operator"] = [step |-> "begun", m |-> m]])
      /\ pull' = pull \/ (R!DownloadStart(i, m) /\ pull' = [pull EXCEPT ![i] = [step |-> "claim", m |-> m]])
      /\ UNCHANGED <<row, disk, resident, probe, rec, evidence, backoff, ghost>>
      /\ lock' = lock \/ (R!OperatorLoad(m) /\ lock = "free" /\ lock' = "operator")
  BY DEF R!OperatorLoad, R!OperatorUnload, R!DownloadStart, R!LoadTask, R!UnloadTask
<1>2. /\ R!OperatorLoad(m) => load["operator"].step = "none" /\ lock' = "operator"
      /\ R!OperatorUnload(m) => unld["operator"].step = "none"
      /\ R!DownloadStart(i, m) => pull[i].step = "none"
  BY DEF R!OperatorLoad, R!OperatorUnload, R!DownloadStart, R!NoTask
<1>3. /\ load' \in [R!Actors -> [step : {"none", "asked", "begun", "fits", "running"}, m : Places]]
      /\ unld' \in [R!Actors -> [step : {"none", "begun", "running"}, m : Places]]
      /\ pull' \in [{1, 2} -> [step : {"none", "claim", "running"}, m : Places]]
  <2>1. load' \in [R!Actors -> [step : {"none", "asked", "begun", "fits", "running"}, m : Places]]
    BY <1>0, <1>1 DEF ResidencyTypes
  <2>2. unld' \in [R!Actors -> [step : {"none", "begun", "running"}, m : Places]]
    <3>1. unld' = unld \/ unld' = [unld EXCEPT !["operator"] = [step |-> "begun", m |-> m]]
      BY <1>1
    <3>2. unld \in [R!Actors -> [step : {"none", "begun", "running"}, m : Places]]
      BY <1>0 DEF ResidencyTypes
    <3> QED BY <1>0, <3>1, <3>2
  <2>3. pull' \in [{1, 2} -> [step : {"none", "claim", "running"}, m : Places]]
    BY <1>0, <1>1 DEF ResidencyTypes
  <2> QED BY <2>1, <2>2, <2>3
<1>5. ResidencyTypes'
  <2>1. lock' \in R!Actors \cup {"free"}
    BY <1>0, <1>1 DEF ResidencyTypes, R!Actors
  <2> QED BY <1>0, <1>1, <1>3, <2>1 DEF ResidencyTypes
<1>6. TasksOwned'
  <2>1. load'["reconciler"] = load["reconciler"] /\ unld'["reconciler"] = unld["reconciler"]
    BY <1>0, <1>1 DEF ResidencyTypes, R!Actors
  <2>2. /\ \A a \in R!Actors : /\ load'[a].step # "none" => load'[a].m \in Models
                               /\ unld'[a].step # "none" => unld'[a].m \in Models
        /\ \A j \in {1, 2} : pull'[j].step # "none" => pull'[j].m \in Models
    <3>1. \A a \in R!Actors : load'[a].step # "none" => load'[a].m \in Models
      <4>1. \A a \in R!Actors : load'[a] = load[a] \/ load'[a].m = m
        BY <1>0, <1>1 DEF ResidencyTypes
      <4>2. \A a \in R!Actors : load[a].step # "none" => load[a].m \in Models
        BY <1>0 DEF TasksOwned
      <4> QED BY <4>1, <4>2
    <3>2. \A a \in R!Actors : unld'[a].step # "none" => unld'[a].m \in Models
      <4>1. \A a \in R!Actors : unld'[a] = unld[a] \/ unld'[a].m = m
        BY <1>0, <1>1 DEF ResidencyTypes
      <4>2. \A a \in R!Actors : unld[a].step # "none" => unld[a].m \in Models
        BY <1>0 DEF TasksOwned
      <4> QED BY <4>1, <4>2
    <3>3. \A j \in {1, 2} : pull'[j].step # "none" => pull'[j].m \in Models
      <4>1. \A j \in {1, 2} : pull'[j] = pull[j] \/ pull'[j].m = m
        BY <1>0, <1>1 DEF ResidencyTypes
      <4>2. \A j \in {1, 2} : pull[j].step # "none" => pull[j].m \in Models
        BY <1>0 DEF TasksOwned
      <4> QED BY <4>1, <4>2
    <3> QED BY <3>1, <3>2, <3>3
  <2>3. load'["operator"].step # "none" => lock' = "operator"
    BY <1>0, <1>1, <1>2 DEF TasksOwned
  <2> QED BY <1>0, <1>1, <2>1, <2>2, <2>3 DEF TasksOwned
<1>7. WasteCounted'
  BY <1>1 DEF ResidencyInv, WasteCounted
<1>8. EvidenceSeen' /\ R!TwiceAbsent' /\ WithdrawalStands'
  BY <1>0, <1>1 DEF ResidencyInv, EvidenceSeen, R!TwiceAbsent, WithdrawalStands, R!WithdrawnGoes
<1>9. R!TransientOwned'
  <2>1. \A a \in R!Actors, x \in Models :
          /\ load[a] = Running(x) => load'[a] = load[a]
          /\ unld[a] = Running(x) => unld'[a] = unld[a]
    BY <1>0, <1>1, <1>2 DEF ResidencyTypes, Running
  <2>2. \A j \in {1, 2}, x \in Models : pull[j] = Running(x) => pull'[j] = pull[j]
    BY <1>0, <1>1, <1>2 DEF ResidencyTypes, Running
  <2> QED BY <1>1, <2>1, <2>2, OwnersStay DEF ResidencyInv
<1> QED BY <1>5, <1>6, <1>7, <1>8, <1>9 DEF ResidencyInv

\* The row of one model is written with a state: its observation goes with it, and no
\* other row changes.
LEMMA StateWrite ==
  ASSUME ResidencyTypes, NEW m \in Models, NEW s \in R!States, NEW d \in BOOLEAN,
         \/ row' = [row EXCEPT ![m] = R!Stated(row[m], s)]
         \/ row' = [row EXCEPT ![m] = R!Stated(R!Wished(row[m], d), s)]
         \/ row' = [row EXCEPT ![m] = R!Wished(row[m], d)]
         \/ row' = row
  PROVE  /\ row' \in [Models -> ModelRow] /\ \A x \in Models : row'[x].fresh => row'[x].obs # "none"
         /\ \A x \in Models : row'[x].obs = "downloaded" => row[x].obs = "downloaded"
         /\ \A x \in Models \ {m} : row'[x] = row[x]
<1>1. row \in [Models -> ModelRow] /\ (\A x \in Models : row[x].fresh => row[x].obs # "none")
      /\ row[m] \in ModelRow
  BY DEF ResidencyTypes
<1>2. CASE row' = row
  BY <1>1, <1>2
<1> DEFINE r == row'[m]
<1>3. CASE row' # row
  <2>1. PICK z \in ModelRow : row' = [row EXCEPT ![m] = z] /\ (z.fresh => z.obs # "none")
                              /\ (z.obs = "downloaded" => row[m].obs = "downloaded")
    <3>1. CASE row' = [row EXCEPT ![m] = R!Stated(row[m], s)]
      <4>1. /\ R!Stated(row[m], s) \in ModelRow /\ R!Stated(row[m], s).obs = "none"
            /\ ~R!Stated(row[m], s).fresh
        BY <1>1, RowsWritten
      <4> QED BY <3>1, <4>1
    <3>2. CASE row' = [row EXCEPT ![m] = R!Stated(R!Wished(row[m], d), s)]
      <4>1. /\ R!Stated(R!Wished(row[m], d), s) \in ModelRow /\ R!Stated(R!Wished(row[m], d), s).obs = "none"
            /\ ~R!Stated(R!Wished(row[m], d), s).fresh
        BY <1>1, RowsWritten
      <4> QED BY <3>2, <4>1
    <3>3. CASE row' = [row EXCEPT ![m] = R!Wished(row[m], d)]
      <4>1. "loaded" \in R!States
        BY DEF R!States
      <4>2. /\ R!Wished(row[m], d) \in ModelRow /\ R!Wished(row[m], d).obs = row[m].obs
            /\ R!Wished(row[m], d).fresh = row[m].fresh
        BY <1>1, <4>1, RowsWritten
      <4>3. R!Wished(row[m], d).fresh => R!Wished(row[m], d).obs # "none"
        BY <1>1, <4>2
      <4> QED BY <3>3, <4>2, <4>3
    <3> QED BY <1>3, <3>1, <3>2, <3>3
  <2>2. row'[m] = z /\ \A x \in Models \ {m} : row'[x] = row[x]
    BY <1>1, <2>1
  <2>3. row' \in [Models -> ModelRow]
    BY <1>1, <2>1
  <2>4. \A x \in Models : row'[x].fresh => row'[x].obs # "none"
    BY <1>1, <2>1, <2>2
  <2>5. \A x \in Models : row'[x].obs = "downloaded" => row[x].obs = "downloaded"
    BY <2>1, <2>2
  <2> QED BY <2>2, <2>3, <2>4, <2>5
<1> QED BY <1>2, <1>3

\* What the evidence says of the answers stands while no answer comes and none is counted.
LEMMA EvidenceStands ==
  ASSUME EvidenceSeen, evidence' = evidence, ghost'.absent = ghost.absent,
         \A x \in Models : row'[x].obs = "downloaded" => row[x].obs = "downloaded"
  PROVE  EvidenceSeen'
BY DEF EvidenceSeen

\* The backoff runs out, the runtime restarts, the node changes.
LEMMA AroundKeeps ==
  ASSUME ResidencyInv, NEW f \in {"hold", "blocked", "online"},
         R!BackoffExpires \/ R!RuntimeRestarts \/ R!NodeChanges(f)
  PROVE  ResidencyInv'
<1>0. ResidencyTypes /\ TasksOwned /\ WasteCounted /\ EvidenceSeen /\ R!TwiceAbsent /\ WithdrawalStands
  BY DEF ResidencyInv
<1>1. /\ UNCHANGED <<row, disk, load, unld, pull, probe, lock, rec, evidence, ghost>>
      /\ resident' \in {resident, {}}
      /\ backoff' = backoff \/ backoff' = [backoff EXCEPT !.waiting = FALSE]
  BY DEF R!BackoffExpires, R!RuntimeRestarts, R!NodeChanges
<1>2. backoff' \in [waiting : BOOLEAN, wasted : Nat, gaveUp : BOOLEAN]
      /\ backoff'.wasted = backoff.wasted /\ backoff'.gaveUp = backoff.gaveUp
      /\ (backoff'.waiting => backoff.waiting)
  BY <1>0, <1>1 DEF ResidencyTypes
<1>3. ResidencyTypes'
  <2>1. resident' \in SUBSET Models
    BY <1>0, <1>1 DEF ResidencyTypes
  <2> QED BY <1>0, <1>1, <1>2, <2>1 DEF ResidencyTypes
<1>4. TasksOwned' /\ R!TwiceAbsent'
  BY <1>0, <1>1 DEF TasksOwned, R!TwiceAbsent
<1>5. WasteCounted'
  BY <1>0, <1>1, <1>2 DEF WasteCounted
<1>6. EvidenceSeen'
  BY <1>0, <1>1, EvidenceStands
<1>7. WithdrawalStands'
  BY <1>0, <1>1 DEF WithdrawalStands, R!WithdrawnGoes
<1>8. R!TransientOwned'
  BY <1>1, OwnersStay DEF ResidencyInv
<1> QED BY <1>3, <1>4, <1>5, <1>6, <1>7, <1>8 DEF ResidencyInv

\* The operators' wish, at any time.
LEMMA WishKeeps ==
  ASSUME ResidencyInv, NEW m \in Models, NEW d \in BOOLEAN, R!SetDesiredResidency(m, d)
  PROVE  ResidencyInv'
<1>0. ResidencyTypes /\ TasksOwned /\ WithdrawalStands
  BY DEF ResidencyInv
<1>1. /\ row' = [row EXCEPT ![m] = R!Wished(row[m], d)]
      /\ rec' = [rec EXCEPT !.mid = IF R!Restoring(m) THEN ~d ELSE rec.mid]
      /\ ghost' = [ghost EXCEPT !.fruitless = 0]
      /\ UNCHANGED <<disk, resident, load, unld, pull, probe, lock, evidence, backoff>>
  BY DEF R!SetDesiredResidency
<1>2. /\ row' \in [Models -> ModelRow] /\ \A x \in Models : row'[x].fresh => row'[x].obs # "none"
      /\ \A x \in Models : row'[x].obs = "downloaded" => row[x].obs = "downloaded"
      /\ \A x \in Models \ {m} : row'[x] = row[x]
  <2>1. "loaded" \in R!States
    BY DEF R!States
  <2> QED BY <1>0, <1>1, <2>1, StateWrite
<1>3. row'[m].desired = d /\ row'[m].state = row[m].state
  <2>1. "loaded" \in R!States /\ row[m] \in ModelRow
    BY <1>0 DEF R!States, ResidencyTypes
  <2>2. R!Wished(row[m], d).desired = d /\ R!Wished(row[m], d).state = row[m].state
    BY <2>1, RowsWritten
  <2>3. row'[m] = R!Wished(row[m], d)
    BY <1>0, <1>1 DEF ResidencyTypes
  <2> QED BY <2>2, <2>3
<1>4. /\ rec'.step = rec.step /\ rec'.queue = rec.queue /\ rec'.restored = rec.restored
      /\ rec'.mid = (IF R!Restoring(m) THEN ~d ELSE rec.mid)
      /\ rec' \in [step : PassSteps, queue : Seq(Models), round : Nat, restored : BOOLEAN, mid : BOOLEAN]
  <2>1. (IF R!Restoring(m) THEN ~d ELSE rec.mid) \in BOOLEAN
    BY <1>0 DEF ResidencyTypes
  <2> DEFINE w == IF R!Restoring(m) THEN ~d ELSE rec.mid
  <2> HIDE DEF w
  <2>2. rec' = [rec EXCEPT !.mid = w] /\ w \in BOOLEAN
    BY <1>1, <2>1 DEF w
  <2>3. /\ rec'.step = rec.step /\ rec'.queue = rec.queue /\ rec'.restored = rec.restored
        /\ rec'.mid = w
        /\ rec' \in [step : PassSteps, queue : Seq(Models), round : Nat, restored : BOOLEAN, mid : BOOLEAN]
    BY <1>0, <2>2 DEF ResidencyTypes
  <2> QED BY <2>3 DEF w
<1>5. /\ ghost' \in [absent : [Models -> 0..2], fruitless : Nat, stranded : SUBSET Models]
      /\ ghost'.absent = ghost.absent /\ ghost'.fruitless = 0 /\ ghost'.stranded = ghost.stranded
  BY <1>0, <1>1 DEF ResidencyTypes
<1>6. ResidencyTypes'
  BY <1>0, <1>1, <1>2, <1>4, <1>5 DEF ResidencyTypes
<1>7. TasksOwned'
  BY <1>0, <1>1, <1>4 DEF TasksOwned
<1>8. WasteCounted'
  <2>1. 0 <= backoff.wasted
    BY <1>0 DEF ResidencyTypes
  <2> QED BY <1>1, <1>4, <1>5, <2>1 DEF ResidencyInv, WasteCounted
<1>9. EvidenceSeen'
  BY <1>1, <1>2, <1>5, EvidenceStands DEF ResidencyInv
<1>10. R!TwiceAbsent'
  BY <1>4, <1>5 DEF ResidencyInv, R!TwiceAbsent
<1>11. WithdrawalStands'
  <2>1. ASSUME rec'.step \in {"loading", "after"}, rec'.mid
        PROVE  ~row'[Head(rec'.queue)].desired
    <3>1. rec.queue # <<>>
      BY <1>0, <1>4, <2>1 DEF TasksOwned, OnModel
    <3>2. Head(rec.queue) \in Models
      <4>1. rec.queue \in Seq(Models)
        BY <1>0 DEF ResidencyTypes
      <4> QED BY <3>1, <4>1
    <3>3. CASE Head(rec.queue) = m
      <4>1. R!Restoring(m)
        BY <1>4, <2>1, <3>3 DEF R!Restoring
      <4>2. ~d
        BY <1>4, <2>1, <4>1
      <4> QED BY <1>3, <1>4, <3>3, <4>2
    <3>4. CASE Head(rec.queue) # m
      <4>1. rec.mid
        BY <1>4, <2>1, <3>4 DEF R!Restoring
      <4>2. ~row[Head(rec.queue)].desired
        BY <1>0, <1>4, <2>1, <4>1 DEF WithdrawalStands
      <4> QED BY <1>2, <1>4, <3>2, <3>4, <4>2
    <3> QED BY <3>3, <3>4
  <2>2. ASSUME rec'.step = "look", rec'.mid
        PROVE  Head(rec'.queue) \notin resident'
    <3>1. rec.mid
      BY <1>4, <2>2 DEF R!Restoring
    <3> QED BY <1>0, <1>1, <1>4, <2>2, <3>1 DEF WithdrawalStands, R!WithdrawnGoes
  <2> QED BY <2>1, <2>2 DEF WithdrawalStands, R!WithdrawnGoes
<1>12. R!TransientOwned'
  <2>1. \A x \in Models : row'[x].state = row[x].state
    BY <1>2, <1>3
  <2> QED BY <1>1, <1>5, <2>1, OwnersStay DEF ResidencyInv
<1> QED BY <1>6, <1>7, <1>8, <1>9, <1>10, <1>11, <1>12 DEF ResidencyInv

\* What was stranded stays so, with the model whose last write was lost.
LEMMA GhostStrands ==
  ASSUME ResidencyTypes, NEW L \in SUBSET Models
  PROVE  /\ R!Stranding(L) \in [absent : [Models -> 0..2], fruitless : Nat, stranded : SUBSET Models]
         /\ R!Stranding(L).absent = ghost.absent /\ R!Stranding(L).fruitless = ghost.fruitless
         /\ R!Stranding(L).stranded = ghost.stranded \cup L
BY DEF ResidencyTypes, R!Stranding

\* A pass that fails: it lets go of the node, backs off, counts the weights it wasted, and
\* asks for evidence anew.
LEMMA FailKeeps ==
  ASSUME R!ResidencyAssumption, ResidencyInv, NEW L \in SUBSET Models, R!Fail(rec, L),
         rec.step # "idle",
         \A x \in Models : row'[x].obs = "downloaded" => row[x].obs = "downloaded"
  PROVE  /\ lock' \in R!Actors \cup {"free"}
         /\ lock' = (IF lock = "reconciler" THEN "free" ELSE lock)
         /\ rec' = R!NoPass
         /\ rec' \in [step : PassSteps, queue : Seq(Models), round : Nat, restored : BOOLEAN,
                      mid : BOOLEAN]
         /\ evidence' \in [Models -> [n : 0..2, same : BOOLEAN, near : BOOLEAN]]
         /\ backoff' \in [waiting : BOOLEAN, wasted : Nat, gaveUp : BOOLEAN]
         /\ ghost' \in [absent : [Models -> 0..2], fruitless : Nat, stranded : SUBSET Models]
         /\ ghost'.stranded = ghost.stranded \cup L
         /\ WasteCounted' /\ EvidenceSeen' /\ R!TwiceAbsent' /\ WithdrawalStands'
<1>0. ResidencyTypes /\ WasteCounted /\ GiveUpAfter \in Nat
  BY DEF ResidencyInv, R!ResidencyAssumption
<1> DEFINE more == IF rec.restored THEN 1 ELSE 0
           wasted == backoff.wasted + more
           away == [x \in Models |-> IF row[x].obs = "downloaded" THEN 1 ELSE 0]
           vain == IF rec.restored THEN ghost.fruitless + 1 ELSE ghost.fruitless
<1>1. /\ backoff' = [waiting |-> TRUE, wasted |-> wasted,
                     gaveUp |-> backoff.gaveUp \/ wasted >= GiveUpAfter]
      /\ evidence' = [x \in Models |-> R!Forget(x)]
      /\ rec' = R!NoPass
      /\ lock' = (IF lock = "reconciler" THEN "free" ELSE lock)
      /\ ghost' = [R!Stranding(L) EXCEPT !.fruitless = vain, !.absent = away]
  <2>1. R!Stranding(L).fruitless = ghost.fruitless
    BY <1>0, GhostStrands
  <2> HIDE DEF wasted, away
  <2> QED BY <2>1 DEF R!Fail, wasted, away
<1>2. lock' \in R!Actors \cup {"free"}
  BY <1>0, <1>1 DEF ResidencyTypes
<1>3. rec' \in [step : PassSteps, queue : Seq(Models), round : Nat, restored : BOOLEAN, mid : BOOLEAN]
      /\ rec'.step = "idle" /\ ~rec'.restored
  <2>1. <<>> \in Seq(Models)
    OBVIOUS
  <2> QED BY <1>1, <2>1 DEF R!NoPass, PassSteps
<1>4. /\ evidence' \in [Models -> [n : 0..2, same : BOOLEAN, near : BOOLEAN]]
      /\ \A x \in Models : evidence'[x].n = 0 /\ ~evidence'[x].same
  <2>1. \A x \in Models : /\ R!Forget(x) \in [n : 0..2, same : BOOLEAN, near : BOOLEAN]
                          /\ R!Forget(x).n = 0 /\ ~R!Forget(x).same
    <3> SUFFICES ASSUME NEW x \in Models
                 PROVE  /\ R!Forget(x) \in [n : 0..2, same : BOOLEAN, near : BOOLEAN]
                        /\ R!Forget(x).n = 0 /\ R!Forget(x).same = FALSE
      OBVIOUS
    <3>1. evidence[x] \in [n : 0..2, same : BOOLEAN, near : BOOLEAN]
      BY <1>0 DEF ResidencyTypes
    <3> QED BY <3>1 DEF R!Forget
  <2> QED BY <1>1, <2>1
<1>5. wasted \in Nat /\ backoff'.wasted = wasted /\ backoff'.waiting
      /\ backoff'.gaveUp = (backoff.gaveUp \/ wasted >= GiveUpAfter)
      /\ backoff' \in [waiting : BOOLEAN, wasted : Nat, gaveUp : BOOLEAN]
  <2>1. backoff.wasted \in Nat /\ more \in Nat
    BY <1>0 DEF ResidencyTypes
  <2>2. wasted \in Nat
    BY <2>1
  <2> HIDE DEF wasted
  <2> DEFINE g == backoff.gaveUp \/ wasted >= GiveUpAfter
  <2>4. g \in BOOLEAN
    BY <1>0 DEF ResidencyTypes
  <2>5. backoff' = [waiting |-> TRUE, wasted |-> wasted, gaveUp |-> g]
    BY <1>1
  <2> HIDE DEF g
  <2>6. backoff'.wasted = wasted /\ backoff'.waiting /\ backoff'.gaveUp = g
        /\ backoff' \in [waiting : BOOLEAN, wasted : Nat, gaveUp : BOOLEAN]
    BY <2>2, <2>4, <2>5
  <2> QED BY <2>2, <2>6 DEF g
<1>6. /\ ghost'.absent = away /\ ghost'.fruitless = vain /\ ghost'.stranded = ghost.stranded \cup L
      /\ ghost' \in [absent : [Models -> 0..2], fruitless : Nat, stranded : SUBSET Models]
  <2>1. vain \in Nat
    BY <1>0 DEF ResidencyTypes
  <2>2. away \in [Models -> 0..2]
    OBVIOUS
  <2> DEFINE g == R!Stranding(L)
  <2>3. /\ g \in [absent : [Models -> 0..2], fruitless : Nat, stranded : SUBSET Models]
        /\ g.stranded = ghost.stranded \cup L
    BY <1>0, GhostStrands
  <2>4. ghost' = [g EXCEPT !.fruitless = vain, !.absent = away]
    BY <1>1
  <2> HIDE DEF away, vain, g
  <2> QED BY <2>1, <2>2, <2>3, <2>4
<1>7. WasteCounted'
  <2>1. ~backoff.gaveUp /\ backoff.wasted < GiveUpAfter /\ ghost.fruitless <= backoff.wasted
    BY <1>0 DEF WasteCounted
  <2>2. backoff.wasted \in Nat /\ ghost.fruitless \in Nat
    BY <1>0 DEF ResidencyTypes
  <2>3. vain <= wasted /\ wasted <= GiveUpAfter
    BY <1>0, <2>1, <2>2
  <2>4. ghost'.fruitless <= backoff'.wasted /\ backoff'.wasted <= GiveUpAfter
    <3> HIDE DEF vain, wasted
    <3> QED BY <1>5, <1>6, <2>3
  <2>5. ~backoff'.gaveUp => backoff'.wasted < GiveUpAfter
    <3>1. ~backoff'.gaveUp => ~(wasted >= GiveUpAfter)
      <4> HIDE DEF wasted
      <4> QED BY <1>5
    <3>2. ~(wasted >= GiveUpAfter) => wasted < GiveUpAfter
      <4> HIDE DEF wasted
      <4> QED BY <1>0, <1>5
    <3>3. wasted < GiveUpAfter => backoff'.wasted < GiveUpAfter
      <4> HIDE DEF wasted
      <4> QED BY <1>5
    <3> HIDE DEF wasted
    <3> QED BY <3>1, <3>2, <3>3
  <2> QED BY <1>3, <1>4, <2>4, <2>5 DEF WasteCounted
<1>8. EvidenceSeen'
  <2> SUFFICES ASSUME NEW x \in Models
               PROVE  /\ evidence'[x].n <= ghost'.absent[x]
                      /\ row'[x].obs = "downloaded" => ghost'.absent[x] >= 1
    BY <1>4 DEF EvidenceSeen
  <2>1. ghost'.absent[x] = (IF row[x].obs = "downloaded" THEN 1 ELSE 0)
    BY <1>6
  <2> QED BY <1>4, <2>1
<1>9. R!TwiceAbsent' /\ WithdrawalStands'
  BY <1>3 DEF R!TwiceAbsent, WithdrawalStands, R!WithdrawnGoes
<1> HIDE DEF wasted, vain, away, more
<1> QED BY <1>1, <1>2, <1>3, <1>4, <1>5, <1>6, <1>7, <1>8, <1>9

\* The tasks of an actor as one of them ends.
LEMMA LoadEnds ==
  ASSUME ResidencyTypes, NEW a \in R!Actors, load' = [load EXCEPT ![a] = R!NoTask]
  PROVE  /\ load' \in [R!Actors -> [step : {"none", "asked", "begun", "fits", "running"}, m : Places]]
         /\ load'[a].step = "none" /\ \A b \in R!Actors \ {a} : load'[b] = load[b]
  BY DEF ResidencyTypes, R!NoTask, Places

\* A load that ends, for the operator's request or for the pass, whatever it wrote.
LEMMA LoadDoneKeeps ==
  ASSUME R!ResidencyAssumption, ResidencyInv, NEW a \in R!Actors, NEW ok \in BOOLEAN,
         NEW L \in SUBSET Models, load[a].step # "none", R!LoadDone(a, ok, L),
         row' \in [Models -> ModelRow], \A x \in Models : row'[x].fresh => row'[x].obs # "none",
         \A x \in Models : row'[x].obs = "downloaded" => row[x].obs = "downloaded",
         a = "reconciler" => \A x \in Models : row'[x].desired = row[x].desired,
         resident' \in SUBSET Models, UNCHANGED <<disk, unld, pull, probe>>
  PROVE  /\ ResidencyTypes' /\ TasksOwned' /\ WasteCounted' /\ EvidenceSeen' /\ R!TwiceAbsent'
         /\ WithdrawalStands' /\ load' = [load EXCEPT ![a] = R!NoTask]
         /\ ghost'.stranded = ghost.stranded \cup L
<1>0. ResidencyTypes /\ TasksOwned /\ WasteCounted /\ EvidenceSeen /\ R!TwiceAbsent /\ WithdrawalStands
  BY DEF ResidencyInv
<1>1. load' = [load EXCEPT ![a] = R!NoTask]
  BY DEF R!LoadDone
<1>2. /\ load' \in [R!Actors -> [step : {"none", "asked", "begun", "fits", "running"}, m : Places]]
      /\ load'[a].step = "none" /\ \A b \in R!Actors \ {a} : load'[b] = load[b]
  BY <1>0, <1>1, LoadEnds
<1>3. "operator" \in R!Actors /\ "reconciler" \in R!Actors /\ a \in {"operator", "reconciler"}
  BY DEF R!Actors
<1>4. \A b \in R!Actors : load'[b].step # "none" => load'[b] = load[b]
  BY <1>2
<1>a. ghost' = R!Stranding(L) => /\ ghost' \in [absent : [Models -> 0..2], fruitless : Nat, stranded : SUBSET Models]
                                 /\ ghost'.absent = ghost.absent /\ ghost'.fruitless = ghost.fruitless
                                 /\ ghost'.stranded = ghost.stranded \cup L
  BY <1>0, GhostStrands
<1>5. CASE a = "operator"
  <2>1. lock = "operator" /\ lock' = "free" /\ UNCHANGED <<rec, evidence, backoff>>
        /\ ghost' = R!Stranding(L)
    BY <1>0, <1>5 DEF R!LoadDone, TasksOwned
  <2>2. rec.step \in {"idle", "lock"}
    BY <1>0, <2>1 DEF TasksOwned
  <2>3. ResidencyTypes'
    BY <1>0, <1>2, <1>a, <2>1 DEF ResidencyTypes
  <2>4. TasksOwned'
    <3>1. load'["reconciler"] = load["reconciler"] /\ load'["operator"].step = "none"
      BY <1>2, <1>3, <1>5
    <3>2. lock' # "reconciler"
      BY <2>1
    <3> QED BY <1>0, <1>4, <2>1, <2>2, <3>1, <3>2 DEF TasksOwned, OnModel
  <2>5. WasteCounted' /\ R!TwiceAbsent'
    BY <1>0, <1>a, <2>1 DEF WasteCounted, R!TwiceAbsent
  <2>6. EvidenceSeen'
    BY <1>0, <1>a, <2>1, EvidenceStands
  <2>7. WithdrawalStands'
    BY <2>1, <2>2 DEF WithdrawalStands, R!WithdrawnGoes
  <2> QED BY <1>1, <1>a, <2>1, <2>3, <2>4, <2>5, <2>6, <2>7
<1>6. ASSUME a = "reconciler"
      PROVE  rec.step = "loading" /\ lock = "reconciler" /\ rec.queue # <<>>
             /\ load'["operator"] = load["operator"] /\ load'["reconciler"].step = "none"
             /\ load["operator"].step = "none" /\ unld["reconciler"].step = "none"
             /\ probe["reconciler"].left = {}
  BY <1>0, <1>2, <1>3, <1>6 DEF TasksOwned, OnModel
<1>7. CASE a = "reconciler" /\ ok
  <2>1. rec' = [rec EXCEPT !.step = "after", !.restored = TRUE]
        /\ UNCHANGED <<lock, evidence, backoff>> /\ ghost' = R!Stranding(L)
    BY <1>7 DEF R!LoadDone
  <2>2. /\ rec'.step = "after" /\ rec'.queue = rec.queue /\ (rec'.mid => rec.mid)
        /\ rec' \in [step : PassSteps, queue : Seq(Models), round : Nat, restored : BOOLEAN, mid : BOOLEAN]
    BY <1>0, <2>1 DEF ResidencyTypes, PassSteps
  <2>3. ResidencyTypes'
    BY <1>0, <1>2, <1>a, <2>1, <2>2 DEF ResidencyTypes
  <2>4. TasksOwned'
    BY <1>0, <1>4, <1>6, <1>7, <2>1, <2>2 DEF TasksOwned, OnModel
  <2>5. WasteCounted'
    BY <1>0, <1>6, <1>7, <1>a, <2>1, <2>2 DEF WasteCounted
  <2>6. EvidenceSeen'
    BY <1>0, <1>a, <2>1, EvidenceStands
  <2>7. R!TwiceAbsent'
    BY <2>2 DEF R!TwiceAbsent
  <2>8. WithdrawalStands'
    <3>1. Head(rec.queue) \in Models
      <4>1. rec.queue \in Seq(Models) /\ rec.queue # <<>>
        BY <1>0, <1>6, <1>7 DEF ResidencyTypes
      <4> QED BY <4>1
    <3>2. rec.mid => ~row[Head(rec.queue)].desired
      BY <1>0, <1>6, <1>7 DEF WithdrawalStands
    <3>3. row'[Head(rec.queue)].desired = row[Head(rec.queue)].desired
      BY <1>7, <3>1
    <3> QED BY <2>2, <3>2, <3>3 DEF WithdrawalStands, R!WithdrawnGoes
  <2> QED BY <1>1, <1>a, <2>1, <2>3, <2>4, <2>5, <2>6, <2>7, <2>8
<1>8. CASE a = "reconciler" /\ ~ok
  <2>1. R!Fail(rec, L)
    BY <1>8 DEF R!LoadDone
  <2>2. rec.step # "idle"
    BY <1>6, <1>8
  <2>3. /\ lock' \in R!Actors \cup {"free"}
        /\ lock' = (IF lock = "reconciler" THEN "free" ELSE lock)
        /\ rec' = R!NoPass
        /\ rec' \in [step : PassSteps, queue : Seq(Models), round : Nat, restored : BOOLEAN,
                     mid : BOOLEAN]
        /\ evidence' \in [Models -> [n : 0..2, same : BOOLEAN, near : BOOLEAN]]
        /\ backoff' \in [waiting : BOOLEAN, wasted : Nat, gaveUp : BOOLEAN]
        /\ ghost' \in [absent : [Models -> 0..2], fruitless : Nat, stranded : SUBSET Models]
        /\ ghost'.stranded = ghost.stranded \cup L
        /\ WasteCounted' /\ EvidenceSeen' /\ R!TwiceAbsent' /\ WithdrawalStands'
    BY <2>1, <2>2, FailKeeps
  <2>4. ResidencyTypes'
    BY <1>0, <1>2, <2>3 DEF ResidencyTypes
  <2>5. TasksOwned'
    <3>1. rec'.step = "idle" /\ lock' = "free"
      BY <1>6, <1>8, <2>3 DEF R!NoPass
    <3> QED BY <1>0, <1>4, <1>6, <1>8, <3>1 DEF TasksOwned, OnModel
  <2> QED BY <1>1, <2>3, <2>4, <2>5
<1> QED BY <1>3, <1>5, <1>7, <1>8

\* A load goes on to its next step; only its own model's row is written.
LEMMA LoadMoves ==
  ASSUME ResidencyInv, NEW a \in R!Actors, NEW s \in {"begun", "fits", "running"},
         load[a].step # "none", load' = [load EXCEPT ![a] = [step |-> s, m |-> load[a].m]],
         row' \in [Models -> ModelRow], \A x \in Models : row'[x].fresh => row'[x].obs # "none",
         \A x \in Models : row'[x].obs = "downloaded" => row[x].obs = "downloaded",
         a = "reconciler" => \A x \in Models : row'[x].desired = row[x].desired,
         ghost' \in [absent : [Models -> 0..2], fruitless : Nat, stranded : SUBSET Models],
         ghost'.absent = ghost.absent, ghost'.fruitless <= ghost.fruitless,
         UNCHANGED <<disk, resident, unld, pull, probe, lock, rec, evidence, backoff>>
  PROVE  ResidencyTypes' /\ TasksOwned' /\ WasteCounted' /\ EvidenceSeen' /\ R!TwiceAbsent'
         /\ WithdrawalStands'
<1>0. ResidencyTypes /\ TasksOwned /\ WasteCounted /\ EvidenceSeen /\ R!TwiceAbsent /\ WithdrawalStands
  BY DEF ResidencyInv
<1>1. load[a].m \in Models
  BY <1>0 DEF TasksOwned
<1>2. /\ load' \in [R!Actors -> [step : {"none", "asked", "begun", "fits", "running"}, m : Places]]
      /\ load'[a].step = s /\ load'[a].m = load[a].m /\ \A b \in R!Actors \ {a} : load'[b] = load[b]
  BY <1>0, <1>1 DEF ResidencyTypes, Places
<1>3. ResidencyTypes'
  BY <1>0, <1>2 DEF ResidencyTypes
<1>4. \A b \in R!Actors : /\ load'[b].m = load[b].m
                          /\ load'[b].step # "none" <=> load[b].step # "none"
  BY <1>2
<1>5. TasksOwned'
  <2>1. "operator" \in R!Actors /\ "reconciler" \in R!Actors
    BY DEF R!Actors
  <2> QED BY <1>0, <1>4, <2>1 DEF TasksOwned
<1>6. WasteCounted'
  <2>1. ghost'.fruitless <= backoff.wasted
    <3>1. ghost'.fruitless \in Nat /\ ghost.fruitless \in Nat /\ backoff.wasted \in Nat
      BY <1>0, <1>3 DEF ResidencyTypes
    <3>2. ghost.fruitless <= backoff.wasted
      BY <1>0 DEF WasteCounted
    <3> QED BY <3>1, <3>2
  <2> QED BY <1>0, <2>1 DEF WasteCounted
<1>7. EvidenceSeen'
  BY <1>0, EvidenceStands
<1>8. R!TwiceAbsent'
  BY <1>0 DEF R!TwiceAbsent
<1>9. WithdrawalStands'
  <2>1. ASSUME rec.step \in {"loading", "after"}, rec.mid
        PROVE  ~row'[Head(rec.queue)].desired
    <3>1. Head(rec.queue) \in Models
      <4>1. rec.queue \in Seq(Models) /\ rec.queue # <<>>
        BY <1>0, <2>1 DEF ResidencyTypes, TasksOwned, OnModel
      <4> QED BY <4>1
    <3>2. a = "reconciler"
      BY <1>0, <2>1 DEF TasksOwned, R!Actors
    <3> QED BY <1>0, <2>1, <3>1, <3>2 DEF WithdrawalStands
  <2> QED BY <1>0, <2>1 DEF WithdrawalStands, R!WithdrawnGoes
<1> QED BY <1>3, <1>5, <1>6, <1>7, <1>8, <1>9

\* A load that has not begun to run leaves every state to the task that will end it.
LEMMA NotYetRunning ==
  ASSUME ResidencyInv, NEW a \in R!Actors, load[a].step # "running", ghost'.stranded = ghost.stranded,
         \A x \in Models : row'[x].state = row[x].state,
         \A b \in R!Actors \ {a} : load'[b] = load[b], UNCHANGED <<unld, pull>>
  PROVE  R!TransientOwned'
<1>1. \A x \in Models, b \in R!Actors : load[b] = Running(x) => load'[b] = load[b]
  BY DEF Running
<1> QED BY <1>1, OwnersStay DEF ResidencyInv

\* The row as a load finds it.
LEMMA LoadReadKeeps ==
  ASSUME R!ResidencyAssumption, ResidencyInv, NEW a \in R!Actors, R!LoadRead(a)
  PROVE  ResidencyInv'
<1> DEFINE m == load[a].m
<1>0. ResidencyTypes /\ TasksOwned
  BY DEF ResidencyInv
<1>1. load[a].step = "asked" /\ m \in Models /\ UNCHANGED <<disk, resident, unld, pull, probe>>
  BY <1>0 DEF R!LoadRead, TasksOwned
<1>2. row' = row \/ (a = "operator" /\ row' = [row EXCEPT ![m] = R!Wished(row[m], TRUE)])
  BY DEF R!LoadRead
<1>3. /\ row' \in [Models -> ModelRow] /\ \A x \in Models : row'[x].fresh => row'[x].obs # "none"
      /\ \A x \in Models : row'[x].obs = "downloaded" => row[x].obs = "downloaded"
      /\ \A x \in Models \ {m} : row'[x] = row[x]
  <2>1. "loaded" \in R!States
    BY DEF R!States
  <2> HIDE DEF m
  <2> QED BY <1>0, <1>1, <1>2, <2>1, StateWrite
<1>4. \A x \in Models : row'[x].state = row[x].state
  <2>1. row'[m].state = row[m].state
    <3>1. "loaded" \in R!States /\ row[m] \in ModelRow
      BY <1>0, <1>1 DEF R!States, ResidencyTypes
    <3>2. R!Wished(row[m], TRUE).state = row[m].state
      BY <3>1, RowsWritten
    <3>3. row'[m] = row[m] \/ row'[m] = R!Wished(row[m], TRUE)
      BY <1>0, <1>1, <1>2 DEF ResidencyTypes
    <3> QED BY <3>2, <3>3
  <2> QED BY <1>3, <2>1
<1>5. a = "reconciler" => \A x \in Models : row'[x].desired = row[x].desired
  BY <1>2
<1>6. resident' \in SUBSET Models
  BY <1>0, <1>1 DEF ResidencyTypes
<1>7. CASE R!LoadDone(a, TRUE, {}) \/ R!LoadDone(a, FALSE, {})
  <2>1. PICK ok \in BOOLEAN : R!LoadDone(a, ok, {})
    BY <1>7
  <2>2. load[a].step # "none"
    BY <1>1
  <2>3. /\ ResidencyTypes' /\ TasksOwned' /\ WasteCounted' /\ EvidenceSeen' /\ R!TwiceAbsent'
        /\ WithdrawalStands' /\ load' = [load EXCEPT ![a] = R!NoTask]
        /\ ghost'.stranded = ghost.stranded \cup {}
    <3>1. {} \in SUBSET Models
      OBVIOUS
    <3> QED BY <1>1, <1>3, <1>5, <1>6, <2>1, <2>2, <3>1, LoadDoneKeeps
  <2>4. R!TransientOwned'
    <3>1. \A b \in R!Actors \ {a} : load'[b] = load[b]
      BY <1>0, <2>3, LoadEnds
    <3> QED BY <1>1, <1>4, <2>3, <3>1, NotYetRunning
  <2> QED BY <2>3, <2>4 DEF ResidencyInv
<1>8. CASE R!LoadTask(a, "begun", m) /\ UNCHANGED <<row, lock, rec, evidence, backoff, ghost>>
  <2>1. load' = [load EXCEPT ![a] = [step |-> "begun", m |-> load[a].m]]
    BY <1>8 DEF R!LoadTask
  <2>2. /\ ghost' \in [absent : [Models -> 0..2], fruitless : Nat, stranded : SUBSET Models]
        /\ ghost'.absent = ghost.absent /\ ghost'.fruitless <= ghost.fruitless
        /\ ghost'.stranded = ghost.stranded
    BY <1>0, <1>8 DEF ResidencyTypes
  <2>3. load[a].step # "none"
    BY <1>1
  <2>4. ResidencyTypes' /\ TasksOwned' /\ WasteCounted' /\ EvidenceSeen' /\ R!TwiceAbsent'
        /\ WithdrawalStands'
    BY <1>1, <1>3, <1>5, <1>8, <2>1, <2>2, <2>3, LoadMoves
  <2>5. R!TransientOwned'
    <3>1. \A b \in R!Actors \ {a} : load'[b] = load[b]
      BY <1>0, <2>1 DEF ResidencyTypes
    <3> QED BY <1>1, <1>4, <2>2, <3>1, NotYetRunning
  <2> QED BY <2>4, <2>5 DEF ResidencyInv
<1> QED BY <1>7, <1>8 DEF R!LoadRead

\* The budget, the commit of LOADING, and what the runtime makes of it.
LEMMA LoadBudgetKeeps ==
  ASSUME R!ResidencyAssumption, ResidencyInv, NEW a \in R!Actors, R!LoadBudget(a)
  PROVE  ResidencyInv'
<1>0. ResidencyTypes /\ TasksOwned
  BY DEF ResidencyInv
<1>1. load[a].step = "begun" /\ UNCHANGED <<row, disk, resident, unld, pull, probe>>
  BY DEF R!LoadBudget
<1>2. /\ row' \in [Models -> ModelRow] /\ \A x \in Models : row'[x].fresh => row'[x].obs # "none"
      /\ \A x \in Models : row'[x] = row[x]
      /\ resident' \in SUBSET Models
  BY <1>0, <1>1 DEF ResidencyTypes
<1>3. load[a].step # "none"
  BY <1>1
<1>4. CASE R!LoadDone(a, FALSE, {})
  <2>1. /\ ResidencyTypes' /\ TasksOwned' /\ WasteCounted' /\ EvidenceSeen' /\ R!TwiceAbsent'
        /\ WithdrawalStands' /\ load' = [load EXCEPT ![a] = R!NoTask]
        /\ ghost'.stranded = ghost.stranded \cup {}
    <3>1. {} \in SUBSET Models
      OBVIOUS
    <3> QED BY <1>1, <1>2, <1>3, <1>4, <3>1, LoadDoneKeeps
  <2>2. \A b \in R!Actors \ {a} : load'[b] = load[b]
    BY <1>0, <2>1, LoadEnds
  <2>3. R!TransientOwned'
    BY <1>1, <1>2, <2>1, <2>2, NotYetRunning
  <2> QED BY <2>1, <2>3 DEF ResidencyInv
<1>5. CASE R!LoadTask(a, "fits", load[a].m) /\ UNCHANGED <<lock, rec, evidence, backoff, ghost>>
  <2>1. load' = [load EXCEPT ![a] = [step |-> "fits", m |-> load[a].m]]
    BY <1>5 DEF R!LoadTask
  <2>2. /\ ghost' \in [absent : [Models -> 0..2], fruitless : Nat, stranded : SUBSET Models]
        /\ ghost'.absent = ghost.absent /\ ghost'.fruitless <= ghost.fruitless
        /\ ghost'.stranded = ghost.stranded
    BY <1>0, <1>5 DEF ResidencyTypes
  <2>3. ResidencyTypes' /\ TasksOwned' /\ WasteCounted' /\ EvidenceSeen' /\ R!TwiceAbsent'
        /\ WithdrawalStands'
    BY <1>1, <1>2, <1>3, <1>5, <2>1, <2>2, LoadMoves
  <2>4. \A b \in R!Actors \ {a} : load'[b] = load[b]
    BY <1>0, <2>1 DEF ResidencyTypes
  <2>5. R!TransientOwned'
    BY <1>1, <1>2, <2>2, <2>4, NotYetRunning
  <2> QED BY <2>3, <2>5 DEF ResidencyInv
<1> QED BY <1>4, <1>5 DEF R!LoadBudget

\* A row and its model's task change together: the other rows keep their tasks.
LEMMA LoadOwns ==
  ASSUME ResidencyInv, NEW a \in R!Actors, load[a].m \in Models,
         \A x \in Models \ {load[a].m} : row'[x] = row[x],
         \A b \in R!Actors \ {a} : load'[b] = load[b], UNCHANGED <<unld, pull>>,
         ghost.stranded \ {load[a].m} \subseteq ghost'.stranded,
         \/ row'[load[a].m].state \notin R!TRANSIENT_STATES \/ load[a].m \in ghost'.stranded
         \/ row'[load[a].m].state = "loading" /\ load'[a] = Running(load[a].m)
  PROVE  R!TransientOwned'
<1>1. \A x \in Models \ {load[a].m}, b \in R!Actors : load[b] = Running(x) => load'[b] = load[b]
  BY DEF Running
<1> QED BY <1>1, OwnersStay DEF ResidencyInv

\* The intent and LOADING are committed before the runtime is called.
LEMMA LoadCommitStates ==
  ASSUME R!ResidencyAssumption, ResidencyInv, NEW a \in R!Actors, R!LoadCommit(a),
         row' = [row EXCEPT ![load[a].m] = R!Stated(IF a = "operator" THEN R!Wished(row[load[a].m], TRUE)
                                                    ELSE row[load[a].m], "loading")],
         ghost' = [ghost EXCEPT !.fruitless = IF a = "operator" THEN 0 ELSE ghost.fruitless,
                                !.stranded = ghost.stranded \ {load[a].m}]
  PROVE  ResidencyInv'
<1> DEFINE m == load[a].m
           r == IF a = "operator" THEN R!Wished(row[m], TRUE) ELSE row[m]
<1>0. ResidencyTypes /\ TasksOwned
  BY DEF ResidencyInv
<1>1. /\ load[a].step = "fits" /\ m \in Models
      /\ UNCHANGED <<disk, resident, unld, pull, probe, lock, rec, evidence, backoff>>
      /\ load' = [load EXCEPT ![a] = Running(m)]
      /\ row' = [row EXCEPT ![m] = R!Stated(r, "loading")]
  BY <1>0 DEF R!LoadCommit, R!LoadTask, TasksOwned, Running
<1>2. ghost' = [ghost EXCEPT !.fruitless = IF a = "operator" THEN 0 ELSE ghost.fruitless,
                             !.stranded = ghost.stranded \ {m}]
  OBVIOUS
<1>3. row[m] \in ModelRow /\ "loading" \in R!States
  BY <1>0, <1>1 DEF ResidencyTypes, R!States
<1>4. /\ row' \in [Models -> ModelRow] /\ \A x \in Models : row'[x].fresh => row'[x].obs # "none"
      /\ \A x \in Models : row'[x].obs = "downloaded" => row[x].obs = "downloaded"
      /\ \A x \in Models \ {m} : row'[x] = row[x]
  <2>1. \/ row' = [row EXCEPT ![m] = R!Stated(row[m], "loading")]
        \/ row' = [row EXCEPT ![m] = R!Stated(R!Wished(row[m], TRUE), "loading")]
    BY <1>1
  <2> HIDE DEF m, r
  <2> QED BY <1>0, <1>1, <1>3, <2>1, StateWrite
<1>5. row'[m] = R!Stated(r, "loading")
  <2> HIDE DEF r
  <2> QED BY <1>0, <1>1 DEF ResidencyTypes
<1>6. row'[m].state = "loading" /\ (a = "reconciler" => row'[m].desired = row[m].desired)
  <2>1. /\ R!Stated(row[m], "loading").state = "loading"
        /\ R!Stated(row[m], "loading").desired = row[m].desired
        /\ R!Stated(R!Wished(row[m], TRUE), "loading").state = "loading"
    <3> DEFINE w == row[m] s == "loading" d == TRUE
    <3>1. w \in ModelRow /\ s \in R!States /\ d \in BOOLEAN
      BY <1>3
    <3> HIDE DEF w, s, d
    <3>2. R!Stated(w, s).state = s /\ R!Stated(w, s).desired = w.desired
          /\ R!Stated(R!Wished(w, d), s).state = s
      BY <3>1, RowsWritten
    <3> QED BY <3>2 DEF w, s, d
  <2>2. a = "reconciler" => r = row[m]
    OBVIOUS
  <2>3. r = row[m] \/ r = R!Wished(row[m], TRUE)
    OBVIOUS
  <2> HIDE DEF r, m
  <2> QED BY <1>5, <2>1, <2>2, <2>3
<1>7. a = "reconciler" => \A x \in Models : row'[x].desired = row[x].desired
  <2> HIDE DEF m
  <2> QED BY <1>4, <1>6
<1>8. /\ ghost' \in [absent : [Models -> 0..2], fruitless : Nat, stranded : SUBSET Models]
      /\ ghost'.absent = ghost.absent /\ ghost'.fruitless <= ghost.fruitless
      /\ ghost'.stranded = ghost.stranded \ {m}
  <2> DEFINE f == IF a = "operator" THEN 0 ELSE ghost.fruitless
  <2>1. f \in Nat /\ f <= ghost.fruitless
    BY <1>0 DEF ResidencyTypes
  <2>2. ghost.stranded \ {m} \in SUBSET Models
    BY <1>0 DEF ResidencyTypes
  <2> HIDE DEF f, m
  <2> QED BY <1>0, <1>2, <2>1, <2>2 DEF ResidencyTypes, f
<1>9. load[a].step # "none" /\ load' = [load EXCEPT ![a] = [step |-> "running", m |-> load[a].m]]
  BY <1>1 DEF Running
<1>10. ResidencyTypes' /\ TasksOwned' /\ WasteCounted' /\ EvidenceSeen' /\ R!TwiceAbsent'
       /\ WithdrawalStands'
  BY <1>1, <1>4, <1>7, <1>8, <1>9, LoadMoves
<1>11. R!TransientOwned'
  <2>1. load'[a] = Running(m) /\ \A b \in R!Actors \ {a} : load'[b] = load[b]
    BY <1>0, <1>1 DEF ResidencyTypes
  <2> QED BY <1>1, <1>4, <1>6, <1>8, <2>1, LoadOwns
<1> QED BY <1>10, <1>11 DEF ResidencyInv

\* The commit of LOADING is passed over: the wish is all that is written.
LEMMA LoadCommitKeeps ==
  ASSUME R!ResidencyAssumption, ResidencyInv, NEW a \in R!Actors, R!LoadCommit(a)
  PROVE  ResidencyInv'
<1> DEFINE m == load[a].m
           r == IF a = "operator" THEN R!Wished(row[m], TRUE) ELSE row[m]
           f == IF a = "operator" THEN 0 ELSE ghost.fruitless
<1>0. ResidencyTypes /\ TasksOwned
  BY DEF ResidencyInv
<1>1. CASE row' = [row EXCEPT ![m] = R!Stated(r, "loading")]
           /\ ghost' = [ghost EXCEPT !.fruitless = f, !.stranded = ghost.stranded \ {m}]
  BY <1>1, LoadCommitStates
<1>2. CASE row' = [row EXCEPT ![m] = r] /\ ghost' = [ghost EXCEPT !.fruitless = f]
  <2>1. /\ load[a].step = "fits" /\ m \in Models
        /\ UNCHANGED <<disk, resident, unld, pull, probe, lock, rec, evidence, backoff>>
        /\ load' = [load EXCEPT ![a] = [step |-> "running", m |-> load[a].m]]
    BY <1>0 DEF R!LoadCommit, R!LoadTask, TasksOwned
  <2>2. row' = row \/ (a = "operator" /\ row' = [row EXCEPT ![m] = R!Wished(row[m], TRUE)])
    <3>1. row = [row EXCEPT ![m] = row[m]]
      BY <1>0, <2>1 DEF ResidencyTypes
    <3> QED BY <1>2, <3>1
  <2>3. "loaded" \in R!States /\ row[m] \in ModelRow
    BY <1>0, <2>1 DEF R!States, ResidencyTypes
  <2>4. /\ row' \in [Models -> ModelRow] /\ \A x \in Models : row'[x].fresh => row'[x].obs # "none"
        /\ \A x \in Models : row'[x].obs = "downloaded" => row[x].obs = "downloaded"
        /\ \A x \in Models \ {m} : row'[x] = row[x]
    <3> HIDE DEF m
    <3> QED BY <1>0, <2>1, <2>2, <2>3, StateWrite
  <2>5. \A x \in Models : row'[x].state = row[x].state
    <3>1. R!Wished(row[m], TRUE).state = row[m].state
      BY <2>3, RowsWritten
    <3>2. row'[m] = row[m] \/ row'[m] = R!Wished(row[m], TRUE)
      BY <1>0, <2>1, <2>2 DEF ResidencyTypes
    <3> QED BY <2>4, <3>1, <3>2
  <2>6. a = "reconciler" => \A x \in Models : row'[x].desired = row[x].desired
    BY <2>2
  <2>7. /\ ghost' \in [absent : [Models -> 0..2], fruitless : Nat, stranded : SUBSET Models]
        /\ ghost'.absent = ghost.absent /\ ghost'.fruitless <= ghost.fruitless
        /\ ghost'.stranded = ghost.stranded
    <3>1. f \in Nat /\ f <= ghost.fruitless
      BY <1>0 DEF ResidencyTypes
    <3> HIDE DEF f
    <3> QED BY <1>0, <1>2, <3>1 DEF ResidencyTypes
  <2>8. load[a].step # "none" /\ load[a].step # "running"
    BY <2>1
  <2>9. ResidencyTypes' /\ TasksOwned' /\ WasteCounted' /\ EvidenceSeen' /\ R!TwiceAbsent'
        /\ WithdrawalStands'
    BY <2>1, <2>4, <2>6, <2>7, <2>8, LoadMoves
  <2>10. \A b \in R!Actors \ {a} : load'[b] = load[b]
    BY <1>0, <2>1 DEF ResidencyTypes
  <2>11. R!TransientOwned'
    BY <2>1, <2>5, <2>7, <2>8, <2>10, NotYetRunning
  <2> QED BY <2>9, <2>11 DEF ResidencyInv
<1> QED BY <1>1, <1>2 DEF R!LoadCommit

\* What the runtime answers ends the load in LOADED or in ERROR, or the write of it is lost.
LEMMA LoadAnswersKeep ==
  ASSUME R!ResidencyAssumption, ResidencyInv, NEW a \in R!Actors,
         R!LoadReturns(a) \/ R!LoadFails(a) \/ R!LoadEndLost(a)
  PROVE  ResidencyInv'
<1> DEFINE m == load[a].m
<1>0. ResidencyTypes /\ TasksOwned
  BY DEF ResidencyInv
<1>2. load[a].step = "running" /\ m \in Models /\ UNCHANGED <<disk, unld, pull, probe>>
  BY <1>0 DEF R!LoadReturns, R!LoadFails, R!LoadEndLost, TasksOwned
<1>3. PICK s \in {"loaded", "error"}, ok \in BOOLEAN, L \in SUBSET {m} :
         /\ R!LoadDone(a, ok, L)
         /\ \/ row' = [row EXCEPT ![m] = R!Stated(row[m], s)]
            \/ row' = row /\ L = {m}
  <2>1. CASE R!LoadReturns(a)
    <3>1. R!LoadDone(a, TRUE, {}) /\ row' = [row EXCEPT ![m] = R!Stated(row[m], "loaded")]
      BY <2>1 DEF R!LoadReturns
    <3>2. {} \in SUBSET {m}
      OBVIOUS
    <3> QED BY <3>1, <3>2
  <2>2. CASE R!LoadFails(a)
    <3>1. R!LoadDone(a, FALSE, {}) /\ row' = [row EXCEPT ![m] = R!Stated(row[m], "error")]
      BY <2>2 DEF R!LoadFails
    <3>2. {} \in SUBSET {m}
      OBVIOUS
    <3> QED BY <3>1, <3>2
  <2>3. CASE R!LoadEndLost(a)
    <3>1. R!LoadDone(a, FALSE, {m}) /\ row' = row
      BY <2>3 DEF R!LoadEndLost
    <3>2. {m} \in SUBSET {m}
      OBVIOUS
    <3> QED BY <3>1, <3>2
  <2> QED BY <2>1, <2>2, <2>3
<1>4. resident' \in SUBSET Models
  <2>1. resident \in SUBSET Models
    BY <1>0 DEF ResidencyTypes
  <2>2. R!LoadFails(a) => resident' = resident \/ resident' = resident \cup {m}
    BY DEF R!LoadFails
  <2>3. R!LoadReturns(a) => \/ resident' = resident \cup {m}
                            \/ \E E \in SUBSET (resident \ {m}) : resident' = (resident \ E) \cup {m}
    BY DEF R!LoadReturns
  <2>4. R!LoadEndLost(a) => resident' = resident \/ resident' = resident \cup ({m} \cap disk)
    BY DEF R!LoadEndLost
  <2> HIDE DEF m
  <2> QED BY <1>2, <2>1, <2>2, <2>3, <2>4
<1>5. row[m] \in ModelRow /\ s \in R!States /\ s \notin R!TRANSIENT_STATES
  BY <1>0, <1>2 DEF ResidencyTypes, R!States, R!TRANSIENT_STATES
<1>6. /\ row' \in [Models -> ModelRow] /\ \A x \in Models : row'[x].fresh => row'[x].obs # "none"
      /\ \A x \in Models : row'[x].obs = "downloaded" => row[x].obs = "downloaded"
      /\ \A x \in Models \ {m} : row'[x] = row[x]
  <2> HIDE DEF m
  <2> QED BY <1>0, <1>2, <1>3, <1>5, StateWrite
<1>7. (row'[m].state = s \/ m \in L) /\ row'[m].desired = row[m].desired
  <2>1. R!Stated(row[m], s).state = s /\ R!Stated(row[m], s).desired = row[m].desired
    BY <1>5, RowsWritten
  <2>2. row'[m] = R!Stated(row[m], s) \/ (row'[m] = row[m] /\ m \in L)
    BY <1>0, <1>2, <1>3 DEF ResidencyTypes
  <2> QED BY <2>1, <2>2
<1>8. a = "reconciler" => \A x \in Models : row'[x].desired = row[x].desired
  <2> HIDE DEF m
  <2> QED BY <1>6, <1>7
<1>9. load[a].step # "none"
  BY <1>2
<1>10. /\ ResidencyTypes' /\ TasksOwned' /\ WasteCounted' /\ EvidenceSeen' /\ R!TwiceAbsent'
       /\ WithdrawalStands' /\ load' = [load EXCEPT ![a] = R!NoTask]
       /\ ghost'.stranded = ghost.stranded \cup L
  <2>1. L \in SUBSET Models
    BY <1>2
  <2> HIDE DEF m
  <2> QED BY <1>2, <1>3, <1>4, <1>6, <1>8, <1>9, <2>1, LoadDoneKeeps
<1>11. R!TransientOwned'
  <2>1. \A b \in R!Actors \ {a} : load'[b] = load[b]
    BY <1>0, <1>10, LoadEnds
  <2> QED BY <1>2, <1>5, <1>6, <1>7, <1>10, <2>1, LoadOwns
<1> QED BY <1>10, <1>11 DEF ResidencyInv

-----------------------------------------------------------------------------
(* Unloads, downloads, and what the runtime is looked to hold.               *)

\* The rows that an unload writes leave every state to a task.
LEMMA UnloadOwns ==
  ASSUME ResidencyInv, NEW a \in R!Actors, unld[a].m \in Models,
         \A x \in Models \ {unld[a].m} : row'[x] = row[x],
         \A b \in R!Actors \ {a} : unld'[b] = unld[b], UNCHANGED <<load, pull>>,
         ghost.stranded \ {unld[a].m} \subseteq ghost'.stranded,
         \/ row'[unld[a].m].state \notin R!TRANSIENT_STATES \/ unld[a].m \in ghost'.stranded
         \/ row'[unld[a].m].state = "unloading" /\ unld'[a] = Running(unld[a].m)
  PROVE  R!TransientOwned'
<1>1. \A x \in Models \ {unld[a].m}, b \in R!Actors : unld[b] = Running(x) => unld'[b] = unld[b]
  BY DEF Running
<1> QED BY <1>1, OwnersStay DEF ResidencyInv

\* The withdrawn wish and UNLOADING are committed before the runtime is called, or the
\* commit of UNLOADING is passed over.
LEMMA UnloadCommitKeeps ==
  ASSUME R!ResidencyAssumption, ResidencyInv, NEW a \in R!Actors, R!UnloadCommit(a)
  PROVE  ResidencyInv'
<1> DEFINE m == unld[a].m
           r == IF a = "operator" THEN R!Wished(row[m], FALSE) ELSE row[m]
           f == IF a = "operator" THEN 0 ELSE ghost.fruitless
           gone == rec.mid \/ (a = "operator" /\ R!Restoring(m))
<1>0. ResidencyTypes /\ TasksOwned /\ WasteCounted /\ EvidenceSeen /\ R!TwiceAbsent /\ WithdrawalStands
  BY DEF ResidencyInv
<1>1. /\ unld[a].step = "begun" /\ m \in Models
      /\ UNCHANGED <<disk, resident, load, pull, probe, lock, evidence, backoff>>
      /\ unld' = [unld EXCEPT ![a] = Running(m)]
      /\ rec' = [rec EXCEPT !.mid = gone]
  BY <1>0 DEF R!UnloadCommit, R!UnloadTask, TasksOwned, Running
<1>2. \/ /\ row' = [row EXCEPT ![m] = R!Stated(r, "unloading")]
         /\ ghost' = [ghost EXCEPT !.fruitless = f, !.stranded = ghost.stranded \ {m}]
      \/ /\ row' = [row EXCEPT ![m] = r]
         /\ ghost' = [ghost EXCEPT !.fruitless = f]
  BY DEF R!UnloadCommit
<1>3. row[m] \in ModelRow /\ "unloading" \in R!States
  BY <1>0, <1>1 DEF ResidencyTypes, R!States
<1>4. /\ row' \in [Models -> ModelRow] /\ \A x \in Models : row'[x].fresh => row'[x].obs # "none"
      /\ \A x \in Models : row'[x].obs = "downloaded" => row[x].obs = "downloaded"
      /\ \A x \in Models \ {m} : row'[x] = row[x]
  <2>1. \/ row' = [row EXCEPT ![m] = R!Stated(row[m], "unloading")]
        \/ row' = [row EXCEPT ![m] = R!Stated(R!Wished(row[m], FALSE), "unloading")]
        \/ row' = [row EXCEPT ![m] = R!Wished(row[m], FALSE)]
        \/ row' = row
    <3>1. row = [row EXCEPT ![m] = row[m]]
      BY <1>0, <1>1 DEF ResidencyTypes
    <3> QED BY <1>2, <3>1
  <2>2. FALSE \in BOOLEAN
    OBVIOUS
  <2> HIDE DEF m, r
  <2> QED BY <1>0, <1>1, <1>3, <2>1, <2>2, StateWrite
<1>5. row'[m] = R!Stated(r, "unloading") \/ row'[m] = r
  <2> HIDE DEF r
  <2> QED BY <1>0, <1>1, <1>2 DEF ResidencyTypes
<1>6. a = "operator" => ~row'[m].desired
  <2>1. /\ ~R!Stated(R!Wished(row[m], FALSE), "unloading").desired
        /\ ~R!Wished(row[m], FALSE).desired
    <3> DEFINE w == row[m] s == "unloading" d == FALSE
    <3>1. w \in ModelRow /\ s \in R!States /\ d \in BOOLEAN
      BY <1>3
    <3> HIDE DEF w, s, d
    <3>2. R!Stated(R!Wished(w, d), s).desired = d /\ R!Wished(w, d).desired = d
      BY <3>1, RowsWritten
    <3> QED BY <3>2 DEF w, s, d
  <2>2. a = "operator" => r = R!Wished(row[m], FALSE)
    OBVIOUS
  <2> HIDE DEF r, m
  <2> QED BY <1>5, <2>1, <2>2
<1>7. /\ ghost' \in [absent : [Models -> 0..2], fruitless : Nat, stranded : SUBSET Models]
      /\ ghost'.absent = ghost.absent /\ ghost'.fruitless <= ghost.fruitless
  <2>1. f \in Nat /\ f <= ghost.fruitless
    BY <1>0 DEF ResidencyTypes
  <2>2. ghost.stranded \ {m} \in SUBSET Models
    BY <1>0 DEF ResidencyTypes
  <2> HIDE DEF f, m, r
  <2> QED BY <1>0, <1>2, <2>1, <2>2 DEF ResidencyTypes
<1>8. /\ rec'.step = rec.step /\ rec'.queue = rec.queue /\ rec'.restored = rec.restored
      /\ rec'.mid = gone
      /\ rec' \in [step : PassSteps, queue : Seq(Models), round : Nat, restored : BOOLEAN, mid : BOOLEAN]
  <2>1. gone \in BOOLEAN
    BY <1>0 DEF ResidencyTypes
  <2> HIDE DEF gone
  <2> QED BY <1>0, <1>1, <2>1 DEF ResidencyTypes
<1>9. /\ unld' \in [R!Actors -> [step : {"none", "begun", "running"}, m : Places]]
      /\ unld'[a] = Running(m) /\ \A b \in R!Actors \ {a} : unld'[b] = unld[b]
      /\ \A b \in R!Actors : /\ unld'[b].m = unld[b].m
                             /\ unld'[b].step # "none" <=> unld[b].step # "none"
  <2>1. Running(m) \in [step : {"none", "begun", "running"}, m : Places]
        /\ Running(m).step = "running" /\ Running(m).m = unld[a].m
    BY <1>1 DEF Running, Places
  <2>2. /\ unld' \in [R!Actors -> [step : {"none", "begun", "running"}, m : Places]]
        /\ unld'[a] = Running(m) /\ \A b \in R!Actors \ {a} : unld'[b] = unld[b]
    <3> HIDE DEF m
    <3> QED BY <1>0, <1>1, <2>1 DEF ResidencyTypes
  <2>3. \A b \in R!Actors : /\ unld'[b].m = unld[b].m
                            /\ unld'[b].step # "none" <=> unld[b].step # "none"
    <3> HIDE DEF m
    <3> QED BY <1>1, <2>1, <2>2
  <2> QED BY <2>2, <2>3
<1>10. ResidencyTypes'
  BY <1>0, <1>1, <1>4, <1>7, <1>8, <1>9 DEF ResidencyTypes
<1>11. TasksOwned'
  <2>1. "operator" \in R!Actors /\ "reconciler" \in R!Actors
    BY DEF R!Actors
  <2> QED BY <1>0, <1>1, <1>8, <1>9, <2>1 DEF TasksOwned
<1>12. WasteCounted'
  <2>1. ghost'.fruitless <= backoff.wasted
    <3>1. ghost'.fruitless \in Nat /\ ghost.fruitless \in Nat /\ backoff.wasted \in Nat
      BY <1>0, <1>7 DEF ResidencyTypes
    <3>2. ghost.fruitless <= backoff.wasted
      BY <1>0 DEF WasteCounted
    <3> QED BY <1>7, <3>1, <3>2
  <2> QED BY <1>0, <1>1, <1>8, <2>1 DEF WasteCounted
<1>13. EvidenceSeen' /\ R!TwiceAbsent'
  <2>1. EvidenceSeen'
    BY <1>0, <1>1, <1>4, <1>7, EvidenceStands
  <2> QED BY <1>0, <1>7, <1>8, <2>1 DEF R!TwiceAbsent
<1>14. WithdrawalStands'
  <2>1. ASSUME rec.step \in {"loading", "after"}, gone
        PROVE  ~row'[Head(rec.queue)].desired
    <3>1. Head(rec.queue) \in Models
      <4>1. rec.queue \in Seq(Models) /\ rec.queue # <<>>
        BY <1>0, <2>1 DEF ResidencyTypes, TasksOwned, OnModel
      <4> QED BY <4>1
    <3>2. a = "operator"
      BY <1>0, <1>1, <2>1 DEF TasksOwned, R!Actors
    <3>3. CASE Head(rec.queue) = m
      BY <1>6, <3>2, <3>3
    <3>4. CASE Head(rec.queue) # m
      <4>1. rec.mid
        BY <2>1, <3>4 DEF R!Restoring
      <4> QED BY <1>0, <1>4, <2>1, <3>1, <3>4, <4>1 DEF WithdrawalStands
    <3> QED BY <3>3, <3>4
  <2>2. ASSUME rec.step = "look", gone
        PROVE  Head(rec.queue) \notin resident
    <3>1. rec.mid
      BY <2>2 DEF R!Restoring
    <3> QED BY <1>0, <2>2, <3>1 DEF WithdrawalStands, R!WithdrawnGoes
  <2> HIDE DEF gone
  <2> QED BY <1>1, <1>8, <2>1, <2>2 DEF WithdrawalStands, R!WithdrawnGoes
<1>15. R!TransientOwned'
  <2>1. CASE /\ row' = [row EXCEPT ![m] = R!Stated(r, "unloading")]
             /\ ghost' = [ghost EXCEPT !.fruitless = f, !.stranded = ghost.stranded \ {m}]
    <3>1. row'[m].state = "unloading"
      <4>1. row'[m] = R!Stated(r, "unloading")
        <5> HIDE DEF r
        <5> QED BY <1>0, <1>1, <2>1 DEF ResidencyTypes
      <4> QED BY <4>1 DEF R!Stated, R!Wished, ModelRow, ResidencyTypes
    <3>2. ghost'.stranded = ghost.stranded \ {m}
      <4> HIDE DEF f, m, r
      <4> QED BY <1>0, <2>1 DEF ResidencyTypes
    <3> QED BY <1>1, <1>4, <1>9, <3>1, <3>2, UnloadOwns
  <2>2. CASE row' = [row EXCEPT ![m] = r] /\ ghost' = [ghost EXCEPT !.fruitless = f]
    <3>1. row'[m].state = row[m].state
      <4>1. row'[m] = r
        <5> HIDE DEF r
        <5> QED BY <1>0, <1>1, <2>2 DEF ResidencyTypes
      <4>2. R!Wished(row[m], FALSE).state = row[m].state
        BY <1>3, RowsWritten
      <4>3. r = row[m] \/ r = R!Wished(row[m], FALSE)
        OBVIOUS
      <4> HIDE DEF r
      <4> QED BY <4>1, <4>2, <4>3
    <3>2. ghost'.stranded = ghost.stranded
      <4> HIDE DEF f, m, r
      <4> QED BY <1>0, <2>2 DEF ResidencyTypes
    <3>3. \A b \in R!Actors, x \in Models : unld[b] = Running(x) => unld'[b] = unld[b]
      BY <1>1, <1>9 DEF Running
    <3>4. \A x \in Models : row'[x].state = row[x].state
      <4> HIDE DEF m
      <4> QED BY <1>4, <3>1
    <3> QED BY <1>1, <3>2, <3>3, <3>4, OwnersStay DEF ResidencyInv
  <2> QED BY <1>2, <2>1, <2>2
<1> QED BY <1>10, <1>11, <1>12, <1>13, <1>14, <1>15 DEF ResidencyInv

\* The tasks of an actor as one of its unloads ends.
LEMMA UnloadEnds ==
  ASSUME ResidencyTypes, NEW a \in R!Actors, unld' = [unld EXCEPT ![a] = R!NoTask]
  PROVE  /\ unld' \in [R!Actors -> [step : {"none", "begun", "running"}, m : Places]]
         /\ unld'[a].step = "none" /\ \A b \in R!Actors \ {a} : unld'[b] = unld[b]
  BY DEF ResidencyTypes, R!NoTask, Places

\* The unload of a pass or of an operator ends, with the weights gone or still there.
LEMMA UnloadReturnsKeeps ==
  ASSUME R!ResidencyAssumption, ResidencyInv, NEW a \in R!Actors, R!UnloadReturns(a)
  PROVE  ResidencyInv'
<1> DEFINE m == unld[a].m
<1>0. ResidencyTypes /\ TasksOwned /\ WasteCounted /\ EvidenceSeen /\ R!TwiceAbsent /\ WithdrawalStands
  BY DEF ResidencyInv
<1>1. /\ unld[a].step = "running" /\ m \in Models /\ UNCHANGED <<disk, load, pull, probe>>
      /\ unld' = [unld EXCEPT ![a] = R!NoTask]
  BY <1>0 DEF R!UnloadReturns, TasksOwned
<1>8. "operator" \in R!Actors /\ "reconciler" \in R!Actors /\ a \in {"operator", "reconciler"}
  BY DEF R!Actors
<1>2. PICK s \in {"downloaded", "loaded"}, L \in SUBSET {m} :
         /\ \/ row' = [row EXCEPT ![m] = R!Stated(row[m], s)]
            \/ row' = row /\ L = {m}
         /\ \/ /\ a = "operator" /\ UNCHANGED <<rec, evidence, backoff, lock>>
               /\ ghost' = R!Stranding(L) \/ (ghost' = ghost /\ L = {})
            \/ /\ a = "reconciler" /\ rec' = [rec EXCEPT !.step = "look"] /\ resident' = resident \ {m}
               /\ UNCHANGED <<evidence, backoff, lock, ghost>> /\ L = {}
            \/ a = "reconciler" /\ R!Fail(rec, L)
  <2>0. {} \in SUBSET {m} /\ {m} \in SUBSET {m}
    OBVIOUS
  <2>1. CASE /\ resident' = resident \ {m}
             /\ row' = [row EXCEPT ![m] = R!Stated(row[m], "downloaded")]
             /\ rec' = IF a = "reconciler" THEN [rec EXCEPT !.step = "look"] ELSE rec
             /\ UNCHANGED <<evidence, backoff, lock, ghost>>
    <3> DEFINE s0 == "downloaded" L0 == {}
    <3>1. /\ s0 \in {"downloaded", "loaded"} /\ L0 \in SUBSET {m}
          /\ row' = [row EXCEPT ![m] = R!Stated(row[m], s0)] /\ L0 = {}
      BY <2>1
    <3> HIDE DEF s0, L0, m
    <3> QED BY <1>8, <2>1, <3>1
  <2>2. CASE /\ row' = [row EXCEPT ![m] = R!Stated(row[m], "loaded")]
             /\ R!UnloadFailed(a, {})
    <3> DEFINE s0 == "loaded" L0 == {}
    <3>1. /\ s0 \in {"downloaded", "loaded"} /\ L0 \in SUBSET {m}
          /\ row' = [row EXCEPT ![m] = R!Stated(row[m], s0)] /\ R!UnloadFailed(a, L0)
      BY <2>2
    <3> HIDE DEF s0, L0, m
    <3> QED BY <1>8, <3>1 DEF R!UnloadFailed
  <2>3. CASE row' = row /\ R!UnloadFailed(a, {m})
    <3> DEFINE s0 == "loaded" L0 == {m}
    <3>1. /\ s0 \in {"downloaded", "loaded"} /\ L0 \in SUBSET {m} /\ L0 = {m}
          /\ row' = row /\ R!UnloadFailed(a, L0)
      BY <2>3
    <3> HIDE DEF s0, L0, m
    <3> QED BY <1>8, <3>1 DEF R!UnloadFailed
  <2> QED BY <2>1, <2>2, <2>3 DEF R!UnloadReturns
<1>a. /\ ghost' = R!Stranding(L) \/ (ghost' = ghost /\ L = {}) =>
            /\ ghost' \in [absent : [Models -> 0..2], fruitless : Nat, stranded : SUBSET Models]
            /\ ghost'.absent = ghost.absent /\ ghost'.fruitless = ghost.fruitless
            /\ ghost'.stranded = ghost.stranded \cup L
      /\ L \in SUBSET Models
  <2>1. L \in SUBSET Models
    BY <1>1
  <2>2. ghost' = R!Stranding(L) =>
            /\ ghost' \in [absent : [Models -> 0..2], fruitless : Nat, stranded : SUBSET Models]
            /\ ghost'.absent = ghost.absent /\ ghost'.fruitless = ghost.fruitless
            /\ ghost'.stranded = ghost.stranded \cup L
    BY <1>0, <2>1, GhostStrands
  <2>3. ghost \in [absent : [Models -> 0..2], fruitless : Nat, stranded : SUBSET Models]
    BY <1>0 DEF ResidencyTypes
  <2> QED BY <2>1, <2>2, <2>3
<1>3. row[m] \in ModelRow /\ s \in R!States /\ s \notin R!TRANSIENT_STATES
  BY <1>0, <1>1 DEF ResidencyTypes, R!States, R!TRANSIENT_STATES
<1>4. /\ row' \in [Models -> ModelRow] /\ \A x \in Models : row'[x].fresh => row'[x].obs # "none"
      /\ \A x \in Models : row'[x].obs = "downloaded" => row[x].obs = "downloaded"
      /\ \A x \in Models \ {m} : row'[x] = row[x]
  <2> HIDE DEF m
  <2> QED BY <1>0, <1>1, <1>2, <1>3, StateWrite
<1>5. (row'[m].state = s \/ m \in L) /\ row'[m].desired = row[m].desired
  <2>1. R!Stated(row[m], s).state = s /\ R!Stated(row[m], s).desired = row[m].desired
    <3> DEFINE w == row[m]
    <3>1. w \in ModelRow
      BY <1>3
    <3> HIDE DEF w
    <3>2. \A d \in BOOLEAN : R!Stated(w, s).state = s /\ R!Stated(w, s).desired = w.desired
      BY <1>3, <3>1, RowsWritten
    <3>3. TRUE \in BOOLEAN
      OBVIOUS
    <3> QED BY <3>2, <3>3 DEF w
  <2>2. row'[m] = R!Stated(row[m], s) \/ (row'[m] = row[m] /\ m \in L)
    BY <1>0, <1>1, <1>2 DEF ResidencyTypes
  <2> QED BY <2>1, <2>2
<1>6. \A x \in Models : row'[x].desired = row[x].desired
  <2> HIDE DEF m
  <2> QED BY <1>4, <1>5
<1>7. /\ unld' \in [R!Actors -> [step : {"none", "begun", "running"}, m : Places]]
      /\ unld'[a].step = "none" /\ \A b \in R!Actors \ {a} : unld'[b] = unld[b]
      /\ \A b \in R!Actors : unld'[b].step # "none" => unld'[b] = unld[b]
  BY <1>0, <1>1, UnloadEnds
<1>9. ASSUME a = "reconciler"
      PROVE  rec.step = "releasing" /\ lock = "reconciler" /\ rec.queue # <<>> /\ m = Head(rec.queue)
             /\ unld'["operator"] = unld["operator"] /\ unld'["reconciler"].step = "none"
             /\ load["operator"].step = "none" /\ load["reconciler"].step = "none"
             /\ probe["reconciler"].left = {}
  BY <1>0, <1>1, <1>7, <1>8, <1>9 DEF TasksOwned, OnModel
<1>10. resident' \in SUBSET Models /\ resident' \subseteq resident
  <2>1. resident \in SUBSET Models
    BY <1>0 DEF ResidencyTypes
  <2>2. resident' = resident \/ resident' = resident \ {m}
    BY DEF R!UnloadReturns
  <2> QED BY <2>1, <2>2
<1>11. CASE a = "operator"
  <2>1. /\ UNCHANGED <<rec, evidence, backoff, lock>>
        /\ ghost' \in [absent : [Models -> 0..2], fruitless : Nat, stranded : SUBSET Models]
        /\ ghost'.absent = ghost.absent /\ ghost'.fruitless = ghost.fruitless
        /\ ghost'.stranded = ghost.stranded \cup L
    BY <1>2, <1>a, <1>11
  <2>2. ResidencyTypes'
    BY <1>0, <1>1, <1>4, <1>7, <1>10, <2>1 DEF ResidencyTypes
  <2>3. TasksOwned'
    <3>1. unld'["reconciler"] = unld["reconciler"]
      BY <1>7, <1>8, <1>11
    <3> QED BY <1>0, <1>1, <1>7, <2>1, <3>1 DEF TasksOwned
  <2>4. WasteCounted' /\ R!TwiceAbsent'
    BY <1>0, <2>1 DEF WasteCounted, R!TwiceAbsent
  <2>5. EvidenceSeen'
    BY <1>0, <1>4, <2>1, EvidenceStands
  <2>6. WithdrawalStands'
    <3>1. rec.step \in {"loading", "after"} => Head(rec.queue) \in Models
      <4>1. rec.step \in {"loading", "after"} => rec.queue \in Seq(Models) /\ rec.queue # <<>>
        BY <1>0 DEF ResidencyTypes, TasksOwned, OnModel
      <4> QED BY <4>1
    <3> QED BY <1>0, <1>6, <1>10, <2>1, <3>1 DEF WithdrawalStands, R!WithdrawnGoes
  <2>7. R!TransientOwned'
    <3> HIDE DEF m
    <3> QED BY <1>1, <1>3, <1>4, <1>5, <1>7, <2>1, UnloadOwns DEF m
  <2> QED BY <2>2, <2>3, <2>4, <2>5, <2>6, <2>7 DEF ResidencyInv
<1>12. CASE a = "reconciler" /\ rec' = [rec EXCEPT !.step = "look"] /\ resident' = resident \ {m}
            /\ UNCHANGED <<evidence, backoff, lock, ghost>> /\ L = {}
  <2>1. /\ rec'.step = "look" /\ rec'.queue = rec.queue
        /\ rec' \in [step : PassSteps, queue : Seq(Models), round : Nat, restored : BOOLEAN, mid : BOOLEAN]
    BY <1>0, <1>12 DEF ResidencyTypes, PassSteps
  <2>2. ResidencyTypes'
    BY <1>0, <1>1, <1>4, <1>7, <1>10, <1>12, <2>1 DEF ResidencyTypes
  <2>3. TasksOwned'
    BY <1>0, <1>1, <1>7, <1>9, <1>12, <2>1 DEF TasksOwned, OnModel
  <2>4. WasteCounted' /\ R!TwiceAbsent'
    BY <1>0, <1>9, <1>12, <2>1 DEF WasteCounted, R!TwiceAbsent
  <2>5. EvidenceSeen'
    BY <1>0, <1>4, <1>12, EvidenceStands
  <2>6. WithdrawalStands'
    BY <1>9, <1>12, <2>1 DEF WithdrawalStands, R!WithdrawnGoes
  <2>7. R!TransientOwned'
    <3> HIDE DEF m
    <3> QED BY <1>1, <1>3, <1>4, <1>5, <1>7, <1>12, UnloadOwns DEF m
  <2> QED BY <2>2, <2>3, <2>4, <2>5, <2>6, <2>7 DEF ResidencyInv
<1>13. CASE a = "reconciler" /\ R!Fail(rec, L)
  <2>1. rec.step # "idle"
    BY <1>9, <1>13
  <2>2. /\ lock' \in R!Actors \cup {"free"}
        /\ lock' = (IF lock = "reconciler" THEN "free" ELSE lock)
        /\ rec' = R!NoPass
        /\ rec' \in [step : PassSteps, queue : Seq(Models), round : Nat, restored : BOOLEAN,
                     mid : BOOLEAN]
        /\ evidence' \in [Models -> [n : 0..2, same : BOOLEAN, near : BOOLEAN]]
        /\ backoff' \in [waiting : BOOLEAN, wasted : Nat, gaveUp : BOOLEAN]
        /\ ghost' \in [absent : [Models -> 0..2], fruitless : Nat, stranded : SUBSET Models]
        /\ ghost'.stranded = ghost.stranded \cup L
        /\ WasteCounted' /\ EvidenceSeen' /\ R!TwiceAbsent' /\ WithdrawalStands'
    BY <1>4, <1>a, <1>13, <2>1, FailKeeps
  <2>3. ResidencyTypes'
    BY <1>0, <1>1, <1>4, <1>7, <1>10, <2>2 DEF ResidencyTypes
  <2>4. TasksOwned'
    <3>1. rec'.step = "idle" /\ lock' = "free"
      BY <1>9, <1>13, <2>2 DEF R!NoPass
    <3> QED BY <1>0, <1>1, <1>7, <1>9, <1>13, <3>1 DEF TasksOwned, OnModel
  <2>5. R!TransientOwned'
    <3> HIDE DEF m
    <3> QED BY <1>1, <1>3, <1>4, <1>5, <1>7, <2>2, UnloadOwns DEF m
  <2> QED BY <2>2, <2>3, <2>4, <2>5 DEF ResidencyInv
<1> QED BY <1>2, <1>11, <1>12, <1>13

\* A download claims its row and ends in DOWNLOADED or ERROR; an observation may age.
LEMMA DownloadsKeep ==
  ASSUME ResidencyInv, NEW i \in {1, 2}, R!DownloadClaim(i) \/ R!DownloadRun(i)
  PROVE  ResidencyInv'
<1> DEFINE m == pull[i].m
<1>0. ResidencyTypes /\ TasksOwned /\ WasteCounted /\ EvidenceSeen /\ R!TwiceAbsent /\ WithdrawalStands
  BY DEF ResidencyInv
<1>1. /\ m \in Models /\ pull[i].step # "none"
      /\ UNCHANGED <<resident, load, unld, probe, lock, rec, evidence, backoff>>
  BY <1>0 DEF R!DownloadClaim, R!DownloadRun, TasksOwned
<1>2. PICK s \in {"downloading", "downloaded", "error"} :
         /\ row' = [row EXCEPT ![m] = R!Stated(row[m], s)] \/ row' = row
         /\ s = "downloading" => pull[i].step = "claim" /\ pull' = [pull EXCEPT ![i].step = "running"]
         /\ s # "downloading" => pull' = [pull EXCEPT ![i] = R!NoTask]
         /\ \/ /\ row' = [row EXCEPT ![m] = R!Stated(row[m], s)]
               /\ ghost' = ghost \/ ghost' = [ghost EXCEPT !.stranded = ghost.stranded \ {m}]
            \/ row' = row /\ s # "downloading" /\ ghost' = R!Stranding({m})
            \/ row' = row /\ s = "downloading" /\ ghost' = ghost
  BY DEF R!DownloadClaim, R!DownloadRun
<1>3. row[m] \in ModelRow /\ s \in R!States /\ (s # "downloading" => s \notin R!TRANSIENT_STATES)
  BY <1>0, <1>1 DEF ResidencyTypes, R!States, R!TRANSIENT_STATES
<1>4. /\ row' \in [Models -> ModelRow] /\ \A x \in Models : row'[x].fresh => row'[x].obs # "none"
      /\ \A x \in Models : row'[x].obs = "downloaded" => row[x].obs = "downloaded"
      /\ \A x \in Models \ {m} : row'[x] = row[x]
  <2> HIDE DEF m
  <2> QED BY <1>0, <1>1, <1>2, <1>3, StateWrite
<1>5. (row'[m].state = s \/ row' = row) /\ row'[m].desired = row[m].desired
  <2>1. R!Stated(row[m], s).state = s /\ R!Stated(row[m], s).desired = row[m].desired
    <3> DEFINE w == row[m]
    <3>1. w \in ModelRow
      BY <1>3
    <3> HIDE DEF w
    <3>2. \A d \in BOOLEAN : R!Stated(w, s).state = s /\ R!Stated(w, s).desired = w.desired
      BY <1>3, <3>1, RowsWritten
    <3>3. TRUE \in BOOLEAN
      OBVIOUS
    <3> QED BY <3>2, <3>3 DEF w
  <2>2. row'[m] = R!Stated(row[m], s) \/ row' = row
    BY <1>0, <1>1, <1>2 DEF ResidencyTypes
  <2> QED BY <2>1, <2>2
<1>6. \A x \in Models : row'[x].desired = row[x].desired
  <2> HIDE DEF m
  <2> QED BY <1>4, <1>5
<1>7. disk' \in SUBSET Models
  <2>1. disk \in SUBSET Models
    BY <1>0 DEF ResidencyTypes
  <2>2. disk' = disk \/ disk' = disk \cup {m}
    BY DEF R!DownloadClaim, R!DownloadRun
  <2> QED BY <1>1, <2>1, <2>2
<1>8. /\ ghost' \in [absent : [Models -> 0..2], fruitless : Nat, stranded : SUBSET Models]
      /\ ghost'.absent = ghost.absent /\ ghost'.fruitless = ghost.fruitless
      /\ ghost.stranded \ {m} \subseteq ghost'.stranded
  <2>1. \/ ghost' = ghost \/ ghost' = [ghost EXCEPT !.stranded = ghost.stranded \ {m}]
        \/ ghost' = R!Stranding({m})
    BY <1>2
  <2>2. ghost.stranded \ {m} \in SUBSET Models /\ {m} \in SUBSET Models
    BY <1>0, <1>1 DEF ResidencyTypes
  <2> HIDE DEF m
  <2>3. CASE ghost' = R!Stranding({m})
    BY <1>0, <2>2, <2>3, GhostStrands
  <2>4. CASE ghost' = ghost \/ ghost' = [ghost EXCEPT !.stranded = ghost.stranded \ {m}]
    BY <1>0, <2>2, <2>4 DEF ResidencyTypes
  <2> QED BY <2>1, <2>3, <2>4
<1>9. /\ pull' \in [{1, 2} -> [step : {"none", "claim", "running"}, m : Places]]
      /\ s = "downloading" => pull'[i] = Running(m)
      /\ \A j \in {1, 2} \ {i} : pull'[j] = pull[j]
      /\ \A j \in {1, 2} : pull'[j].step # "none" => pull'[j].m \in Models
  <2>1. pull \in [{1, 2} -> [step : {"none", "claim", "running"}, m : Places]]
    BY <1>0 DEF ResidencyTypes
  <2>2. \A j \in {1, 2} : pull[j].step # "none" => pull[j].m \in Models
    BY <1>0 DEF TasksOwned
  <2>3. CASE s = "downloading"
    <3>1. pull' = [pull EXCEPT ![i].step = "running"]
      BY <1>2, <2>3
    <3>2. /\ pull' \in [{1, 2} -> [step : {"none", "claim", "running"}, m : Places]]
          /\ \A j \in {1, 2} \ {i} : pull'[j] = pull[j]
          /\ pull'[i].step = "running" /\ pull'[i].m = m
      BY <2>1, <3>1
    <3>3. pull'[i] = Running(m)
      <4>1. pull'[i] \in [step : {"none", "claim", "running"}, m : Places]
        BY <3>2
      <4> QED BY <3>2, <4>1 DEF Running
    <3> QED BY <1>1, <2>2, <3>2, <3>3
  <2>4. CASE s # "downloading"
    <3>1. pull' = [pull EXCEPT ![i] = R!NoTask]
      BY <1>2, <2>4
    <3>2. /\ pull' \in [{1, 2} -> [step : {"none", "claim", "running"}, m : Places]]
          /\ \A j \in {1, 2} \ {i} : pull'[j] = pull[j]
          /\ pull'[i].step = "none"
      BY <2>1, <3>1 DEF R!NoTask, Places
    <3> QED BY <2>2, <2>4, <3>2
  <2> QED BY <2>3, <2>4
<1>10. ResidencyTypes'
  BY <1>0, <1>1, <1>4, <1>7, <1>8, <1>9 DEF ResidencyTypes
<1>11. TasksOwned'
  BY <1>0, <1>1, <1>9 DEF TasksOwned
<1>12. WasteCounted' /\ R!TwiceAbsent'
  BY <1>0, <1>1, <1>8 DEF WasteCounted, R!TwiceAbsent
<1>13. EvidenceSeen'
  BY <1>0, <1>1, <1>4, <1>8, EvidenceStands
<1>14. WithdrawalStands'
  <2>1. rec.step \in {"loading", "after"} => Head(rec.queue) \in Models
    <3>1. rec.step \in {"loading", "after"} => rec.queue \in Seq(Models) /\ rec.queue # <<>>
      BY <1>0 DEF ResidencyTypes, TasksOwned, OnModel
    <3> QED BY <3>1
  <2> QED BY <1>0, <1>1, <1>6, <2>1 DEF WithdrawalStands, R!WithdrawnGoes
<1>15. R!TransientOwned'
  <2>1. \A j \in {1, 2}, x \in Models \ {m} : pull[j] = Running(x) => pull'[j] = pull[j]
    BY <1>9 DEF Running
  <2>2. \/ row'[m].state = s \/ m \in ghost'.stranded
        \/ row' = row /\ s = "downloading" /\ ghost' = ghost
    <3>1. ghost' = R!Stranding({m}) => m \in ghost'.stranded
      <4>1. {m} \in SUBSET Models
        BY <1>1
      <4> HIDE DEF m
      <4> QED BY <1>0, <4>1, GhostStrands
    <3>2. row' = [row EXCEPT ![m] = R!Stated(row[m], s)] => row'[m].state = s
      <4> DEFINE w == row[m]
      <4>1. R!Stated(w, s).state = s
        <5>1. w \in ModelRow /\ TRUE \in BOOLEAN
          BY <1>3
        <5> HIDE DEF w
        <5>2. \A d \in BOOLEAN : R!Stated(w, s).state = s
          BY <1>3, <5>1, RowsWritten
        <5> QED BY <5>1, <5>2
      <4> DEFINE z == R!Stated(w, s)
      <4>2. row' = [row EXCEPT ![m] = z] => row'[m] = z
        <5>1. row \in [Models -> ModelRow] /\ m \in Models
          BY <1>0, <1>1 DEF ResidencyTypes
        <5> HIDE DEF z, m
        <5> QED BY <5>1
      <4> QED BY <4>1, <4>2
    <3> QED BY <1>2, <3>1, <3>2
  <2>3. row' = row /\ s = "downloading" => \A x \in Models : pull[i] # Running(x)
    BY <1>2 DEF Running
  <2>4. CASE row' = row /\ s = "downloading" /\ ghost' = ghost
    <3>1. \A j \in {1, 2}, x \in Models : pull[j] = Running(x) => pull'[j] = pull[j]
      <4> HIDE DEF m
      <4> QED BY <1>9, <2>3, <2>4
    <3> QED BY <1>1, <2>4, <3>1, OwnersStay DEF ResidencyInv
  <2>5. CASE row'[m].state = s \/ m \in ghost'.stranded
    <3> HIDE DEF m
    <3> QED BY <1>1, <1>3, <1>4, <1>8, <1>9, <2>1, <2>5, OwnersStay DEF ResidencyInv
  <2> HIDE DEF m
  <2> QED BY <2>2, <2>4, <2>5
<1> QED BY <1>10, <1>11, <1>12, <1>13, <1>14, <1>15 DEF ResidencyInv

\* An observation ages: nothing else of the row changes.
LEMMA StaleKeeps ==
  ASSUME ResidencyInv, NEW m \in Models, R!GoesStale(m)
  PROVE  ResidencyInv'
<1>0. ResidencyTypes /\ TasksOwned /\ WasteCounted /\ EvidenceSeen /\ R!TwiceAbsent /\ WithdrawalStands
  BY DEF ResidencyInv
<1>1. /\ row' = [row EXCEPT ![m].fresh = FALSE]
      /\ UNCHANGED <<disk, resident, load, unld, pull, probe, lock, rec, evidence, backoff, ghost>>
  BY DEF R!GoesStale
<1>2. row \in [Models -> ModelRow] /\ \A x \in Models : row[x].fresh => row[x].obs # "none"
  BY <1>0 DEF ResidencyTypes
<1>3. /\ row' \in [Models -> ModelRow] /\ \A x \in Models \ {m} : row'[x] = row[x]
      /\ row'[m].fresh = FALSE /\ row'[m].obs = row[m].obs /\ row'[m].state = row[m].state
      /\ row'[m].desired = row[m].desired
  BY <1>1, <1>2 DEF ModelRow
<1>4. \A x \in Models : /\ row'[x].fresh => row'[x].obs # "none"
                        /\ row'[x].obs = row[x].obs /\ row'[x].state = row[x].state
  BY <1>2, <1>3
<1>5. \A x \in Models : row'[x].desired = row[x].desired
  BY <1>3
<1>6. ResidencyTypes'
  BY <1>0, <1>1, <1>3, <1>4 DEF ResidencyTypes
<1>7. TasksOwned' /\ WasteCounted' /\ R!TwiceAbsent'
  BY <1>0, <1>1 DEF TasksOwned, WasteCounted, R!TwiceAbsent
<1>8. EvidenceSeen'
  BY <1>0, <1>1, <1>4, EvidenceStands
<1>9. WithdrawalStands'
  <2>1. rec.step \in {"loading", "after"} => Head(rec.queue) \in Models
    <3>1. rec.step \in {"loading", "after"} => rec.queue \in Seq(Models) /\ rec.queue # <<>>
      BY <1>0 DEF ResidencyTypes, TasksOwned, OnModel
    <3> QED BY <3>1
  <2> QED BY <1>0, <1>1, <1>5, <2>1 DEF WithdrawalStands, R!WithdrawnGoes
<1>10. R!TransientOwned'
  BY <1>1, <1>4, OwnersStay DEF ResidencyInv
<1> QED BY <1>6, <1>7, <1>8, <1>9, <1>10 DEF ResidencyInv

\* Another answer of the runtime, counted up to two.
LEMMA OneMore ==
  ASSUME NEW k \in 0..2
  PROVE  R!Min({k + 1, 2}) \in 0..2 /\ R!Min({k + 1, 2}) >= k /\ R!Min({k + 1, 2}) >= 1
         /\ (k >= 1 => R!Min({k + 1, 2}) = 2)
<1>1. CASE k = 0
  <2>1. 1 \in {k + 1, 2} /\ \A y \in {k + 1, 2} : 1 <= y
    BY <1>1
  <2>2. \A x \in {k + 1, 2} : (\A y \in {k + 1, 2} : x <= y) => x = 1
    BY <1>1
  <2>3. R!Min({k + 1, 2}) = 1
    BY <2>1, <2>2 DEF R!Min
  <2> QED BY <1>1, <2>3
<1>2. CASE k \in {1, 2}
  <2>1. 2 \in {k + 1, 2} /\ \A y \in {k + 1, 2} : 2 <= y
    BY <1>2
  <2>2. \A x \in {k + 1, 2} : (\A y \in {k + 1, 2} : x <= y) => x = 2
    BY <1>2
  <2>3. R!Min({k + 1, 2}) = 2
    BY <2>1, <2>2 DEF R!Min
  <2> QED BY <1>2, <2>3
<1> QED BY <1>1, <1>2

\* The runtime is asked what it holds.
LEMMA ProbeAskKeeps ==
  ASSUME ResidencyInv, NEW p \in R!Probers, R!ProbeAsk(p)
  PROVE  ResidencyInv'
<1>0. ResidencyTypes /\ TasksOwned /\ WasteCounted /\ EvidenceSeen /\ R!TwiceAbsent /\ WithdrawalStands
  BY DEF ResidencyInv
<1>1. /\ UNCHANGED <<row, disk, resident, load, unld, pull, lock, evidence, backoff, ghost>>
      /\ IF p = "reconciler" THEN rec.step = "look" /\ rec' = [rec EXCEPT !.step = "looking"]
                             ELSE UNCHANGED rec
  BY DEF R!ProbeAsk
<1>2. PICK answered \in BOOLEAN :
        probe' = [probe EXCEPT ![p] = [left |-> Models, holds |-> resident, found |-> disk,
                                       answered |-> answered]]
  BY DEF R!ProbeAsk
<1>3. /\ probe' \in [R!Probers -> [left : SUBSET Models, holds : SUBSET Models, found : SUBSET Models,
                                 answered : BOOLEAN]]
      /\ \A q \in R!Probers \ {p} : probe'[q] = probe[q]
  <2> DEFINE b == [left |-> Models, holds |-> resident, found |-> disk, answered |-> answered]
  <2>1. b \in [left : SUBSET Models, holds : SUBSET Models, found : SUBSET Models, answered : BOOLEAN]
    BY <1>0 DEF ResidencyTypes
  <2> HIDE DEF b
  <2>2. probe' = [probe EXCEPT ![p] = b]
    BY <1>2 DEF b
  <2> QED BY <1>0, <2>1, <2>2 DEF ResidencyTypes
<1>4. /\ rec'.queue = rec.queue /\ rec'.restored = rec.restored /\ rec'.mid = rec.mid
      /\ rec' \in [step : PassSteps, queue : Seq(Models), round : Nat, restored : BOOLEAN, mid : BOOLEAN]
      /\ p = "reconciler" => rec.step = "look" /\ rec'.step = "looking"
      /\ p # "reconciler" => rec'.step = rec.step
  <2>1. "looking" \in PassSteps
    BY DEF PassSteps
  <2>2. rec' = rec \/ rec' = [rec EXCEPT !.step = "looking"]
    BY <1>1
  <2>3. /\ rec'.queue = rec.queue /\ rec'.restored = rec.restored /\ rec'.mid = rec.mid
        /\ rec' \in [step : PassSteps, queue : Seq(Models), round : Nat, restored : BOOLEAN, mid : BOOLEAN]
    BY <1>0, <2>1, <2>2 DEF ResidencyTypes
  <2> QED BY <1>0, <1>1, <2>3 DEF ResidencyTypes
<1>5. ResidencyTypes'
  BY <1>0, <1>1, <1>3, <1>4 DEF ResidencyTypes
<1>6. TasksOwned'
  <2>1. p # "reconciler" => probe'["reconciler"] = probe["reconciler"]
    BY <1>3 DEF R!Probers
  <2> QED BY <1>0, <1>1, <1>4, <2>1 DEF TasksOwned, OnModel
<1>7. WasteCounted' /\ R!TwiceAbsent'
  BY <1>0, <1>1, <1>4 DEF WasteCounted, R!TwiceAbsent
<1>8. EvidenceSeen'
  BY <1>0, <1>1, EvidenceStands
<1>9. WithdrawalStands'
  BY <1>0, <1>1, <1>4 DEF WithdrawalStands, R!WithdrawnGoes
<1>10. R!TransientOwned'
  BY <1>1, OwnersStay DEF ResidencyInv
<1> QED BY <1>5, <1>6, <1>7, <1>8, <1>9, <1>10 DEF ResidencyInv

\* What it answered of one model is written: an absence is one more.
LEMMA ProbeWriteKeeps ==
  ASSUME R!ResidencyAssumption, ResidencyInv, NEW p \in R!Probers, R!ProbeWrite(p)
  PROVE  ResidencyInv'
<1> DEFINE m == R!Min(probe[p].left)
           o == R!Observed(p, m)
           k == ghost.absent[m]
           k1 == IF o = "downloaded" THEN R!Min({k + 1, 2}) ELSE k
<1>0. ResidencyTypes /\ TasksOwned /\ WasteCounted /\ EvidenceSeen /\ R!TwiceAbsent /\ WithdrawalStands
  BY DEF ResidencyInv
<1>1. /\ probe[p].left # {} /\ probe' = [probe EXCEPT ![p].left = probe[p].left \ {m}]
      /\ row' = [row EXCEPT ![m].obs = o, ![m].fresh = (o # "none")]
      /\ ghost' = [ghost EXCEPT !.absent[m] = k1]
      /\ rec' = IF p = "reconciler" /\ probe[p].left = {m}
                THEN [rec EXCEPT !.step = "next", !.queue = Tail(rec.queue), !.mid = FALSE] ELSE rec
      /\ UNCHANGED <<disk, resident, load, unld, pull, lock, backoff>>
  BY DEF R!ProbeWrite
<1>2. PICK near \in BOOLEAN : evidence' = [evidence EXCEPT ![m].same = FALSE, ![m].near = near]
  BY DEF R!ProbeWrite
<1>3. m \in Models /\ m \in probe[p].left /\ probe[p].left \in SUBSET Models
  <2>1. probe[p].left \in SUBSET Models
    BY <1>0 DEF ResidencyTypes
  <2> QED BY <1>1, <2>1, FirstOfModels
<1>4. o \in R!Observations
  BY DEF R!Observed, R!Observations
<1>5. k \in 0..2 /\ k1 \in 0..2 /\ k1 >= k /\ (o = "downloaded" => k1 >= 1 /\ (k >= 1 => k1 = 2))
  <2>1. k \in 0..2
    <3> HIDE DEF m
    <3> QED BY <1>0, <1>3 DEF ResidencyTypes
  <2> HIDE DEF m, k, o
  <2>2. CASE o = "downloaded"
    BY <2>1, <2>2, OneMore
  <2>3. CASE o # "downloaded"
    BY <2>1, <2>3
  <2> QED BY <2>2, <2>3
<1> HIDE DEF m, o, k, k1
<1>6. /\ row' \in [Models -> ModelRow] /\ \A x \in Models \ {m} : row'[x] = row[x]
      /\ row'[m].obs = o /\ row'[m].state = row[m].state /\ row'[m].desired = row[m].desired
      /\ row'[m].fresh = (o # "none")
  <2> DEFINE z == o # "none"
  <2>1. z \in BOOLEAN /\ row[m] \in ModelRow /\ row \in [Models -> ModelRow]
    BY <1>0, <1>3 DEF ResidencyTypes
  <2>2. row' = [row EXCEPT ![m] = [row[m] EXCEPT !.obs = o, !.fresh = z]]
    BY <1>0, <1>1, <1>3 DEF ResidencyTypes
  <2> HIDE DEF z
  <2> DEFINE w == [row[m] EXCEPT !.obs = o, !.fresh = z]
  <2>3. \A r \in ModelRow : /\ [r EXCEPT !.obs = o, !.fresh = z] \in ModelRow
                            /\ [r EXCEPT !.obs = o, !.fresh = z].obs = o
                            /\ [r EXCEPT !.obs = o, !.fresh = z].fresh = z
                            /\ [r EXCEPT !.obs = o, !.fresh = z].state = r.state
                            /\ [r EXCEPT !.obs = o, !.fresh = z].desired = r.desired
    BY <1>4, <2>1 DEF ModelRow
  <2>4. w \in ModelRow /\ w.obs = o /\ w.fresh = z /\ w.state = row[m].state /\ w.desired = row[m].desired
    BY <2>1, <2>3
  <2>5. row' = [row EXCEPT ![m] = w]
    BY <2>2
  <2> HIDE DEF w
  <2>6. row'[m] = w /\ row' \in [Models -> ModelRow] /\ \A x \in Models \ {m} : row'[x] = row[x]
    BY <1>3, <2>1, <2>4, <2>5
  <2> QED BY <2>4, <2>6 DEF z
<1>7. \A x \in Models : row'[x].fresh => row'[x].obs # "none"
  BY <1>0, <1>6 DEF ResidencyTypes
<1>8. \A x \in Models : row'[x].state = row[x].state /\ row'[x].desired = row[x].desired
  BY <1>6
<1>9. /\ evidence' \in [Models -> [n : 0..2, same : BOOLEAN, near : BOOLEAN]]
      /\ evidence'[m].n = evidence[m].n /\ ~evidence'[m].same
      /\ \A x \in Models \ {m} : evidence'[x] = evidence[x]
  <2>1. evidence \in [Models -> [n : 0..2, same : BOOLEAN, near : BOOLEAN]]
        /\ evidence[m] \in [n : 0..2, same : BOOLEAN, near : BOOLEAN]
    BY <1>0, <1>3 DEF ResidencyTypes
  <2> DEFINE w == [evidence[m] EXCEPT !.same = FALSE, !.near = near]
             D == 0..2
  <2>2. evidence' = [evidence EXCEPT ![m] = w]
    BY <1>2, <1>3, <2>1
  <2> HIDE DEF D
  <2>3. \A e \in [n : D, same : BOOLEAN, near : BOOLEAN] :
          /\ [e EXCEPT !.same = FALSE, !.near = near] \in [n : D, same : BOOLEAN, near : BOOLEAN]
          /\ [e EXCEPT !.same = FALSE, !.near = near].n = e.n
          /\ ~[e EXCEPT !.same = FALSE, !.near = near].same
    OBVIOUS
  <2>4. w \in [n : D, same : BOOLEAN, near : BOOLEAN] /\ w.n = evidence[m].n /\ ~w.same
    BY <2>1, <2>3 DEF D
  <2> HIDE DEF w
  <2> QED BY <1>3, <2>1, <2>2, <2>4 DEF D
<1>10. /\ ghost' \in [absent : [Models -> 0..2], fruitless : Nat, stranded : SUBSET Models]
       /\ ghost'.absent[m] = k1 /\ \A x \in Models \ {m} : ghost'.absent[x] = ghost.absent[x]
       /\ ghost'.fruitless = ghost.fruitless /\ ghost'.stranded = ghost.stranded
  <2>1. ghost \in [absent : [Models -> 0..2], fruitless : Nat, stranded : SUBSET Models]
    BY <1>0 DEF ResidencyTypes
  <2> DEFINE D == 0..2
  <2>2. k1 \in D
    BY <1>5
  <2> HIDE DEF D
  <2>3. ghost \in [absent : [Models -> D], fruitless : Nat, stranded : SUBSET Models]
    BY <2>1 DEF D
  <2>4. ghost' = [ghost EXCEPT !.absent = [ghost.absent EXCEPT ![m] = k1]]
    BY <1>1, <2>3
  <2>5. [ghost.absent EXCEPT ![m] = k1] \in [Models -> D]
    BY <1>3, <2>2, <2>3
  <2>6. /\ ghost' \in [absent : [Models -> D], fruitless : Nat, stranded : SUBSET Models]
        /\ ghost'.absent[m] = k1 /\ \A x \in Models \ {m} : ghost'.absent[x] = ghost.absent[x]
        /\ ghost'.fruitless = ghost.fruitless /\ ghost'.stranded = ghost.stranded
    BY <1>3, <2>3, <2>4, <2>5
  <2> QED BY <2>6 DEF D
<1>11. /\ probe' \in [R!Probers -> [left : SUBSET Models, holds : SUBSET Models, found : SUBSET Models,
                                  answered : BOOLEAN]]
       /\ probe'[p].left = probe[p].left \ {m} /\ \A q \in R!Probers \ {p} : probe'[q] = probe[q]
  <2> DEFINE l == probe[p].left \ {m}
  <2>1. l \in SUBSET Models
    BY <1>3
  <2>2. probe' = [probe EXCEPT ![p].left = l]
    BY <1>1
  <2> HIDE DEF l
  <2>3. /\ probe' \in [R!Probers -> [left : SUBSET Models, holds : SUBSET Models, found : SUBSET Models,
                                   answered : BOOLEAN]]
        /\ \A q \in R!Probers \ {p} : probe'[q] = probe[q]
    <3> DEFINE Box == [left : SUBSET Models, holds : SUBSET Models, found : SUBSET Models, answered : BOOLEAN]
               w == [probe[p] EXCEPT !.left = l]
    <3>1. probe \in [R!Probers -> Box] /\ probe[p] \in Box
      BY <1>0 DEF ResidencyTypes
    <3>2. \A b \in Box : [b EXCEPT !.left = l] \in Box
      BY <2>1
    <3>3. w \in Box /\ probe' = [probe EXCEPT ![p] = w]
      BY <2>2, <3>1, <3>2
    <3> HIDE DEF w, Box
    <3>4. probe' \in [R!Probers -> Box] /\ \A q \in R!Probers \ {p} : probe'[q] = probe[q]
      BY <3>1, <3>3
    <3> QED BY <3>4 DEF Box
  <2>4. probe'[p].left = l
    BY <1>0, <2>2 DEF ResidencyTypes
  <2> QED BY <2>3, <2>4 DEF l
<1>12. ASSUME p = "reconciler" PROVE rec.step = "looking" /\ lock = "reconciler" /\ rec.queue # <<>>
  BY <1>0, <1>1, <1>12 DEF TasksOwned, OnModel
<1>13. \/ rec' = rec /\ (p = "reconciler" => rec.step = "looking")
       \/ /\ p = "reconciler" /\ probe'["reconciler"].left = {} /\ rec.step = "looking" /\ lock = "reconciler"
          /\ rec'.step = "next" /\ rec'.restored = rec.restored /\ rec'.mid = FALSE
          /\ rec' \in [step : PassSteps, queue : Seq(Models), round : Nat, restored : BOOLEAN, mid : BOOLEAN]
  <2>1. CASE p = "reconciler" /\ probe[p].left = {m}
    <3>1. rec' = [rec EXCEPT !.step = "next", !.queue = Tail(rec.queue), !.mid = FALSE]
      BY <1>1, <2>1
    <3>2. rec.queue \in Seq(Models) /\ rec.queue # <<>>
      BY <1>0, <1>12, <2>1 DEF ResidencyTypes
    <3>3. Tail(rec.queue) \in Seq(Models)
      BY <3>2
    <3> DEFINE t == Tail(rec.queue)
    <3>4. t \in Seq(Models) /\ rec' = [rec EXCEPT !.step = "next", !.queue = t, !.mid = FALSE]
      BY <3>1, <3>3
    <3> HIDE DEF t
    <3>5. /\ rec'.step = "next" /\ rec'.restored = rec.restored /\ rec'.mid = FALSE
          /\ rec' \in [step : PassSteps, queue : Seq(Models), round : Nat, restored : BOOLEAN, mid : BOOLEAN]
      BY <1>0, <3>4 DEF ResidencyTypes, PassSteps
    <3>6. probe'["reconciler"].left = {}
      BY <1>11, <2>1
    <3> QED BY <1>12, <2>1, <3>5, <3>6
  <2>2. CASE ~(p = "reconciler" /\ probe[p].left = {m})
    BY <1>1, <1>12, <2>2
  <2> QED BY <2>1, <2>2
<1>14. ResidencyTypes'
  <2>1. rec' \in [step : PassSteps, queue : Seq(Models), round : Nat, restored : BOOLEAN, mid : BOOLEAN]
    BY <1>0, <1>13 DEF ResidencyTypes
  <2> QED BY <1>0, <1>1, <1>6, <1>7, <1>9, <1>10, <1>11, <2>1 DEF ResidencyTypes
<1>15. TasksOwned'
  <2>1. p # "reconciler" => probe'["reconciler"] = probe["reconciler"]
    BY <1>11 DEF R!Probers
  <2>2. CASE rec' = rec /\ (p = "reconciler" => rec.step = "looking")
    BY <1>0, <1>1, <2>1, <2>2 DEF TasksOwned
  <2>3. CASE /\ p = "reconciler" /\ probe'["reconciler"].left = {} /\ rec.step = "looking"
             /\ lock = "reconciler" /\ rec'.step = "next"
    BY <1>0, <1>1, <2>3 DEF TasksOwned, OnModel
  <2> QED BY <1>13, <2>2, <2>3
<1>16. WasteCounted'
  <2>1. \A x \in Models : evidence'[x].n = evidence[x].n
    BY <1>9
  <2>2. /\ rec'.step # "idle" => rec.step # "idle"
        /\ rec'.step = "idle" => rec' = rec
    BY <1>13
  <2> QED BY <1>0, <1>1, <1>10, <2>1, <2>2 DEF WasteCounted
<1>17. EvidenceSeen'
  <2> SUFFICES ASSUME NEW x \in Models
               PROVE  /\ evidence'[x].n <= ghost'.absent[x]
                      /\ evidence'[x].n = 0 => ~evidence'[x].same
                      /\ row'[x].obs = "downloaded" /\ ~evidence'[x].same => ghost'.absent[x] >= 1
                      /\ row'[x].obs = "downloaded" /\ ~evidence'[x].same /\ evidence'[x].n > 0
                            => ghost'.absent[x] = 2
    BY DEF EvidenceSeen
  <2>1. CASE x # m
    BY <1>0, <1>6, <1>9, <1>10, <2>1 DEF EvidenceSeen
  <2>2. CASE x = m
    <3>1. evidence[m].n <= k /\ evidence[m].n \in 0..2
      BY <1>0, <1>3 DEF EvidenceSeen, ResidencyTypes, k
    <3>2. evidence'[m].n = evidence[m].n /\ ghost'.absent[m] = k1 /\ row'[m].obs = o
      BY <1>6, <1>9, <1>10
    <3>3. evidence[m].n <= k1 /\ (o = "downloaded" => k1 >= 1)
          /\ (o = "downloaded" /\ evidence[m].n > 0 => k1 = 2)
      BY <1>5, <3>1
    <3>4. ~evidence'[m].same
      BY <1>9
    <3>5. /\ evidence'[m].n <= ghost'.absent[m]
          /\ row'[m].obs = "downloaded" => ghost'.absent[m] >= 1
          /\ row'[m].obs = "downloaded" /\ evidence'[m].n > 0 => ghost'.absent[m] = 2
      BY <3>2, <3>3
    <3> QED BY <2>2, <3>4, <3>5
  <2> QED BY <2>1, <2>2
<1>18. R!TwiceAbsent'
  <2> SUFFICES ASSUME rec'.step = "lock", NEW i \in DOMAIN rec'.queue
               PROVE  ghost'.absent[rec'.queue[i]] >= 2
    BY DEF R!TwiceAbsent
  <2>1. rec' = rec
    BY <1>13
  <2>2. rec.queue[i] \in Models /\ ghost.absent[rec.queue[i]] >= 2
    <3>1. rec.queue \in Seq(Models)
      BY <1>0 DEF ResidencyTypes
    <3> QED BY <1>0, <2>1, <3>1 DEF R!TwiceAbsent
  <2>3. CASE rec.queue[i] = m
    <3>1. k >= 2
      BY <2>2, <2>3 DEF k
    <3>2. k1 >= 2
      BY <1>5, <3>1
    <3> QED BY <1>10, <2>1, <2>3, <3>2
  <2>4. CASE rec.queue[i] # m
    BY <1>10, <2>1, <2>2, <2>4
  <2> QED BY <2>3, <2>4
<1>19. WithdrawalStands'
  <2>1. rec.step \in {"loading", "after"} => Head(rec.queue) \in Models
    <3>1. rec.step \in {"loading", "after"} => rec.queue \in Seq(Models) /\ rec.queue # <<>>
      BY <1>0 DEF ResidencyTypes, TasksOwned, OnModel
    <3> QED BY <3>1
  <2> QED BY <1>0, <1>1, <1>8, <1>13, <2>1 DEF WithdrawalStands, R!WithdrawnGoes
<1>20. R!TransientOwned'
  BY <1>1, <1>8, <1>10, OwnersStay DEF ResidencyInv
<1> QED BY <1>14, <1>15, <1>16, <1>17, <1>18, <1>19, <1>20 DEF ResidencyInv

-----------------------------------------------------------------------------
(* The reconciler's pass.                                                  *)

RecType == [step : PassSteps, queue : Seq(Models), round : Nat, restored : BOOLEAN, mid : BOOLEAN]

\* A pass that stops without a failure leaves its evidence, and wastes nothing.
LEMMA PassEnds ==
  ASSUME R!ResidencyAssumption, ResidencyInv, rec.step \in {"lock", "next"}, rec' = R!NoPass,
         lock' = (IF lock = "reconciler" THEN "free" ELSE lock),
         \/ UNCHANGED <<backoff, ghost>>
         \/ backoff' = R!NoBackoff /\ ghost' = [ghost EXCEPT !.fruitless = 0],
         UNCHANGED <<row, disk, resident, load, unld, pull, probe, evidence>>
  PROVE  ResidencyInv'
<1>0. ResidencyTypes /\ TasksOwned /\ WasteCounted /\ EvidenceSeen
  BY DEF ResidencyInv
<1>1. rec' \in RecType /\ rec'.step = "idle" /\ ~rec'.restored
  <2>1. <<>> \in Seq(Models)
    OBVIOUS
  <2> QED BY <2>1 DEF R!NoPass, PassSteps, RecType
<1>2. /\ ghost' \in [absent : [Models -> 0..2], fruitless : Nat, stranded : SUBSET Models]
      /\ ghost'.absent = ghost.absent /\ ghost'.stranded = ghost.stranded
  <2>1. ghost' = ghost \/ ghost' = [ghost EXCEPT !.fruitless = 0]
    OBVIOUS
  <2>2. ghost \in [absent : [Models -> 0..2], fruitless : Nat, stranded : SUBSET Models]
    BY <1>0 DEF ResidencyTypes
  <2>3. CASE ghost' = ghost
    BY <2>2, <2>3
  <2>4. CASE ghost' = [ghost EXCEPT !.fruitless = 0]
    <3> DEFINE Counts == [Models -> 0..2]
    <3> HIDE DEF Counts
    <3>1. ghost \in [absent : Counts, fruitless : Nat, stranded : SUBSET Models]
      BY <2>2 DEF Counts
    <3>2. /\ ghost' \in [absent : Counts, fruitless : Nat, stranded : SUBSET Models]
          /\ ghost'.absent = ghost.absent /\ ghost'.stranded = ghost.stranded
      BY <2>4, <3>1
    <3> QED BY <3>2 DEF Counts
  <2> QED BY <2>1, <2>3, <2>4
<1>3. backoff' \in [waiting : BOOLEAN, wasted : Nat, gaveUp : BOOLEAN]
  <2>1. R!NoBackoff \in [waiting : BOOLEAN, wasted : Nat, gaveUp : BOOLEAN]
    BY DEF R!NoBackoff
  <2>2. backoff \in [waiting : BOOLEAN, wasted : Nat, gaveUp : BOOLEAN]
    BY <1>0 DEF ResidencyTypes
  <2>3. backoff' = backoff \/ backoff' = R!NoBackoff
    OBVIOUS
  <2> HIDE DEF R!NoBackoff
  <2> QED BY <2>1, <2>2, <2>3
<1>4. lock' \in R!Actors \cup {"free"} /\ lock' # "reconciler"
  BY <1>0 DEF ResidencyTypes
<1>5. ResidencyTypes'
  BY <1>0, <1>1, <1>2, <1>3, <1>4 DEF ResidencyTypes, RecType
<1>6. TasksOwned'
  BY <1>0, <1>1, <1>4 DEF TasksOwned, OnModel
<1>7. WasteCounted'
  <2>1. CASE UNCHANGED <<backoff, ghost>>
    BY <1>0, <1>1, <2>1 DEF WasteCounted
  <2>2. CASE backoff' = R!NoBackoff /\ ghost' = [ghost EXCEPT !.fruitless = 0]
    <3>1. ghost'.fruitless = 0
      BY <1>0, <2>2 DEF ResidencyTypes
    <3>2. backoff'.wasted = 0 /\ ~backoff'.gaveUp /\ ~backoff'.waiting
      BY <2>2 DEF R!NoBackoff
    <3>3. GiveUpAfter \in Nat /\ GiveUpAfter > 0
      BY DEF R!ResidencyAssumption
    <3> QED BY <1>1, <3>1, <3>2, <3>3 DEF WasteCounted
  <2> QED BY <2>1, <2>2
<1>8. EvidenceSeen'
  BY <1>0, <1>2, EvidenceStands
<1>9. R!TwiceAbsent' /\ WithdrawalStands'
  BY <1>1 DEF R!TwiceAbsent, WithdrawalStands, R!WithdrawnGoes
<1>10. R!TransientOwned'
  BY <1>2, OwnersStay DEF ResidencyInv
<1> QED BY <1>5, <1>6, <1>7, <1>8, <1>9, <1>10 DEF ResidencyInv

\* A pass that fails between its tasks.
LEMMA PassFails ==
  ASSUME R!ResidencyAssumption, ResidencyInv, rec.step \in {"next", "after"}, R!Fail(rec, {}),
         UNCHANGED <<row, disk, resident, load, unld, pull, probe>>
  PROVE  ResidencyInv'
<1>0. ResidencyTypes /\ TasksOwned /\ rec.step # "idle"
      /\ \A x \in Models : row'[x].obs = "downloaded" => row[x].obs = "downloaded"
  BY DEF ResidencyInv
<1>1. /\ lock' \in R!Actors \cup {"free"}
      /\ lock' = (IF lock = "reconciler" THEN "free" ELSE lock)
      /\ rec' = R!NoPass
      /\ rec' \in [step : PassSteps, queue : Seq(Models), round : Nat, restored : BOOLEAN,
                   mid : BOOLEAN]
      /\ evidence' \in [Models -> [n : 0..2, same : BOOLEAN, near : BOOLEAN]]
      /\ backoff' \in [waiting : BOOLEAN, wasted : Nat, gaveUp : BOOLEAN]
      /\ ghost' \in [absent : [Models -> 0..2], fruitless : Nat, stranded : SUBSET Models]
      /\ ghost'.stranded = ghost.stranded \cup {}
      /\ WasteCounted' /\ EvidenceSeen' /\ R!TwiceAbsent' /\ WithdrawalStands'
  <2>1. {} \in SUBSET Models
    OBVIOUS
  <2> QED BY <1>0, <2>1, FailKeeps
<1>2. ResidencyTypes'
  BY <1>0, <1>1 DEF ResidencyTypes
<1>3. TasksOwned'
  <2>1. rec'.step = "idle" /\ lock' # "reconciler"
    BY <1>1 DEF R!NoPass
  <2>2. lock = "reconciler"
    BY <1>0 DEF TasksOwned
  <2> QED BY <1>0, <1>1, <2>1, <2>2 DEF TasksOwned, OnModel
<1>4. R!TransientOwned'
  BY <1>1, OwnersStay DEF ResidencyInv
<1> QED BY <1>1, <1>2, <1>3, <1>4 DEF ResidencyInv

\* A pass that goes on, alone or with a task that begins.
LEMMA PassGoesOn ==
  ASSUME ResidencyInv, rec.step # "idle", rec'.step \notin {"idle", "lock"}, rec' \in RecType,
         lock' \in R!Actors \cup {"free"},
         load' \in [R!Actors -> [step : {"none", "asked", "begun", "fits", "running"}, m : Places]],
         unld' \in [R!Actors -> [step : {"none", "begun", "running"}, m : Places]],
         \A b \in R!Actors : /\ load[b].step # "none" => load'[b] = load[b]
                             /\ unld[b].step # "none" => unld'[b] = unld[b],
         UNCHANGED <<row, disk, resident, pull, probe, evidence, backoff, ghost>>
  PROVE  ResidencyTypes' /\ WasteCounted' /\ EvidenceSeen' /\ R!TwiceAbsent' /\ R!TransientOwned'
<1>0. ResidencyTypes /\ WasteCounted /\ EvidenceSeen
  BY DEF ResidencyInv
<1>1. ResidencyTypes'
  BY <1>0 DEF ResidencyTypes, RecType
<1>2. WasteCounted' /\ R!TwiceAbsent'
  BY <1>0 DEF WasteCounted, R!TwiceAbsent
<1>3. EvidenceSeen'
  BY <1>0, EvidenceStands
<1>4. R!TransientOwned'
  <2>1. \A b \in R!Actors, x \in Models : /\ load[b] = Running(x) => load'[b] = load[b]
                                          /\ unld[b] = Running(x) => unld'[b] = unld[b]
    BY DEF Running
  <2> QED BY <2>1, OwnersStay DEF ResidencyInv
<1> QED BY <1>1, <1>2, <1>3, <1>4

\* The node is taken, or the pass is skipped.
LEMMA TakeNodeKeeps ==
  ASSUME R!ResidencyAssumption, ResidencyInv, R!TakeNode
  PROVE  ResidencyInv'
<1>0. ResidencyTypes /\ TasksOwned
  BY DEF ResidencyInv
<1>1. rec.step = "lock" /\ UNCHANGED <<row, disk, resident, load, unld, pull, probe, evidence, backoff, ghost>>
  BY DEF R!TakeNode
<1>2. CASE lock = "free" /\ lock' = "reconciler" /\ rec' = [rec EXCEPT !.step = "next"]
  <2>1. rec' \in RecType /\ rec'.step = "next"
    BY <1>0, <1>2 DEF ResidencyTypes, RecType, PassSteps
  <2>2. lock' \in R!Actors \cup {"free"}
    BY <1>2 DEF R!Actors
  <2>3. /\ load' \in [R!Actors -> [step : {"none", "asked", "begun", "fits", "running"}, m : Places]]
        /\ unld' \in [R!Actors -> [step : {"none", "begun", "running"}, m : Places]]
    BY <1>0, <1>1 DEF ResidencyTypes
  <2>4. ResidencyTypes' /\ WasteCounted' /\ EvidenceSeen' /\ R!TwiceAbsent' /\ R!TransientOwned'
    BY <1>1, <2>1, <2>2, <2>3, PassGoesOn
  <2>5. TasksOwned'
    BY <1>0, <1>1, <1>2, <2>1 DEF TasksOwned, OnModel
  <2>6. WithdrawalStands'
    BY <2>1 DEF WithdrawalStands, R!WithdrawnGoes
  <2> QED BY <2>4, <2>5, <2>6 DEF ResidencyInv
<1>3. CASE lock # "free" /\ rec' = R!NoPass /\ UNCHANGED lock
  <2>1. lock # "reconciler"
    BY <1>0, <1>1 DEF TasksOwned
  <2> QED BY <1>1, <1>3, <2>1, PassEnds
<1> QED BY <1>2, <1>3 DEF R!TakeNode

\* One model of the queue: left alone, skipped, failed, or its load asked for.
LEMMA RestoreOneKeeps ==
  ASSUME R!ResidencyAssumption, ResidencyInv, R!RestoreOne
  PROVE  ResidencyInv'
<1> DEFINE m == Head(rec.queue)
<1>0. ResidencyTypes /\ TasksOwned
  BY DEF ResidencyInv
<1>1. rec.step = "next" /\ rec.queue # <<>> /\ UNCHANGED <<row, disk, resident, unld, pull, probe>>
  BY DEF R!RestoreOne
<1>2. rec.queue \in Seq(Models) /\ m \in Models /\ Tail(rec.queue) \in Seq(Models)
  <2>1. rec.queue \in Seq(Models)
    BY <1>0 DEF ResidencyTypes
  <2> QED BY <1>1, <2>1
<1>3. CASE R!Ended /\ UNCHANGED <<load, evidence, backoff, ghost>>
  BY <1>1, <1>3, PassEnds DEF R!Ended
<1>4. CASE rec' = [rec EXCEPT !.queue = Tail(rec.queue)] /\ UNCHANGED <<lock, load, evidence, backoff, ghost>>
  <2> DEFINE t == Tail(rec.queue)
  <2>1. t \in Seq(Models) /\ rec' = [rec EXCEPT !.queue = t]
    BY <1>2, <1>4
  <2> HIDE DEF t
  <2>2. rec' \in RecType /\ rec'.step = "next"
    BY <1>0, <1>1, <2>1 DEF ResidencyTypes, RecType
  <2>3. ResidencyTypes' /\ WasteCounted' /\ EvidenceSeen' /\ R!TwiceAbsent' /\ R!TransientOwned'
    <3>1. /\ lock' \in R!Actors \cup {"free"}
          /\ load' \in [R!Actors -> [step : {"none", "asked", "begun", "fits", "running"}, m : Places]]
          /\ unld' \in [R!Actors -> [step : {"none", "begun", "running"}, m : Places]]
      BY <1>0, <1>1, <1>4 DEF ResidencyTypes
    <3> QED BY <1>1, <1>4, <2>2, <3>1, PassGoesOn
  <2>4. TasksOwned'
    BY <1>0, <1>1, <1>4, <2>2 DEF TasksOwned, OnModel
  <2>5. WithdrawalStands'
    BY <2>2 DEF WithdrawalStands, R!WithdrawnGoes
  <2> QED BY <2>3, <2>4, <2>5 DEF ResidencyInv
<1>5. CASE R!Fail(rec, {}) /\ UNCHANGED load
  BY <1>1, <1>5, PassFails
<1>6. CASE /\ R!LoadTask("reconciler", "asked", m)
           /\ rec' = [rec EXCEPT !.step = "loading", !.mid = FALSE]
           /\ UNCHANGED <<lock, evidence, backoff, ghost>>
  <2>1. rec' \in RecType /\ rec'.step = "loading" /\ rec'.queue = rec.queue /\ ~rec'.mid
    BY <1>0, <1>6 DEF ResidencyTypes, RecType, PassSteps
  <2>2. "operator" \in R!Actors /\ "reconciler" \in R!Actors
    BY DEF R!Actors
  <2>3. load["reconciler"].step = "none" /\ load["operator"].step = "none"
    BY <1>0, <1>1 DEF TasksOwned
  <2>4. /\ load' \in [R!Actors -> [step : {"none", "asked", "begun", "fits", "running"}, m : Places]]
        /\ load'["reconciler"].step = "asked" /\ load'["reconciler"].m = m
        /\ \A b \in R!Actors \ {"reconciler"} : load'[b] = load[b]
    <3>1. load' = [load EXCEPT !["reconciler"] = [step |-> "asked", m |-> m]] /\ m \in Places
      BY <1>2, <1>6 DEF R!LoadTask, Places
    <3> HIDE DEF m
    <3> QED BY <1>0, <2>2, <3>1 DEF ResidencyTypes
  <2>5. ResidencyTypes' /\ WasteCounted' /\ EvidenceSeen' /\ R!TwiceAbsent' /\ R!TransientOwned'
    <3>1. /\ lock' \in R!Actors \cup {"free"}
          /\ unld' \in [R!Actors -> [step : {"none", "begun", "running"}, m : Places]]
      BY <1>0, <1>1, <1>6 DEF ResidencyTypes
    <3>2. \A b \in R!Actors : /\ load[b].step # "none" => load'[b] = load[b]
                              /\ unld[b].step # "none" => unld'[b] = unld[b]
      BY <1>1, <2>3, <2>4
    <3> QED BY <1>1, <1>6, <2>1, <2>4, <3>1, <3>2, PassGoesOn
  <2>6. TasksOwned'
    <3>1. load'["operator"] = load["operator"]
      BY <2>2, <2>4
    <3>2. \A b \in R!Actors : load'[b].step # "none" => load'[b].m \in Models
      <4>1. \A b \in R!Actors : load[b].step # "none" => load[b].m \in Models
        BY <1>0 DEF TasksOwned
      <4> QED BY <1>2, <2>4, <4>1
    <3>3. /\ rec'.step = "loading" /\ lock' = "reconciler" /\ load'["reconciler"].m = Head(rec'.queue)
          /\ rec'.queue # <<>>
      BY <1>0, <1>1, <1>6, <2>1, <2>4 DEF TasksOwned
    <3> QED BY <1>0, <1>1, <2>3, <2>4, <3>1, <3>2, <3>3 DEF TasksOwned, OnModel
  <2>7. WithdrawalStands'
    BY <2>1 DEF WithdrawalStands, R!WithdrawnGoes
  <2> QED BY <2>5, <2>6, <2>7 DEF ResidencyInv
<1> QED BY <1>3, <1>4, <1>5, <1>6 DEF R!RestoreOne

\* The intent is read again: what was withdrawn under the load is released.
LEMMA RestoredKeeps ==
  ASSUME R!ResidencyAssumption, ResidencyInv, R!Restored
  PROVE  ResidencyInv'
<1> DEFINE m == Head(rec.queue)
<1>0. ResidencyTypes /\ TasksOwned /\ WithdrawalStands
  BY DEF ResidencyInv
<1>1. /\ rec.step = "after" /\ rec.queue # <<>> /\ lock = "reconciler"
      /\ UNCHANGED <<row, disk, resident, load, pull, probe>>
  BY <1>0 DEF R!Restored, TasksOwned, OnModel
<1>2. rec.queue \in Seq(Models) /\ m \in Models
  <2>1. rec.queue \in Seq(Models)
    BY <1>0 DEF ResidencyTypes
  <2> QED BY <1>1, <2>1
<1>3. CASE row[m].desired /\ rec' = [rec EXCEPT !.step = "look"] /\ UNCHANGED <<unld, lock, evidence, backoff, ghost>>
  <2>1. rec' \in RecType /\ rec'.step = "look" /\ rec'.queue = rec.queue /\ rec'.mid = rec.mid
    BY <1>0, <1>3 DEF ResidencyTypes, RecType, PassSteps
  <2>2. ResidencyTypes' /\ WasteCounted' /\ EvidenceSeen' /\ R!TwiceAbsent' /\ R!TransientOwned'
    <3>1. /\ lock' \in R!Actors \cup {"free"}
          /\ load' \in [R!Actors -> [step : {"none", "asked", "begun", "fits", "running"}, m : Places]]
          /\ unld' \in [R!Actors -> [step : {"none", "begun", "running"}, m : Places]]
      BY <1>0, <1>1, <1>3 DEF ResidencyTypes
    <3> QED BY <1>1, <1>3, <2>1, <3>1, PassGoesOn
  <2>3. TasksOwned'
    BY <1>0, <1>1, <1>3, <2>1 DEF TasksOwned, OnModel
  <2>4. WithdrawalStands'
    <3>1. ~rec.mid
      BY <1>0, <1>1, <1>3 DEF WithdrawalStands
    <3> QED BY <2>1, <3>1 DEF WithdrawalStands, R!WithdrawnGoes
  <2> QED BY <2>2, <2>3, <2>4 DEF ResidencyInv
<1>4. CASE /\ R!UnloadTask("reconciler", "begun", m)
           /\ rec' = [rec EXCEPT !.step = "releasing"] /\ UNCHANGED <<lock, evidence, backoff, ghost>>
  <2>1. rec' \in RecType /\ rec'.step = "releasing" /\ rec'.queue = rec.queue
    BY <1>0, <1>4 DEF ResidencyTypes, RecType, PassSteps
  <2>2. "operator" \in R!Actors /\ "reconciler" \in R!Actors
    BY DEF R!Actors
  <2>3. unld["reconciler"].step = "none" /\ load["reconciler"].step = "none"
    BY <1>0, <1>1 DEF TasksOwned
  <2>4. /\ unld' \in [R!Actors -> [step : {"none", "begun", "running"}, m : Places]]
        /\ unld'["reconciler"].step = "begun" /\ unld'["reconciler"].m = m
        /\ \A b \in R!Actors \ {"reconciler"} : unld'[b] = unld[b]
    <3>1. unld' = [unld EXCEPT !["reconciler"] = [step |-> "begun", m |-> m]] /\ m \in Places
      BY <1>2, <1>4 DEF R!UnloadTask, Places
    <3> HIDE DEF m
    <3> QED BY <1>0, <2>2, <3>1 DEF ResidencyTypes
  <2>5. ResidencyTypes' /\ WasteCounted' /\ EvidenceSeen' /\ R!TwiceAbsent' /\ R!TransientOwned'
    <3>1. /\ lock' \in R!Actors \cup {"free"}
          /\ load' \in [R!Actors -> [step : {"none", "asked", "begun", "fits", "running"}, m : Places]]
      BY <1>0, <1>1, <1>4 DEF ResidencyTypes
    <3>2. \A b \in R!Actors : /\ load[b].step # "none" => load'[b] = load[b]
                              /\ unld[b].step # "none" => unld'[b] = unld[b]
      BY <1>1, <2>3, <2>4
    <3> QED BY <1>1, <1>4, <2>1, <2>4, <3>1, <3>2, PassGoesOn
  <2>6. TasksOwned'
    <3>1. \A b \in R!Actors : unld'[b].step # "none" => unld'[b].m \in Models
      <4>1. \A b \in R!Actors : unld[b].step # "none" => unld[b].m \in Models
        BY <1>0 DEF TasksOwned
      <4> QED BY <1>2, <2>4, <4>1
    <3>2. /\ rec'.step = "releasing" /\ lock' = "reconciler" /\ unld'["reconciler"].m = Head(rec'.queue)
          /\ rec'.queue # <<>>
      BY <1>1, <1>4, <2>1, <2>4
    <3> QED BY <1>0, <1>1, <2>3, <2>4, <3>1, <3>2 DEF TasksOwned, OnModel
  <2>7. WithdrawalStands'
    BY <2>1 DEF WithdrawalStands, R!WithdrawnGoes
  <2> QED BY <2>5, <2>6, <2>7 DEF ResidencyInv
<1>5. CASE R!Fail(rec, {}) /\ UNCHANGED unld
  BY <1>1, <1>5, PassFails
<1> QED BY <1>3, <1>4, <1>5 DEF R!Restored

\* The end of a round: the pass is done, goes round again, or fails.
LEMMA RoundEndsKeeps ==
  ASSUME R!ResidencyAssumption, ResidencyInv, R!RoundEnds
  PROVE  ResidencyInv'
<1> DEFINE missing == {m \in Models : R!restorable(row[m]) /\ ~R!observed_resident(row[m])}
           q == R!restore_order(missing)
<1>0. ResidencyTypes /\ TasksOwned
  BY DEF ResidencyInv
<1>1. rec.step = "next" /\ UNCHANGED <<row, disk, resident, load, unld, pull, probe>>
  BY DEF R!RoundEnds
<1>2. CASE backoff' = R!NoBackoff /\ R!Ended /\ ghost' = [ghost EXCEPT !.fruitless = 0] /\ UNCHANGED evidence
  BY <1>1, <1>2, PassEnds DEF R!Ended
<1>3. CASE rec' = [rec EXCEPT !.queue = q, !.round = rec.round + 1] /\ UNCHANGED <<lock, evidence, backoff, ghost>>
  <2>1. q \in Seq(Models) /\ rec.round + 1 \in Nat
    <3>1. missing \in SUBSET Models
      OBVIOUS
    <3> HIDE DEF missing
    <3> QED BY <1>0, <3>1, OrderHoldsTheSet DEF ResidencyTypes
  <2> HIDE DEF q
  <2>2. rec' \in RecType /\ rec'.step = "next"
    BY <1>0, <1>1, <1>3, <2>1 DEF ResidencyTypes, RecType
  <2>3. ResidencyTypes' /\ WasteCounted' /\ EvidenceSeen' /\ R!TwiceAbsent' /\ R!TransientOwned'
    <3>1. /\ lock' \in R!Actors \cup {"free"}
          /\ load' \in [R!Actors -> [step : {"none", "asked", "begun", "fits", "running"}, m : Places]]
          /\ unld' \in [R!Actors -> [step : {"none", "begun", "running"}, m : Places]]
      BY <1>0, <1>1, <1>3 DEF ResidencyTypes
    <3> QED BY <1>1, <1>3, <2>2, <3>1, PassGoesOn
  <2>4. TasksOwned'
    BY <1>0, <1>1, <1>3, <2>2 DEF TasksOwned, OnModel
  <2>5. WithdrawalStands'
    BY <2>2 DEF WithdrawalStands, R!WithdrawnGoes
  <2> QED BY <2>3, <2>4, <2>5 DEF ResidencyInv
<1>4. CASE R!Fail(rec, {})
  BY <1>1, <1>4, PassFails
<1> QED BY <1>2, <1>3, <1>4 DEF R!RoundEnds

\* Nothing is wasted by a backoff that starts anew.
LEMMA FreshBackoff ==
  R!NoBackoff \in [waiting : BOOLEAN, wasted : Nat, gaveUp : BOOLEAN]
  /\ ~R!NoBackoff.waiting /\ ~R!NoBackoff.gaveUp /\ R!NoBackoff.wasted = 0
BY DEF R!NoBackoff

\* The evidence of a model as a look at the row leaves it.
LEMMA Recorded ==
  ASSUME ResidencyTypes, EvidenceSeen, NEW x \in Models
  PROVE  /\ R!Record(x) \in [n : 0..2, same : BOOLEAN, near : BOOLEAN]
         /\ R!Forget(x) \in [n : 0..2, same : BOOLEAN, near : BOOLEAN]
         /\ R!Forget(x).n = 0 /\ ~R!Forget(x).same
         /\ R!Record(x).n <= ghost.absent[x]
         /\ R!Record(x).n = 0 => ~R!Record(x).same
         /\ row[x].obs = "downloaded" /\ ~R!Record(x).same => R!Record(x).n = 0 /\ ghost.absent[x] >= 1
<1> DEFINE e == evidence[x]
<1>1. e \in [n : 0..2, same : BOOLEAN, near : BOOLEAN] /\ ghost.absent[x] \in 0..2
  BY DEF ResidencyTypes
<1>2. /\ e.n <= ghost.absent[x]
      /\ e.n = 0 => ~e.same
      /\ row[x].obs = "downloaded" /\ ~e.same => ghost.absent[x] >= 1
      /\ row[x].obs = "downloaded" /\ ~e.same /\ e.n > 0 => ghost.absent[x] = 2
  BY DEF EvidenceSeen
<1>3. /\ R!Forget(x) \in [n : 0..2, same : BOOLEAN, near : BOOLEAN]
      /\ R!Forget(x).n = 0 /\ ~R!Forget(x).same
  BY <1>1 DEF R!Forget
<1>4. row[x].obs = "downloaded" => ghost.absent[x] >= 1
  <2>1. CASE e.same
    <3>1. e.n # 0
      BY <1>2, <2>1
    <3>2. e.n \in 0..2
      BY <1>1
    <3> QED BY <1>1, <1>2, <3>1, <3>2
  <2> QED BY <1>2, <2>1
<1>5. CASE ~R!observed_absent(row[x])
  <2>1. R!Record(x) = R!Forget(x)
    BY <1>5 DEF R!Record
  <2>2. R!Forget(x).n <= ghost.absent[x]
    BY <1>1, <1>3
  <2> QED BY <1>3, <1>4, <2>1, <2>2
<1>6. CASE R!observed_absent(row[x]) /\ e.n > 0 /\ e.same
  <2>1. R!Record(x) = e
    BY <1>6 DEF R!Record
  <2> QED BY <1>1, <1>2, <1>3, <1>6, <2>1
<1>7. CASE R!observed_absent(row[x]) /\ ~(e.n > 0 /\ e.same)
  <2> DEFINE c == IF e.n > 0 /\ e.near THEN 2 ELSE 1
  <2>1. R!Record(x) = [n |-> c, same |-> TRUE, near |-> e.near]
    BY <1>7 DEF R!Record
  <2>2. c \in {1, 2} /\ c <= ghost.absent[x]
    <3>1. row[x].obs = "downloaded"
      BY <1>7 DEF R!observed_absent
    <3>2. e.n > 0 => ghost.absent[x] = 2
      BY <1>2, <1>7, <3>1
    <3> QED BY <1>1, <1>4, <3>1, <3>2
  <2> HIDE DEF c
  <2>3. R!Record(x) \in [n : 0..2, same : BOOLEAN, near : BOOLEAN]
        /\ R!Record(x).n = c /\ R!Record(x).same
    BY <1>1, <2>1, <2>2
  <2> QED BY <1>3, <2>2, <2>3
<1> QED BY <1>5, <1>6, <1>7

\* The look that decides whether a pass is due.
LEMMA ReconcileKeeps ==
  ASSUME R!ResidencyAssumption, ResidencyInv, R!Reconcile
  PROVE  ResidencyInv'
<1> DEFINE looked == [x \in Models |-> IF row[x].desired THEN R!Record(x) ELSE R!Forget(x)]
           due == {x \in R!Desired : looked[x].n >= 2 /\ row[x].state \notin R!TRANSIENT_STATES}
           away == [x \in Models |-> IF row[x].desired THEN ghost.absent[x] ELSE
                                       IF row[x].obs = "downloaded" THEN 1 ELSE 0]
<1>0. ResidencyTypes /\ TasksOwned /\ WasteCounted /\ EvidenceSeen
  BY DEF ResidencyInv
<1>1. /\ rec.step = "idle" /\ UNCHANGED <<row, disk, resident, load, unld, pull, probe, lock>>
      /\ \/ backoff' = R!NoBackoff /\ ghost' = [ghost EXCEPT !.absent = away, !.fruitless = 0]
         \/ backoff' = backoff /\ ghost' = [ghost EXCEPT !.absent = away, !.fruitless = ghost.fruitless]
      /\ \/ (backoff'.gaveUp \/ backoff'.waiting) /\ UNCHANGED <<evidence, rec>>
         \/ /\ ~(backoff'.gaveUp \/ backoff'.waiting) /\ evidence' = looked
            /\ rec' = R!NoPass \/ rec' = [R!NoPass EXCEPT !.step = "lock", !.queue = R!restore_order(due)]
  BY DEF R!Reconcile
<1>2. away \in [Models -> 0..2]
  <2>1. \A x \in Models : ghost.absent[x] \in 0..2
    BY <1>0 DEF ResidencyTypes
  <2> QED BY <2>1
<1>3. \A x \in Models : /\ row[x].desired => away[x] = ghost.absent[x]
                        /\ ~row[x].desired => away[x] = IF row[x].obs = "downloaded" THEN 1 ELSE 0
  OBVIOUS
<1>4. R!restore_order(due) \in Seq(Models) /\ \A i \in DOMAIN R!restore_order(due) : R!restore_order(due)[i] \in due
  <2>1. due \in SUBSET Models
    BY DEF R!Desired
  <2> HIDE DEF due
  <2> QED BY <2>1, OrderHoldsTheSet
<1>5. \A x \in due : x \in Models /\ looked[x].n >= 2
  BY DEF R!Desired
<1> HIDE DEF due, away
<1>6. /\ backoff' \in [waiting : BOOLEAN, wasted : Nat, gaveUp : BOOLEAN]
      /\ ghost' \in [absent : [Models -> 0..2], fruitless : Nat, stranded : SUBSET Models]
      /\ ghost'.absent = away /\ ghost'.stranded = ghost.stranded
  <2>1. backoff' \in [waiting : BOOLEAN, wasted : Nat, gaveUp : BOOLEAN]
    <3>1. backoff \in [waiting : BOOLEAN, wasted : Nat, gaveUp : BOOLEAN]
      BY <1>0 DEF ResidencyTypes
    <3>2. backoff' = backoff \/ backoff' = R!NoBackoff
      BY <1>1
    <3> QED BY <3>1, <3>2, FreshBackoff
  <2>2. PICK f \in {0, ghost.fruitless} : ghost' = [ghost EXCEPT !.absent = away, !.fruitless = f]
    BY <1>1
  <2>3. f \in Nat
    BY <1>0, <2>2 DEF ResidencyTypes
  <2> QED BY <1>0, <1>2, <2>1, <2>2, <2>3 DEF ResidencyTypes
<1>7. \A x \in Models : /\ looked[x] \in [n : 0..2, same : BOOLEAN, near : BOOLEAN]
                        /\ looked[x].n <= away[x]
                        /\ looked[x].n = 0 => ~looked[x].same
                        /\ row[x].obs = "downloaded" /\ ~looked[x].same => looked[x].n = 0 /\ away[x] >= 1
  <2> SUFFICES ASSUME NEW x \in Models
               PROVE  /\ looked[x] \in [n : 0..2, same : BOOLEAN, near : BOOLEAN]
                      /\ looked[x].n <= away[x]
                      /\ looked[x].n = 0 => ~looked[x].same
                      /\ row[x].obs = "downloaded" /\ ~looked[x].same => looked[x].n = 0 /\ away[x] >= 1
    OBVIOUS
  <2>1. CASE row[x].desired
    <3>1. looked[x] = R!Record(x)
      BY <2>1
    <3> HIDE DEF looked
    <3> QED BY <1>0, <1>3, <2>1, <3>1, Recorded
  <2>2. CASE ~row[x].desired
    <3>1. looked[x] = R!Forget(x)
      BY <2>2
    <3> HIDE DEF looked
    <3>2. looked[x] \in [n : 0..2, same : BOOLEAN, near : BOOLEAN] /\ looked[x].n = 0 /\ ~looked[x].same
      BY <1>0, <3>1, Recorded
    <3>3. away[x] = IF row[x].obs = "downloaded" THEN 1 ELSE 0
      BY <1>3, <2>2
    <3> QED BY <3>2, <3>3
  <2> QED BY <2>1, <2>2
<1>8. CASE (backoff'.gaveUp \/ backoff'.waiting) /\ UNCHANGED <<evidence, rec>>
  <2>1. backoff' = backoff /\ ghost' = [ghost EXCEPT !.absent = away, !.fruitless = ghost.fruitless]
    BY <1>1, <1>8, FreshBackoff
  <2>2. ghost'.fruitless = ghost.fruitless
    BY <1>0, <2>1 DEF ResidencyTypes
  <2>3. \A x \in Models : evidence[x].n = 0 /\ ~evidence[x].same
    BY <1>0, <1>8, <2>1 DEF WasteCounted, EvidenceSeen
  <2>4. ResidencyTypes'
    BY <1>0, <1>1, <1>6, <1>8 DEF ResidencyTypes
  <2>5. TasksOwned'
    BY <1>0, <1>1, <1>8 DEF TasksOwned
  <2>6. WasteCounted'
    BY <1>0, <1>8, <2>1, <2>2 DEF WasteCounted
  <2>7. EvidenceSeen'
    <3> SUFFICES ASSUME NEW x \in Models
                 PROVE  evidence[x].n <= away[x] /\ (row[x].obs = "downloaded" => away[x] >= 1)
      BY <1>1, <1>6, <1>8, <2>3 DEF EvidenceSeen
    <3>1. /\ row[x].obs = "downloaded" => ghost.absent[x] >= 1
          /\ ghost.absent[x] \in 0..2
      BY <1>0, <2>3 DEF EvidenceSeen, ResidencyTypes
    <3> QED BY <1>3, <2>3, <3>1
  <2>8. R!TwiceAbsent' /\ WithdrawalStands'
    BY <1>1, <1>8 DEF R!TwiceAbsent, WithdrawalStands, R!WithdrawnGoes
  <2>9. R!TransientOwned'
    BY <1>1, <1>6, OwnersStay DEF ResidencyInv
  <2> QED BY <2>4, <2>5, <2>6, <2>7, <2>8, <2>9 DEF ResidencyInv
<1>9. CASE /\ ~(backoff'.gaveUp \/ backoff'.waiting) /\ evidence' = looked
           /\ rec' = R!NoPass \/ rec' = [R!NoPass EXCEPT !.step = "lock", !.queue = R!restore_order(due)]
  <2>1. evidence' \in [Models -> [n : 0..2, same : BOOLEAN, near : BOOLEAN]]
        /\ \A x \in Models : evidence'[x] = looked[x]
    BY <1>7, <1>9
  <2>2. /\ rec' \in RecType /\ rec'.step \in {"idle", "lock"} /\ ~rec'.restored
        /\ rec'.step = "lock" => rec'.queue = R!restore_order(due)
    <3> DEFINE t == R!restore_order(due)
    <3>1. t \in Seq(Models) /\ <<>> \in Seq(Models)
      BY <1>4
    <3>2. rec' = R!NoPass \/ rec' = [R!NoPass EXCEPT !.step = "lock", !.queue = t]
      BY <1>9
    <3> HIDE DEF t
    <3>3. R!NoPass = [step |-> "idle", queue |-> <<>>, round |-> 0, restored |-> FALSE, mid |-> FALSE]
      BY DEF R!NoPass
    <3>4. CASE rec' = R!NoPass
      BY <3>1, <3>3, <3>4 DEF RecType, PassSteps
    <3>5. CASE rec' = [R!NoPass EXCEPT !.step = "lock", !.queue = t]
      <4>1. rec' = [step |-> "lock", queue |-> t, round |-> 0, restored |-> FALSE, mid |-> FALSE]
        BY <3>3, <3>5
      <4> QED BY <3>1, <4>1 DEF RecType, PassSteps, t
    <3> QED BY <3>2, <3>4, <3>5
  <2> HIDE DEF looked
  <2>3. ResidencyTypes'
    BY <1>0, <1>1, <1>6, <2>1, <2>2 DEF ResidencyTypes, RecType
  <2>4. TasksOwned'
    BY <1>0, <1>1, <2>2 DEF TasksOwned, OnModel
  <2>5. WasteCounted'
    <3>1. CASE backoff' = R!NoBackoff /\ ghost' = [ghost EXCEPT !.absent = away, !.fruitless = 0]
      <4>1. ghost'.fruitless = 0
        BY <1>0, <3>1 DEF ResidencyTypes
      <4>2. GiveUpAfter \in Nat /\ GiveUpAfter > 0
        BY DEF R!ResidencyAssumption
      <4> QED BY <2>2, <3>1, <4>1, <4>2, FreshBackoff DEF WasteCounted
    <3>2. CASE backoff' = backoff /\ ghost' = [ghost EXCEPT !.absent = away, !.fruitless = ghost.fruitless]
      <4>1. ghost'.fruitless = ghost.fruitless
        BY <1>0, <3>2 DEF ResidencyTypes
      <4> QED BY <1>0, <1>9, <2>2, <3>2, <4>1 DEF WasteCounted
    <3> QED BY <1>1, <3>1, <3>2
  <2>6. EvidenceSeen'
    <3> SUFFICES ASSUME NEW x \in Models
                 PROVE  /\ evidence'[x].n <= ghost'.absent[x]
                        /\ evidence'[x].n = 0 => ~evidence'[x].same
                        /\ row'[x].obs = "downloaded" /\ ~evidence'[x].same => ghost'.absent[x] >= 1
                        /\ row'[x].obs = "downloaded" /\ ~evidence'[x].same /\ evidence'[x].n > 0
                              => ghost'.absent[x] = 2
      BY DEF EvidenceSeen
    <3> QED BY <1>1, <1>6, <1>7, <2>1
  <2>7. R!TwiceAbsent'
    <3> SUFFICES ASSUME rec'.step = "lock", NEW i \in DOMAIN rec'.queue
                 PROVE  ghost'.absent[rec'.queue[i]] >= 2
      BY DEF R!TwiceAbsent
    <3>1. rec'.queue[i] \in due
      BY <1>4, <2>2
    <3> DEFINE x == rec'.queue[i]
    <3>2. x \in Models /\ looked[x].n >= 2 /\ looked[x].n <= away[x]
      BY <1>5, <1>7, <3>1
    <3>3. looked[x].n \in 0..2 /\ away[x] \in 0..2
      BY <1>2, <1>7, <3>2
    <3> HIDE DEF x
    <3>4. away[x] >= 2
      BY <3>2, <3>3
    <3> QED BY <1>6, <3>4 DEF x
  <2>8. WithdrawalStands'
    BY <2>2 DEF WithdrawalStands, R!WithdrawnGoes
  <2>9. R!TransientOwned'
    BY <1>1, <1>6, OwnersStay DEF ResidencyInv
  <2> QED BY <2>3, <2>4, <2>5, <2>6, <2>7, <2>8, <2>9 DEF ResidencyInv
<1> QED BY <1>1, <1>8, <1>9

\* The process dies with its tasks; the rows may be reconciled as it starts again.
LEMMA CrashKeeps ==
  ASSUME R!ResidencyAssumption, ResidencyInv, NEW reconciled \in BOOLEAN, R!Crash(reconciled)
  PROVE  ResidencyInv'
<1> DEFINE away == [x \in Models |-> IF row[x].obs = "downloaded" THEN 1 ELSE 0]
           left == {x \in Models : row'[x].state \in R!TRANSIENT_STATES}
           ended(s) == CASE s \in {"downloading", "loading"} -> "error" [] s = "unloading" -> "loaded"
                         [] OTHER -> s
<1>0. ResidencyTypes /\ TasksOwned
  BY DEF ResidencyInv
<1>1. /\ load' = [a \in R!Actors |-> R!NoTask] /\ unld' = [a \in R!Actors |-> R!NoTask]
      /\ pull' = [i \in {1, 2} |-> R!NoTask]
      /\ probe' = [p \in R!Probers |-> [probe[p] EXCEPT !.left = {}]]
      /\ lock' = "free" /\ rec' = R!NoPass
      /\ evidence' = [x \in Models |-> R!Forget(x)]
      /\ backoff' = R!NoBackoff
      /\ ghost' = [ghost EXCEPT !.fruitless = 0, !.stranded = left, !.absent = away]
      /\ UNCHANGED disk
  BY DEF R!Crash
<1>2. row' = row \/ row' = [x \in Models |-> [row[x] EXCEPT !.state = ended(row[x].state)]]
  BY DEF R!Crash
<1>3. /\ row' \in [Models -> ModelRow]
      /\ \A x \in Models : /\ row'[x].fresh => row'[x].obs # "none"
                           /\ row'[x].obs = row[x].obs
  <2>1. row \in [Models -> ModelRow] /\ \A x \in Models : row[x].fresh => row[x].obs # "none"
    BY <1>0 DEF ResidencyTypes
  <2>2. \A s \in R!States : ended(s) \in R!States
    BY DEF R!States
  <2> HIDE DEF ended
  <2>3. \A r \in ModelRow : /\ [r EXCEPT !.state = ended(r.state)] \in ModelRow
                            /\ [r EXCEPT !.state = ended(r.state)].obs = r.obs
                            /\ [r EXCEPT !.state = ended(r.state)].fresh = r.fresh
    BY <2>2 DEF ModelRow
  <2>4. \A x \in Models : row[x] \in ModelRow
    BY <2>1
  <2>5. CASE row' = row
    BY <2>1, <2>5
  <2>6. CASE row' = [x \in Models |-> [row[x] EXCEPT !.state = ended(row[x].state)]]
    <3>1. \A x \in Models : row'[x] = [row[x] EXCEPT !.state = ended(row[x].state)]
      BY <2>6
    <3>2. \A x \in Models : row'[x] \in ModelRow /\ row'[x].obs = row[x].obs /\ row'[x].fresh = row[x].fresh
      BY <2>3, <2>4, <3>1
    <3>3. row' = [x \in Models |-> row'[x]]
      BY <2>6
    <3> QED BY <2>1, <3>2, <3>3
  <2> QED BY <1>2, <2>5, <2>6
<1>4. resident' \in SUBSET Models
  <2>1. resident \in SUBSET Models
    BY <1>0 DEF ResidencyTypes
  <2>2. resident' = resident \/ \E a \in R!Actors : load[a].step = "running" /\ resident' = resident \cup {load[a].m}
    BY DEF R!Crash
  <2>3. \A a \in R!Actors : load[a].step = "running" => load[a].m \in Models
    BY <1>0 DEF TasksOwned
  <2> QED BY <2>1, <2>2, <2>3
<1>5. /\ load' \in [R!Actors -> [step : {"none", "asked", "begun", "fits", "running"}, m : Places]]
      /\ unld' \in [R!Actors -> [step : {"none", "begun", "running"}, m : Places]]
      /\ pull' \in [{1, 2} -> [step : {"none", "claim", "running"}, m : Places]]
      /\ \A a \in R!Actors : load'[a].step = "none" /\ unld'[a].step = "none"
      /\ \A i \in {1, 2} : pull'[i].step = "none"
  BY <1>1 DEF R!NoTask, Places
<1>6. /\ probe' \in [R!Probers -> [left : SUBSET Models, holds : SUBSET Models, found : SUBSET Models,
                                 answered : BOOLEAN]]
      /\ \A p \in R!Probers : probe'[p].left = {}
  <2> DEFINE Box == [left : SUBSET Models, holds : SUBSET Models, found : SUBSET Models, answered : BOOLEAN]
  <2>1. \A p \in R!Probers : probe[p] \in Box
    BY <1>0 DEF ResidencyTypes
  <2>2. \A b \in Box : [b EXCEPT !.left = {}] \in Box /\ [b EXCEPT !.left = {}].left = {}
    OBVIOUS
  <2> HIDE DEF Box
  <2>3. \A p \in R!Probers : probe'[p] \in Box /\ probe'[p].left = {}
    BY <1>1, <2>1, <2>2
  <2>4. probe' = [p \in R!Probers |-> probe'[p]]
    BY <1>1
  <2>5. probe' \in [R!Probers -> Box]
    BY <2>3, <2>4
  <2> QED BY <2>3, <2>5 DEF Box
<1>7. rec' \in RecType /\ rec'.step = "idle" /\ ~rec'.restored
  <2>1. <<>> \in Seq(Models)
    OBVIOUS
  <2> QED BY <1>1, <2>1 DEF R!NoPass, PassSteps, RecType
<1>8. /\ evidence' \in [Models -> [n : 0..2, same : BOOLEAN, near : BOOLEAN]]
      /\ \A x \in Models : evidence'[x].n = 0 /\ ~evidence'[x].same
  <2>1. \A x \in Models : /\ R!Forget(x) \in [n : 0..2, same : BOOLEAN, near : BOOLEAN]
                          /\ R!Forget(x).n = 0 /\ ~R!Forget(x).same
    BY Recorded DEF ResidencyInv
  <2> QED BY <1>1, <2>1
<1>9. /\ ghost' \in [absent : [Models -> 0..2], fruitless : Nat, stranded : SUBSET Models]
      /\ ghost'.absent = away /\ ghost'.fruitless = 0 /\ ghost'.stranded = left
  <2>1. away \in [Models -> 0..2] /\ left \in SUBSET Models
    OBVIOUS
  <2> HIDE DEF away, left
  <2> QED BY <1>0, <1>1, <2>1 DEF ResidencyTypes
<1>10. ResidencyTypes'
  <2>1. lock' \in R!Actors \cup {"free"}
    BY <1>1
  <2>2. disk' \in SUBSET Models
    BY <1>0, <1>1 DEF ResidencyTypes
  <2>3. backoff' \in [waiting : BOOLEAN, wasted : Nat, gaveUp : BOOLEAN]
    BY <1>1, FreshBackoff
  <2> QED BY <1>3, <1>4, <1>5, <1>6, <1>7, <1>8, <1>9, <2>1, <2>2, <2>3 DEF ResidencyTypes, RecType
<1>11. TasksOwned'
  BY <1>1, <1>5, <1>6, <1>7 DEF TasksOwned, OnModel, R!Actors, R!Probers
<1>12. WasteCounted'
  <2>1. GiveUpAfter \in Nat /\ GiveUpAfter > 0
    BY DEF R!ResidencyAssumption
  <2>2. backoff'.wasted = 0 /\ ~backoff'.gaveUp /\ ~backoff'.waiting
    BY <1>1, FreshBackoff
  <2>3. ghost'.fruitless = 0
    BY <1>9
  <2> QED BY <1>7, <2>1, <2>2, <2>3 DEF WasteCounted
<1>13. EvidenceSeen'
  <2> SUFFICES ASSUME NEW x \in Models
               PROVE  0 <= away[x] /\ (row'[x].obs = "downloaded" => away[x] >= 1)
    BY <1>8, <1>9 DEF EvidenceSeen
  <2> QED BY <1>3
<1>14. R!TwiceAbsent' /\ WithdrawalStands'
  BY <1>7 DEF R!TwiceAbsent, WithdrawalStands, R!WithdrawnGoes
<1>15. R!TransientOwned'
  BY <1>9, OwnersStay DEF ResidencyInv
<1> QED BY <1>10, <1>11, <1>12, <1>13, <1>14, <1>15 DEF ResidencyInv

\* Every step keeps the invariant.
LEMMA ResidencyStep ==
  ASSUME R!ResidencyAssumption, ResidencyInv, [R!Next]_R!vars
  PROVE  ResidencyInv'
<1>1. CASE UNCHANGED R!vars
  BY <1>1 DEF R!vars, ResidencyInv, ResidencyTypes, TasksOwned, WasteCounted, EvidenceSeen, R!TwiceAbsent,
              WithdrawalStands, R!WithdrawnGoes, R!TransientOwned
<1>2. ASSUME NEW m \in Models, R!OperatorLoad(m) \/ R!OperatorUnload(m) PROVE ResidencyInv'
  <2>1. 1 \in {1, 2}
    OBVIOUS
  <2> QED BY <1>2, <2>1, RequestsKeep
<1>3. ASSUME NEW m \in Models, NEW i \in {1, 2}, R!DownloadStart(i, m) PROVE ResidencyInv'
  BY <1>3, RequestsKeep
<1>4. ASSUME NEW m \in Models, NEW d \in BOOLEAN, R!SetDesiredResidency(m, d) PROVE ResidencyInv'
  BY <1>4, WishKeeps
<1>5. ASSUME NEW m \in Models, R!GoesStale(m) PROVE ResidencyInv'
  BY <1>5, StaleKeeps
<1>6. ASSUME NEW i \in {1, 2}, R!Downloading(i) PROVE ResidencyInv'
  BY <1>6, DownloadsKeep DEF R!Downloading
<1>7. ASSUME NEW a \in R!Actors, R!Loading(a) \/ R!Unloading(a) PROVE ResidencyInv'
  BY <1>7, LoadReadKeeps, LoadBudgetKeeps, LoadCommitKeeps, LoadAnswersKeep, UnloadCommitKeeps,
     UnloadReturnsKeeps DEF R!Loading, R!Unloading
<1>8. ASSUME NEW p \in R!Probers, R!Probing(p) PROVE ResidencyInv'
  BY <1>8, ProbeAskKeeps, ProbeWriteKeeps DEF R!Probing
<1>9. CASE R!Loop
  BY <1>9, ReconcileKeeps, TakeNodeKeeps, RestoreOneKeeps, RestoredKeeps, RoundEndsKeeps DEF R!Loop
<1>10. ASSUME NEW f \in {"hold", "blocked", "online"}, R!BackoffExpires \/ R!RuntimeRestarts \/ R!NodeChanges(f)
       PROVE  ResidencyInv'
  BY <1>10, AroundKeeps
<1>11. ASSUME NEW reconciled \in BOOLEAN, R!Crash(reconciled) PROVE ResidencyInv'
  BY <1>11, CrashKeeps
<1>12. "hold" \in {"hold", "blocked", "online"}
  OBVIOUS
<1> QED BY <1>1, <1>2, <1>3, <1>4, <1>5, <1>6, <1>7, <1>8, <1>9, <1>10, <1>11, <1>12 DEF R!Next

\* The node's registry is never but what its tasks, its lock and the pass account for.
LEMMA ResidencyHolds ==
  ASSUME R!ResidencyAssumption
  PROVE  R!Spec => []ResidencyInv
<1>1. R!Init => ResidencyInv
  BY ResidencyStarts
<1>2. ResidencyInv /\ [R!Next]_R!vars => ResidencyInv'
  BY ResidencyStep
<1> QED BY <1>1, <1>2, PTL DEF R!Spec

\* Registry, tasks, lock and pass keep their shape (TypeOK), for any models, sizes,
\* requests and faults.
THEOREM ResidencyTypeCorrect ==
  ASSUME R!ResidencyAssumption
  PROVE  R!Spec => []R!TypeOK
<1>1. ResidencyInv => R!TypeOK
  <2> SUFFICES ASSUME ResidencyInv PROVE R!TypeOK
    OBVIOUS
  <2>0. ResidencyTypes /\ TasksOwned
    BY DEF ResidencyInv
  <2>1. \A m \in Models : /\ row[m].state \in R!States /\ row[m].obs \in R!Observations
                          /\ row[m].fresh => row[m].obs # "none"
    BY <2>0 DEF ResidencyTypes, ModelRow
  <2>2. \A m \in Models : evidence[m].n \in 0..2
    BY <2>0 DEF ResidencyTypes
  <2>3. /\ disk \subseteq Models /\ resident \subseteq Models
        /\ \A a \in R!Actors : {load[a].m, unld[a].m} \subseteq Models \cup {0}
        /\ lock \in R!Actors \cup {"free"}
    BY <2>0 DEF ResidencyTypes, Places
  <2>4. rec.step \in {"idle", "lock", "next", "loading", "after", "releasing", "look", "looking"}
    BY <2>0 DEF ResidencyTypes, PassSteps
  <2> QED BY <2>0, <2>1, <2>2, <2>3, <2>4 DEF R!TypeOK, TasksOwned
<1> QED BY <1>1, ResidencyHolds, PTL

\* A wish withdrawn while the reconciler loads is honoured by the same pass: before it looks
\* at the node again the fresh weights are gone (_restore_one reads the intent after the load).
THEOREM WithdrawnIsUnloaded ==
  ASSUME R!ResidencyAssumption
  PROVE  R!Spec => []R!WithdrawnGoes
<1>1. ResidencyInv => R!WithdrawnGoes
  BY DEF ResidencyInv, WithdrawalStands
<1> QED BY <1>1, ResidencyHolds, PTL

\* A pass restores only what two different answers of the runtime said was absent.
THEOREM RestoredOnEvidence ==
  ASSUME R!ResidencyAssumption
  PROVE  R!Spec => []R!TwiceAbsent
<1>1. ResidencyInv => R!TwiceAbsent
  BY DEF ResidencyInv
<1> QED BY <1>1, ResidencyHolds, PTL

\* Passes that load weights and still fail stop at GIVE_UP_AFTER_WASTED_PASSES.
THEOREM WasteIsBounded ==
  ASSUME R!ResidencyAssumption
  PROVE  R!Spec => []R!GivesUp
<1>1. ResidencyInv => R!GivesUp
  <2> SUFFICES ASSUME ResidencyInv PROVE R!GivesUp
    OBVIOUS
  <2>1. ghost.fruitless <= backoff.wasted /\ backoff.wasted <= GiveUpAfter
    BY DEF ResidencyInv, WasteCounted
  <2>2. ghost.fruitless \in Nat /\ backoff.wasted \in Nat /\ GiveUpAfter \in Nat
    BY DEF ResidencyInv, ResidencyTypes, R!ResidencyAssumption
  <2> QED BY <2>1, <2>2 DEF R!GivesUp
<1> QED BY <1>1, ResidencyHolds, PTL

\* A transient state always has the task that will end it, unless the process died under it or
\* the database refused the write that was to end it (_load, _unload and DownloadModel.run).
THEOREM TransientHasItsTask ==
  ASSUME R!ResidencyAssumption
  PROVE  R!Spec => []R!TransientOwned
<1>1. ResidencyInv => R!TransientOwned
  BY DEF ResidencyInv
<1> QED BY <1>1, ResidencyHolds, PTL
=============================================================================
