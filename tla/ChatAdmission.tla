----------------------------- MODULE ChatAdmission -----------------------------
(***************************************************************************)
(* What happens to a chat request between its arrival and its generation:  *)
(* authorisation, the floor check, the concurrency slot, routing, counting *)
(* the prompt, compaction in three tiers with its cache, and the guard     *)
(* that refuses what the target would truncate; and, after the answer, the *)
(* judgement of what the runtime says it read.                             *)
(*                                                                         *)
(* A message is an identity with four measures, the tokens the runtime     *)
(* will charge, the character estimate, the lower bound and its bytes, and *)
(* the lines its text comes to where prefixes are hashed.  A client        *)
(* replays its conversation whole and adds two messages a turn.            *)
(***************************************************************************)
EXTENDS Integers, Sequences, FiniteSets, FiniteSetsExt, SequencesExt

CONSTANTS
    Requests,           \* requests that may be under way at once
    Script,             \* conversation -> the messages of its whole course
    Tools,              \* the tool definitions every turn sends
    Runtimes,           \* the kinds of runtime a target may be served by: "ollama", "mlx"
    Window, Output,     \* effective context window and output reserve
    Registered,         \* the registration's context length, at least the window
    MaxContext,         \* max_context_tokens
    MaxPayload,         \* compaction_payload_bytes
    Slots,              \* concurrency limit
    QueueWait,          \* whether a wait for a slot is bounded
    RECENT_MESSAGE_WINDOW, KEEP_RECENT, PREFIX_STEP,
    SummarySize,        \* tokens of a summary
    Tolerance,          \* WIDENED_TOLERANCE
    Exact,              \* whether a shape may have a vocabulary's count, an estimate, or either
    Disturbed,          \* what changes under a request: "target", "capacity", "validated", "cache"
    MaxTurns            \* bound on the turns taken

Conversations == DOMAIN Script

ChatAdmissionAssumption ==
    /\ IsFiniteSet(Requests) /\ Slots \in Nat \ {0} /\ QueueWait \in BOOLEAN
    /\ Runtimes \subseteq {"ollama", "mlx"} /\ Runtimes # {}
    /\ Registered \in Nat /\ Registered >= Window
    /\ {Window, Output, MaxContext, MaxPayload, SummarySize, Tolerance, MaxTurns} \subseteq Nat
    /\ Exact \in SUBSET BOOLEAN /\ Exact # {}
    /\ {RECENT_MESSAGE_WINDOW, KEEP_RECENT, PREFIX_STEP} \subseteq Nat \ {0}
    /\ \A c \in Conversations : \A i \in DOMAIN Script[c] :
          Script[c][i].floor <= Script[c][i].tokens

VARIABLES
    len,        \* conversation -> messages of its last completed turn
    req,        \* the requests
    waiting,    \* the semaphore's queue, oldest first
    cache,      \* compacted prefixes remembered
    summary,    \* the node agent's one summary slot
    servable_now, \* whether routing finds a target, its node declares the weights' context,
                  \* and the profile is validated
    turns,      \* turns taken (bound)
    paid        \* history: summaries that rescued a turn

vars == <<len, req, waiting, cache, summary, servable_now, turns, paid>>

Idle == [step |-> "idle", conv |-> CHOOSE c \in Conversations : TRUE, enabled |-> FALSE, msgs |-> <<>>,
         tools |-> Tools, asked |-> <<>>, runtime |-> "none", counted |-> 0, basis |-> "none", limit |-> 0,
         tier |-> -1, told |-> -1, widened |-> FALSE, verdict |-> [cut |-> 0, said |-> "none"]]

InSlot == {"routing", "counting", "tiers", "cache", "summary", "recount", "guard", "generating"}

Init ==
    /\ len = [c \in Conversations |-> 0]
    /\ req = [r \in Requests |-> Idle]
    /\ waiting = <<>>
    /\ cache = {}
    /\ summary = "free"
    /\ servable_now = [target |-> TRUE, capacity |-> TRUE, validated |-> FALSE]
    /\ turns = 0
    /\ paid = [c \in Conversations |-> 0]

----------------------------------------------------------------------------
(* Counting *)

Measure(parts, f(_)) == FoldLeft(LAMBDA n, part : n + f(part), 0, parts)

TrueTokens(m, t) == Measure(m, LAMBDA x : x.tokens) + Measure(t, LAMBDA x : x.tokens)
_estimated_prompt_tokens(m, t) == Measure(m, LAMBDA x : x.est) + Measure(t, LAMBDA x : x.est)
_floor_prompt_tokens(m, t) == Measure(m, LAMBDA x : x.floor) + Measure(t, LAMBDA x : x.floor)
payload_exceeds(m, t) == Measure(m, LAMBDA x : x.bytes) + Measure(t, LAMBDA x : x.bytes) > MaxPayload

\* _count_prompt: the vocabulary's count when there is one for this shape
_count_prompt(m, t, exact) ==
    IF exact THEN <<TrueTokens(m, t), "tokenizer">> ELSE <<_estimated_prompt_tokens(m, t), "estimate">>

servable(widened) == IF widened THEN Window - 1 - Output ELSE Min({Window \div 2, Window - 1 - Output})

\* _widened_window: the node's fresh runtime version and this shape match a validated profile
_widened_window == servable_now.validated

\* _effective_window: what the node declares, or no proof of capacity
_effective_window == IF servable_now.capacity THEN Window ELSE 0

\* _prompt_budget: limit, the count judged, and whether a validated profile widened it.  Only
\* Ollama reads half a window, and only its half is widened by a profile.
_prompt_budget(counted, basis, runtime) ==
    LET legacy == servable(runtime # "ollama") IN
    IF basis # "tokenizer" THEN <<legacy \div 3, counted, FALSE>>
    ELSE IF counted > legacy /\ runtime = "ollama" /\ _widened_window
         THEN <<servable(TRUE), counted, TRUE>>
    ELSE <<legacy, counted, FALSE>>

----------------------------------------------------------------------------
(* Compaction *)

\* tier 0: the last definition of each name, its description cut
_compact_tool_definitions(t) ==
    LET last == {i \in DOMAIN t : \A j \in DOMAIN t : t[j].name = t[i].name => j <= i}
        kept == SetToSortSeq(last, <)
    IN [k \in DOMAIN kept |-> [t[kept[k]] EXCEPT !.tokens = Min({@, 1}), !.est = Min({@, 1})]]

Marker(x) == [x EXCEPT !.kind = "marker", !.lines = <<"marker">>, !.tokens = 1, !.est = 1, !.bytes = 1]

\* tier 1: old tool results, outside the recent window, replaced by a marker
_compact_tool_results(m) ==
    LET n == Max({Len(m) - RECENT_MESSAGE_WINDOW, 0})
        cutoff == (n \div RECENT_MESSAGE_WINDOW) * RECENT_MESSAGE_WINDOW
    IN [i \in DOMAIN m |-> IF i <= cutoff /\ m[i].kind = "tool" /\ m[i].tokens > 1
                           THEN Marker(m[i]) ELSE m[i]]

\* try_compact: the tiers in order, each only if it changed something, the first that fits
try_compact(m, t, limit, exact) ==
    LET t0 == _compact_tool_definitions(t)
        m1 == _compact_tool_results(m)
    IN IF t0 # t /\ _count_prompt(m, t0, exact)[1] <= limit THEN [tier |-> 0, msgs |-> m, tools |-> t0]
       ELSE IF m1 # m /\ _count_prompt(m1, t0, exact)[1] <= limit
            THEN [tier |-> 1, msgs |-> m1, tools |-> t0]
       ELSE [tier |-> -1, msgs |-> m, tools |-> t]

\* where tier 2's prefix ends: a multiple of the step, counted from the beginning
Prefix(n) == IF n <= KEEP_RECENT THEN 0 ELSE ((n - KEEP_RECENT) \div PREFIX_STEP) * PREFIX_STEP

Summary(m) == [id |-> <<"summary", m[Len(m)].id[1], Len(m)>>, kind |-> "summary", of |-> m,
               lines |-> <<"summary">>,
               tokens |-> SummarySize, est |-> SummarySize, floor |-> SummarySize, bytes |-> SummarySize]

\* A message's text holds its own line breaks, and nothing marks where a message ends.
Lines(m) == FlattenSeq([i \in DOMAIN m |-> m[i].lines])

\* Mutant: the key covers who spoke, not what was said
HashRoles(m, t) == <<[i \in DOMAIN m |-> m[i].kind], [i \in DOMAIN t |-> t[i].name]>>

\* _hash_prefix: what a remembered prefix is found by: the lines of its messages run together,
\* and each tool's name and description (here its name)
_hash_prefix(m, t) == <<Lines(m), [i \in DOMAIN t |-> t[i].name]>>

WithSummary(m, s) == <<s>> \o SubSeq(m, Prefix(Len(m)) + 1, Len(m))

----------------------------------------------------------------------------
(* The request *)

Step(r, s) == req' = [req EXCEPT ![r].step = s]

\* any refusal: the slot, if one was held, is given back
Refused(r) == req' = [req EXCEPT ![r].step = "refused"]

\* execute as far as the slot: authorisation happened, the floor and the bytes judge
Arrive(r, c, enabled) ==
    LET m == SubSeq(Script[c], 1, len[c] + 2)
        asked == [Idle EXCEPT !.conv = c, !.enabled = enabled, !.msgs = m, !.asked = m]
    IN
    /\ req[r].step = "idle" /\ turns < MaxTurns
    /\ len[c] + 2 <= Len(Script[c])
    /\ \A o \in Requests \ {r} : req[o].step # "idle" => req[o].conv # c
    /\ turns' = turns + 1
    /\ IF \/ enabled /\ payload_exceeds(m, Tools)
          \/ ~enabled /\ _floor_prompt_tokens(m, Tools) > MaxContext
       THEN req' = [req EXCEPT ![r] = [asked EXCEPT !.step = "refused"]] /\ UNCHANGED waiting
       ELSE /\ req' = [req EXCEPT ![r] = [asked EXCEPT !.step = "queued"]]
            /\ waiting' = Append(waiting, r)
    /\ UNCHANGED <<len, cache, summary, servable_now, paid>>

\* slot: the oldest waiter takes a free one
Slot(r) ==
    /\ waiting # <<>> /\ r = Head(waiting)
    /\ Cardinality({o \in Requests : req[o].step \in InSlot}) < Slots
    /\ waiting' = Tail(waiting)
    /\ Step(r, "routing")
    /\ UNCHANGED <<len, cache, summary, servable_now, turns, paid>>

\* no slot freed within queue_wait_seconds: 503
QueueTimeout(r) ==
    /\ QueueWait /\ req[r].step = "queued"
    /\ waiting' = SelectSeq(waiting, LAMBDA o : o # r)
    /\ Refused(r)
    /\ UNCHANGED <<len, cache, summary, servable_now, turns, paid>>

\* select: some candidate of the policy is not rejected
select == servable_now.target

\* policy, select and runtime_for: a target and its runtime, or no available model
Route(r) ==
    /\ req[r].step = "routing"
    /\ IF select
       THEN \E kind \in Runtimes :
                req' = [req EXCEPT ![r].step = "counting", ![r].runtime = kind]
       ELSE Refused(r)
    /\ UNCHANGED <<len, waiting, cache, summary, servable_now, turns, paid>>

\* the first count, the compaction budget and the choice between guard, tiers and refusal; a
\* budget whose capacity is unresolved refuses
Count(r, exact) ==
    LET q == req[r]
        c == _count_prompt(q.msgs, q.tools, exact)
        b == _prompt_budget(c[1], c[2], q.runtime)
        limit == IF q.enabled THEN Min({MaxContext, b[1]}) ELSE MaxContext
        counted == IF q.enabled THEN Max({c[1], b[2]}) ELSE c[1]
    IN
    /\ q.step = "counting"
    /\ req' = [req EXCEPT ![r].counted = counted, ![r].basis = c[2], ![r].limit = limit,
                          ![r].step = IF q.enabled /\ _effective_window = 0 THEN "refused"
                                      ELSE IF counted <= limit THEN "guard"
                                      ELSE IF q.enabled /\ limit > 0 THEN "tiers" ELSE "refused"]
    /\ UNCHANGED <<len, waiting, cache, summary, servable_now, turns, paid>>

\* tiers 0 and 1, and whether tier 2 has anything to summarise
Tiers(r, exact) ==
    LET q == req[r] got == try_compact(q.msgs, q.tools, q.limit, exact) IN
    /\ q.step = "tiers"
    /\ req' = [req EXCEPT ![r].step = IF got.tier >= 0 THEN "recount"
                                      ELSE IF Prefix(Len(q.msgs)) > 0 THEN "cache" ELSE "refused",
                          ![r].tier = got.tier, ![r].msgs = got.msgs, ![r].tools = got.tools]
    /\ UNCHANGED <<len, waiting, cache, summary, servable_now, turns, paid>>

\* try_tier2's cache: a hit serves if it fits, anything else goes on to a summary
CacheGet(r, exact) ==
    LET q == req[r]
        key == _hash_prefix(SubSeq(q.msgs, 1, Prefix(Len(q.msgs))), q.tools)
        hits == {e \in cache : e.key = key /\
                    _count_prompt(WithSummary(q.msgs, e.summary), q.tools, exact)[1] <= q.limit}
    IN
    /\ q.step = "cache"
    /\ \/ \E e \in hits : req' = [req EXCEPT ![r].step = "recount", ![r].tier = 2,
                                             ![r].msgs = WithSummary(q.msgs, e.summary)]
       \/ hits = {} /\ summary = "free" /\ Step(r, "summary")
       \/ hits = {} /\ summary # "free" /\ Refused(r)
    /\ summary' = IF req'[r].step = "summary" THEN r ELSE summary
    /\ UNCHANGED <<len, waiting, cache, servable_now, turns, paid>>

\* the summary returns: used and remembered when it is enough
Summarised(r, exact) ==
    LET q == req[r]
        prefix == SubSeq(q.msgs, 1, Prefix(Len(q.msgs)))
        key == _hash_prefix(prefix, q.tools)
        m == WithSummary(q.msgs, Summary(prefix))
        fits == _count_prompt(m, q.tools, exact)[1] <= q.limit
    IN
    /\ q.step = "summary"
    /\ summary' = "free"
    /\ IF fits
       THEN /\ req' = [req EXCEPT ![r].step = "recount", ![r].tier = 2, ![r].msgs = m]
            /\ cache' = {e \in cache : e.key # key} \cup {[key |-> key, summary |-> Summary(prefix)]}
            /\ paid' = [paid EXCEPT ![q.conv] = @ + 1]
       ELSE Refused(r) /\ UNCHANGED <<cache, paid>>
    /\ UNCHANGED <<len, waiting, servable_now, turns>>

\* the summary fails, is refused or outlives its wait; an abandoned one keeps the agent's slot
SummaryFails(r) ==
    /\ req[r].step = "summary"
    /\ Refused(r)
    /\ summary' \in {"free", "draining"}
    /\ UNCHANGED <<len, waiting, cache, servable_now, turns, paid>>

SummaryDrains ==
    /\ summary = "draining" /\ summary' = "free"
    /\ UNCHANGED <<len, req, waiting, cache, servable_now, turns, paid>>

\* the final shape is counted again, with whatever basis it has, and announced
\* Mutant: the compacted prompt is served without a word
RecountUnsaid(r, exact) ==
    LET c == _count_prompt(req[r].msgs, req[r].tools, exact) IN
    /\ req[r].step = "recount"
    /\ req' = [req EXCEPT ![r].counted = c[1], ![r].basis = c[2], ![r].step = "guard"]
    /\ UNCHANGED <<len, waiting, cache, summary, servable_now, turns, paid>>

Recount(r, exact) ==
    LET c == _count_prompt(req[r].msgs, req[r].tools, exact) IN
    /\ req[r].step = "recount"
    /\ req' = [req EXCEPT ![r].counted = c[1], ![r].basis = c[2], ![r].step = "guard",
                          ![r].told = req[r].tier]
    /\ UNCHANGED <<len, waiting, cache, summary, servable_now, turns, paid>>

\* the configured limit, then _refuse_what_this_target_would_truncate
Guard(r) ==
    LET q == req[r] b == _prompt_budget(q.counted, q.basis, q.runtime) IN
    /\ q.step = "guard"
    /\ IF q.counted <= MaxContext /\ _effective_window > 0 /\ b[2] <= b[1] /\ b[1] > 0
       THEN req' = [req EXCEPT ![r].step = "generating", ![r].counted = b[2], ![r].limit = b[1],
                               ![r].widened = b[3]]
       ELSE Refused(r)
    /\ UNCHANGED <<len, waiting, cache, summary, servable_now, turns, paid>>

\* What the runtime evaluates: all its window holds, or with Ollama half the window's worth
\* when it cuts
Evaluated(q, cuts) ==
    LET half == q.runtime = "ollama" /\ (cuts \/ ~q.widened)
    IN Min({TrueTokens(q.msgs, q.tools), IF half THEN Window \div 2 ELSE Window})

\* _log_estimate_drift: outside the band its basis was measured to have
_log_estimate_drift(evaluated, estimated, basis) ==
    IF estimated = 0 THEN "quiet"
    ELSE IF basis = "tokenizer"
         THEN IF estimated - evaluated \in -16..64 THEN "quiet" ELSE "drift"
         ELSE IF 10 * estimated >= 9 * evaluated /\ 20 * estimated <= 33 * evaluated THEN "quiet" ELSE "drift"

_judge_widened(evaluated, q) ==
    IF evaluated > q.counted THEN "undercounted"
    ELSE IF evaluated < q.counted - Tolerance THEN "truncated"
    ELSE _log_estimate_drift(evaluated, q.counted, q.basis)

\* _warn_if_prompt_was_truncated: half of what is registered, whatever the weights declare
_warn_if_prompt_was_truncated(evaluated, q) ==
    IF evaluated = 0 THEN "quiet"
    ELSE IF q.widened THEN _judge_widened(evaluated, q)
    ELSE IF evaluated >= Registered \div 2 THEN "truncated"
    ELSE _log_estimate_drift(evaluated, q.counted, q.basis)

\* the generation ends (ChatStream has its course) and the slot is given back
Generated(r, cuts) ==
    LET q == req[r] e == Evaluated(q, cuts) IN
    /\ q.step = "generating"
    /\ req' = [req EXCEPT ![r].step = "answered",
                          ![r].verdict = [cut |-> TrueTokens(q.msgs, q.tools) - e,
                                          said |-> _warn_if_prompt_was_truncated(e, q)]]
    /\ UNCHANGED <<len, waiting, cache, summary, servable_now, turns, paid>>

\* the client reads the answer, or the refusal, and may take its next turn
Next_Turn(r) ==
    /\ req[r].step \in {"answered", "refused"}
    /\ len' = [len EXCEPT ![req[r].conv] = IF req[r].step = "answered" THEN @ + 2 ELSE @]
    /\ req' = [req EXCEPT ![r] = Idle]
    /\ UNCHANGED <<waiting, cache, summary, servable_now, turns, paid>>

\* residency, node health, the node's metadata or the runtime's version changes under a request
TargetChanges(f) ==
    /\ f \in Disturbed
    /\ servable_now' = [servable_now EXCEPT ![f] = ~@]
    /\ UNCHANGED <<len, req, waiting, cache, summary, turns, paid>>

CacheExpires ==
    /\ "cache" \in Disturbed /\ \E e \in cache : cache' = cache \ {e}
    /\ UNCHANGED <<len, req, waiting, summary, servable_now, turns, paid>>

----------------------------------------------------------------------------

Counting(r) ==
    \E exact \in Exact :
        Count(r, exact) \/ Tiers(r, exact) \/ CacheGet(r, exact) \/ Recount(r, exact)

SummaryEnds(r) == SummaryFails(r) \/ \E exact \in Exact : Summarised(r, exact)

Generation(r) == \E cuts \in BOOLEAN : Generated(r, cuts)

Next ==
    \/ \E r \in Requests :
          \/ \E c \in Conversations, enabled \in BOOLEAN : Arrive(r, c, enabled)
          \/ Slot(r) \/ QueueTimeout(r) \/ Route(r) \/ Counting(r) \/ SummaryEnds(r)
          \/ Guard(r) \/ Generation(r) \/ Next_Turn(r)
    \/ SummaryDrains \/ CacheExpires
    \/ \E f \in {"target", "capacity", "validated"} : TargetChanges(f)

Spec == Init /\ [][Next]_vars

\* What a request does next on its own, at whichever step it is.
Serve(r) ==
    Slot(r) \/ Route(r) \/ Counting(r) \/ SummaryEnds(r) \/ Guard(r) \/ Generation(r)

----------------------------------------------------------------------------
(* Properties *)

\* Every variable has its type, and the semaphore's queue holds the queued requests, once.
TypeOK ==
    /\ \A c \in Conversations : len[c] \in 0..Len(Script[c]) /\ paid[c] \in 0..MaxTurns
    /\ \A r \in Requests :
          /\ req[r].step \in InSlot \cup {"idle", "queued", "refused", "answered"}
          /\ req[r].tier \in -1..2 /\ req[r].told \in -1..2
    /\ IsInjective(waiting)
    /\ ToSet(waiting) = {r \in Requests : req[r].step = "queued"}
    /\ summary \in Requests \cup {"free", "draining"}
    /\ turns \in 0..MaxTurns

\* A prompt that reaches the runtime is one the runtime reads to the end, with room left for
\* the answer: the guard judges the shape finally sent, on the basis that shape was counted
\* with, and only a real count and a validated profile, or a runtime other than Ollama, goes
\* past half the window (_prompt_budget and servable).
EvaluatesWhole ==
    \A r \in Requests : req[r].step = "generating" =>
        LET n == TrueTokens(req[r].msgs, req[r].tools) IN
        /\ n + Output < Window
        /\ req[r].runtime = "ollama" /\ ~req[r].widened => n <= Window \div 2

\* A prompt that differs from what was asked belongs to a caller who allowed compaction, and
\* the answer says which tier was used (compaction_tier of the response).
CompactionDisclosed ==
    \A r \in Requests :
        req[r].step = "generating" /\ (req[r].msgs # req[r].asked \/ req[r].tools # Tools) =>
            req[r].enabled /\ req[r].told = req[r].tier /\ req[r].tier >= 0

\* Whatever the tiers do, the recent messages go out as they were written, only old tool
\* results are abridged outside a summary, and no tool disappears.
RecentVerbatim ==
    \A r \in Requests : req[r].step = "generating" =>
        LET q == req[r]
            recent == IF q.tier = 2 THEN KEEP_RECENT ELSE RECENT_MESSAGE_WINDOW
            cut == Len(q.asked) - Len(q.msgs)
        IN /\ \A i \in DOMAIN q.msgs : q.msgs[i].kind # "summary" =>
                 \/ q.msgs[i] = q.asked[i + cut]
                 \/ i <= Len(q.msgs) - recent /\ q.asked[i + cut].kind = "tool"
           /\ {q.tools[i].name : i \in DOMAIN q.tools} = {Tools[i].name : i \in DOMAIN Tools}

\* The summary in front of a compacted conversation stands where its prefix stood, and sums up
\* that prefix: exactly the messages it replaces, or others that read the same line for line
\* and were summarised first, since the key tells messages apart by their lines alone
\* (_hash_prefix).
SummaryOfOwn ==
    \A r \in Requests : req[r].step = "generating" =>
        \A i \in DOMAIN req[r].msgs : req[r].msgs[i].kind = "summary" =>
            i = 1 /\ Lines(req[r].msgs[i].of) =
                Lines(SubSeq(req[r].asked, 1, Len(req[r].asked) - Len(req[r].msgs) + 1))

\* A conversation that keeps growing pays for a summary once per step of its prefix, not once
\* per turn: the prefix ends where it ended a turn ago, so the cache finds it.
SummariesBounded ==
    \A c \in Conversations : paid[c] <= (len[c] + 2) \div PREFIX_STEP

\* No more requests are between slot and answer than there are slots, whatever timed out in
\* the queue, was refused inside or is waiting for a summary.
SlotsBounded == Cardinality({r \in Requests : req[r].step \in InSlot}) <= Slots

\* When the runtime read less than was sent, the log says so: exactly without a widened
\* profile, beyond the tolerance with one.  Without a profile the log judges by the registered
\* window, so a registration above what the weights declare is excepted.
TruncationNoticed ==
    \A r \in Requests :
        LET v == req[r].verdict q == req[r] IN
        /\ q.step = "answered" /\ (q.widened \/ Registered = Window)
        /\ v.cut > (IF q.widened THEN Tolerance ELSE 0)
        => v.said \in {"truncated", "undercounted"}

\* What may not last: a request that waits for a slot or has one.
UnderWay(r) == req[r].step \in InSlot \cup {"queued"}

====
