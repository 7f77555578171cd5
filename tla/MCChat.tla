------------------------------- MODULE MCChat -------------------------------
(***************************************************************************)
(* A request at the layers in front of a handler, a chat request from its   *)
(* arrival to its generation, and the answer from the runtime to the        *)
(* client: Edge, ChatAdmission and ChatStream.  Each ends where the next    *)
(* begins; a behaviour is one of an instance of one of them.                *)
(***************************************************************************)
EXTENDS Integers, FiniteSets, TLC

CONSTANTS None, r1, r2, c1

VARIABLES
    part,  \* the instance a behaviour is one of
    \* ChatStream
    via, made, rt, attempt, op, sender, conn, wire, dec, gen, con, out, client,
    \* Edge
    now, until, asked, req, ctx, sent, gauge, refusals, audits, ran,
    \* ChatAdmission (with req)
    len, waiting, cache, summary, servable_now, turns, paid

all == <<part, via, made, rt, attempt, op, sender, conn, wire, dec, gen, con, out, client,
        now, until, asked, req, ctx, sent, gauge, refusals, audits, ran, len, waiting,
        cache, summary, servable_now, turns, paid>>

\* Requests play the same part.
Symmetry == Permutations({r1, r2})

Message(c, i, kind, tokens, est) ==
    [id |-> <<c, i>>, kind |-> kind, lines |-> <<<<c, i>>>>, tokens |-> tokens, est |-> est,
     floor |-> 1, bytes |-> tokens]

\* user, call and result, in turn; the estimate is the count
Plain(c, n) == [i \in 1..n |-> IF i % 4 = 2 THEN Message(c, i, "tool", 3, 3)
                              ELSE Message(c, i, "user", 2, 2)]

\* three times as many tokens as the characters suggest, the densest measured
Dense(c, n) == [i \in 1..n |-> Message(c, i, IF i % 2 = 0 THEN "tool" ELSE "user", 3, 1)]

\* denser still: outside what the estimate's bound covers
Denser(c, n) == [i \in 1..n |-> Message(c, i, "user", 6, 1)]

Tool(name, tokens) == [name |-> name, tokens |-> tokens, est |-> tokens, floor |-> 0, bytes |-> tokens]

ThreeTools == <<Tool("search", 1), Tool("read", 2), Tool("search", 2)>>
OneTool == <<Tool("read", 1)>>

Mixed == [c \in {"a", "b"} |-> IF c = "a" THEN Plain("a", 6) ELSE Dense("b", 4)]

\* Two of one shape whose first three messages read the same line for line: a second line that
\* the first speaker wrote, or the second.
Twins == [c \in {"a", "b"} |->
            LET first == IF c = "a" THEN <<"one", "two">> ELSE <<"one">>
                second == IF c = "a" THEN <<"three">> ELSE <<"two", "three">>
            IN <<[Message(c, 1, "user", 5, 5) EXCEPT !.lines = first],
                 [Message(c, 2, "tool", 3, 3) EXCEPT !.lines = second],
                 [Message(c, 3, "user", 2, 2) EXCEPT !.lines = <<"four">>],
                 Message(c, 4, "user", 2, 2)>>]
Long == [c \in {"a"} |-> Plain("a", 10)]
Undercounted == [c \in {"a"} |-> Denser("a", 4)]

Changes == {"target", "capacity", "validated", "cache"}

\* A request that passes every layer, and the ones that differ from it in one
\* or two respects.
Clean(entrance) ==
    [entrance |-> entrance, path |-> "users", method |-> "POST", origin |-> "proxy",
     user |-> "ann", forged |-> None, cookie |-> "own", header |-> "own", declared |-> 1,
     body |-> <<1>>, outcome |-> "ok"]

RequestShapes ==
    UNION {
        {[Clean(e) EXCEPT !.outcome = o] :
            o \in {"ok", "reduced", "conflict", "denied", "crash", "malformed"}}
        \cup {[Clean(e) EXCEPT !.origin = o, !.path = p] :
            o \in {"abroad", "direct"}, p \in {"users", "healthz", "readyz"}}
        \cup {[Clean(e) EXCEPT !.user = u[1], !.forged = u[2]] :
            u \in {<<"bob", None>>, <<"ann", "bob">>, <<"bob", "ann">>, <<None, "ann">>, <<None, None>>}}
        \cup {[Clean(e) EXCEPT !.cookie = c[1], !.header = c[2], !.method = c[3]] :
            c \in {<<"", "", "GET">>, <<"", "own", "POST">>, <<"own", "", "POST">>,
                   <<"own", "planted", "POST">>, <<"planted", "planted", "POST">>}}
        \cup {[Clean(e) EXCEPT !.declared = d[1], !.body = d[2]] :
            d \in {<<3, <<>>>>, <<None, <<1, 2>>>>, <<-1, <<2>>>>, <<1, <<1, 2, 1>>>>, <<2, <<1, 1>>>>}}
      : e \in {"public", "tailnet", "gateway"}}

Agent == INSTANCE ChatStream WITH MaxChunks <- 3, EventBuffer <- 2, WireSize <- 2,
    Ceiling <- 5, DrainLimit <- 2, Vias <- {"agent"}, Consumers <- {"chat", "responses"}
Direct == INSTANCE ChatStream WITH MaxChunks <- 3, EventBuffer <- 1, WireSize <- 2,
    Ceiling <- 5, DrainLimit <- 2, Vias <- {"ollama", "mlx"},
    Consumers <- {"chat", "responses", "collect_chat", "collect_responses"}
Cut == INSTANCE ChatStream WITH MaxChunks <- 4, EventBuffer <- 2, WireSize <- 1,
    Ceiling <- 1, DrainLimit <- 2, Vias <- {"agent", "ollama", "mlx"},
    Consumers <- {"chat", "responses"}
Doors == INSTANCE Edge WITH Connections <- {c1}, Users <- {"ann", "bob"},
    Disabled <- {"bob"}, MaxBytes <- 2, Shapes <- RequestShapes, MaxRequests <- 2,
    MaxNow <- 1
Fits == INSTANCE ChatAdmission WITH Requests <- {r1, r2}, Script <- Mixed,
    Tools <- ThreeTools, Runtimes <- {"ollama", "mlx"}, Window <- 24, Registered <- 30,
    Output <- 2, MaxContext <- 20, MaxPayload <- 60,
    Slots <- 1, QueueWait <- TRUE, RECENT_MESSAGE_WINDOW <- 2, KEEP_RECENT <- 1,
    PREFIX_STEP <- 4, SummarySize <- 1, Tolerance <- 2, Exact <- {TRUE, FALSE},
    Disturbed <- Changes, MaxTurns <- 4
Cached == INSTANCE ChatAdmission WITH Requests <- {r1, r2}, Script <- Twins,
    Tools <- OneTool, Runtimes <- {"ollama"}, Window <- 14, Registered <- 14,
    Output <- 2, MaxContext <- 20, MaxPayload <- 60,
    Slots <- 1, QueueWait <- TRUE, RECENT_MESSAGE_WINDOW <- 2, KEEP_RECENT <- 1,
    PREFIX_STEP <- 1, SummarySize <- 1, Tolerance <- 2, Exact <- {TRUE},
    Disturbed <- {"target", "cache"}, MaxTurns <- 4
Growing == INSTANCE ChatAdmission WITH Requests <- {r1}, Script <- Long,
    Tools <- ThreeTools, Runtimes <- {"ollama"}, Window <- 24, Registered <- 24,
    Output <- 2, MaxContext <- 20, MaxPayload <- 60,
    Slots <- 1, QueueWait <- TRUE, RECENT_MESSAGE_WINDOW <- 2, KEEP_RECENT <- 1,
    PREFIX_STEP <- 4, SummarySize <- 1, Tolerance <- 2, Exact <- {TRUE},
    Disturbed <- {"target", "validated"}, MaxTurns <- 8
Truncated == INSTANCE ChatAdmission WITH Requests <- {r1}, Script <- Undercounted,
    Tools <- OneTool, Runtimes <- {"ollama", "mlx"}, Window <- 24, Registered <- 24,
    Output <- 2, MaxContext <- 30, MaxPayload <- 60,
    Slots <- 1, QueueWait <- TRUE, RECENT_MESSAGE_WINDOW <- 2, KEEP_RECENT <- 1,
    PREFIX_STEP <- 4, SummarySize <- 1, Tolerance <- 2, Exact <- {TRUE, FALSE},
    Disturbed <- Changes, MaxTurns <- 4

ASSUME Doors!EdgeAssumption
ASSUME Agent!BoundsAreUsable /\ Direct!BoundsAreUsable /\ Cut!BoundsAreUsable
ASSUME Fits!ChatAdmissionAssumption /\ Cached!ChatAdmissionAssumption
ASSUME Growing!ChatAdmissionAssumption /\ Truncated!ChatAdmissionAssumption

\* A component outside the part has no state, and nothing of it moves.
BesideChatStream == <<now, until, asked, req, ctx, sent, gauge, refusals, audits, ran, len,
        waiting, cache, summary, servable_now, turns, paid>>
OnlyChatStream ==
    /\ now = "none" /\ until = "none" /\ asked = "none" /\ req = "none" /\ ctx = "none"
    /\ sent = "none" /\ gauge = "none" /\ refusals = "none" /\ audits = "none"
    /\ ran = "none" /\ len = "none" /\ waiting = "none" /\ cache = "none"
    /\ summary = "none" /\ servable_now = "none" /\ turns = "none" /\ paid = "none"
BesideEdge == <<via, made, rt, attempt, op, sender, conn, wire, dec, gen, con, out, client,
        len, waiting, cache, summary, servable_now, turns, paid>>
OnlyEdge ==
    /\ via = "none" /\ made = "none" /\ rt = "none" /\ attempt = "none" /\ op = "none"
    /\ sender = "none" /\ conn = "none" /\ wire = "none" /\ dec = "none" /\ gen = "none"
    /\ con = "none" /\ out = "none" /\ client = "none" /\ len = "none" /\ waiting = "none"
    /\ cache = "none" /\ summary = "none" /\ servable_now = "none" /\ turns = "none"
    /\ paid = "none"
BesideChatAdmission == <<via, made, rt, attempt, op, sender, conn, wire, dec, gen, con,
        out, client, now, until, asked, ctx, sent, gauge, refusals, audits, ran>>
OnlyChatAdmission ==
    /\ via = "none" /\ made = "none" /\ rt = "none" /\ attempt = "none" /\ op = "none"
    /\ sender = "none" /\ conn = "none" /\ wire = "none" /\ dec = "none" /\ gen = "none"
    /\ con = "none" /\ out = "none" /\ client = "none" /\ now = "none" /\ until = "none"
    /\ asked = "none" /\ ctx = "none" /\ sent = "none" /\ gauge = "none"
    /\ refusals = "none" /\ audits = "none" /\ ran = "none"

Init ==
    \/ part = "agent" /\ Agent!Init /\ OnlyChatStream
    \/ part = "direct" /\ Direct!Init /\ OnlyChatStream
    \/ part = "ceiling" /\ Cut!Init /\ OnlyChatStream
    \/ part = "edge" /\ Doors!Init /\ OnlyEdge
    \/ part = "fits" /\ Fits!Init /\ OnlyChatAdmission
    \/ part = "cache" /\ Cached!Init /\ OnlyChatAdmission
    \/ part = "growing" /\ Growing!Init /\ OnlyChatAdmission
    \/ part = "truncated" /\ Truncated!Init /\ OnlyChatAdmission

Next ==
    \/ part = "agent" /\ Agent!Next /\ UNCHANGED <<part, BesideChatStream>>
    \/ part = "direct" /\ Direct!Next /\ UNCHANGED <<part, BesideChatStream>>
    \/ part = "ceiling" /\ Cut!Next /\ UNCHANGED <<part, BesideChatStream>>
    \/ part = "edge" /\ Doors!Next /\ UNCHANGED <<part, BesideEdge>>
    \/ part = "fits" /\ Fits!Next /\ UNCHANGED <<part, BesideChatAdmission>>
    \/ part = "cache" /\ Cached!Next /\ UNCHANGED <<part, BesideChatAdmission>>
    \/ part = "growing" /\ Growing!Next /\ UNCHANGED <<part, BesideChatAdmission>>
    \/ part = "truncated" /\ Truncated!Next /\ UNCHANGED <<part, BesideChatAdmission>>

Spec == Init /\ [][Next]_all

\* A client told that its answer is whole has all of it, in order and once, and
\* is told so once, and only such an answer is recorded as delivered:
\* WholeMeansEverything, OneFinish, CallsAnnounced, ItemsInOrder and DeliveryIsTrue
\* of ChatStream, through an agent, from either runtime and past the token
\* ceiling, where PromptCounted is asked too.  Before that, one answer per
\* request, about that request alone; no handler runs on what a layer should have
\* refused; a refusal is kept as it was told: OneAnswer, AnswersOwnRequest,
\* HandlersGuarded and RefusalsAreAnswers of Edge.
AnswerWhole ==
    /\ part = "edge" => Doors!TypeOK /\ Doors!EdgeHonest
    /\ part = "agent" => /\ Agent!WholeMeansEverything /\ Agent!OneFinish
                         /\ Agent!CallsAnnounced /\ Agent!ItemsInOrder /\ Agent!DeliveryIsTrue
    /\ part = "direct" => /\ Direct!WholeMeansEverything /\ Direct!OneFinish
                          /\ Direct!CallsAnnounced /\ Direct!ItemsInOrder /\ Direct!DeliveryIsTrue
    /\ part = "ceiling" => /\ Cut!TypeOK /\ Cut!WholeMeansEverything /\ Cut!OneFinish
                           /\ Cut!CallsAnnounced /\ Cut!ItemsInOrder /\ Cut!DeliveryIsTrue
                           /\ Cut!PromptCounted

\* What reaches the runtime is read to its end, is what the caller agreed to, and
\* the recent messages go out as they were written: EvaluatesWhole,
\* CompactionDisclosed and RecentVerbatim of ChatAdmission; where a count can be
\* wrong, TruncationNoticed.
PromptHonest ==
    /\ part = "fits" => /\ Fits!TypeOK /\ Fits!EvaluatesWhole
                        /\ Fits!CompactionDisclosed /\ Fits!RecentVerbatim
    /\ part = "truncated" => Truncated!TruncationNoticed

\* A summary stands for its own conversation's prefix, is paid for once per step
\* of it, and waits in a slot like any other request: SummaryOfOwn,
\* SummariesBounded and SlotsBounded of ChatAdmission.
SummariesHonest ==
    /\ part = "cache" => Cached!SummaryOfOwn /\ Cached!SlotsBounded
    /\ part = "growing" => Growing!SummariesBounded
==============================================================================
