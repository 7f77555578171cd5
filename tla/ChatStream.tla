----------------------------- MODULE ChatStream -----------------------------
(***************************************************************************)
(* One chat request's answer on its way to the client.  The runtime writes *)
(* lines; the node agent buffers them for a reader it never waits for      *)
(* (node_agent/dispatch.py, Attempt) and streams them (node_agent/api.py); *)
(* an adapter decodes them into chunks; the generation session applies the *)
(* token ceiling and the deadline and keeps the concurrency slot; one of   *)
(* four consumers turns chunks into what the client receives.  Everything  *)
(* from the adapter up is a chain of suspended generators that moves only  *)
(* when the client pulls, so one action reads one line and carries it all  *)
(* the way; the runtime, the agent and the client interleave with it.      *)
(***************************************************************************)
EXTENDS Integers, Sequences, SequencesExt

CONSTANTS
    MaxChunks,     \* bound: content lines the runtime writes
    EventBuffer,   \* EVENT_BUFFER of an attempt
    WireSize,      \* bound: lines a connection holds
    Ceiling,       \* the effective max_tokens
    DrainLimit,    \* _TERMINAL_EVENT_DRAIN_LIMIT
    Vias,          \* the runtimes a request may be routed to
    Consumers      \* the entrances a request may have come through

BoundsAreUsable ==
    /\ {MaxChunks, EventBuffer, WireSize, Ceiling, DrainLimit} \subseteq Nat \ {0}
    /\ Vias \subseteq {"agent", "ollama", "mlx"}
    /\ Consumers \subseteq {"chat", "responses", "collect_chat", "collect_responses"}

VARIABLES
    via,        \* the adapter that serves the request
    made,       \* the content lines the runtime has written, in order
    rt,         \* how the runtime stands, and what its done event said
    attempt,    \* Attempt: the event queue, delivery open, lost, ended
    op,         \* the operation's state in the agent's ledger
    sender,     \* the agent's response: "open" | "ended"
    conn,       \* the connection the adapter reads: "open" | "broken" | "closed"
    wire,       \* lines on that connection
    dec,        \* ChatStreamDecoder, or the MLX adapter's locals
    gen,        \* _generate's locals
    con,        \* the consumer
    out,        \* what the client has received
    client      \* "reading" | "gone"

runtimeVars == <<made, rt>>
agentVars == <<attempt, op, sender>>
vars == <<via, made, rt, attempt, op, sender, conn, wire, dec, gen, con, out, client>>

Direct == via # "agent"
Collects == con.kind \in {"collect_chat", "collect_responses"}

---------------------------------------------------------------------------
\* Lines, chunks and frames.

Line(type) == [type |-> type, n |-> 0, reason |-> "none", calls |-> <<>>, eval |-> 0]
Chunk(text, think, n, calls, finish, tokens, prompt) ==
    [text |-> text, think |-> think, n |-> n, calls |-> calls, finish |-> finish,
     tokens |-> tokens, prompt |-> prompt]
NoChunk == Chunk(FALSE, FALSE, 0, <<>>, "none", 0, FALSE)
Truncation == [NoChunk EXCEPT !.finish = "length"]
Frame(k, n, w) == [k |-> k, n |-> n, w |-> w]

MaxOf(a, b) == IF a > b THEN a ELSE b

---------------------------------------------------------------------------
\* node_agent/dispatch.py: the attempt's event queue.

Emit(a, event) ==
    IF ~a.open THEN [a EXCEPT !.lost = TRUE]
    ELSE IF Len(a.queue) < EventBuffer THEN [a EXCEPT !.queue = Append(@, event)]
    ELSE [a EXCEPT !.open = FALSE, !.lost = TRUE]

\* Mutant: a full queue is not emptied, so the end marker finds no room.
CloseKeepsFull(a) ==
    [a EXCEPT !.open = FALSE, !.closed = TRUE,
              !.queue = IF Len(@) >= EventBuffer THEN @ ELSE Append(@, Line("end"))]

Close(a) ==
    LET full == Len(a.queue) >= EventBuffer
    IN  [queue |-> (IF full THEN <<>> ELSE a.queue) \o <<Line("end")>>,
         open |-> FALSE, lost |-> a.lost \/ full, closed |-> TRUE]

---------------------------------------------------------------------------
\* The adapters: one line becomes nothing, a chunk, the end or an error.

Mapped(reason) == IF reason \in {"length", "tool_calls"} THEN reason ELSE "stop"

FinishReason(reason, called) ==
    IF called THEN (IF Mapped(reason) = "length" THEN "length" ELSE "tool_calls")
    ELSE IF Mapped(reason) = "tool_calls" THEN "stop" ELSE Mapped(reason)

Result(what, d, chunk) == [what |-> what, dec |-> d, chunk |-> chunk]

Decode(d, l) ==
    LET fresh == SelectSeq(l.calls, LAMBDA c : c \notin Range(d.calls))
        called == d.called \/ fresh # <<>>
    IN  IF l.type = "done"
        THEN Result("chunk", [d EXCEPT !.sawDone = TRUE, !.called = called],
                    Chunk(FALSE, FALSE, 0, fresh, FinishReason(l.reason, called),
                          MaxOf(l.eval - d.counted, 0), TRUE))
        ELSE Result("chunk",
                    [d EXCEPT !.counted = @ + 1, !.called = @ \/ l.calls # <<>>,
                              !.calls = @ \o l.calls],
                    Chunk(l.type = "text", l.type = "think", l.n, l.calls, "none", 1, FALSE))

Settle(d, state) == state = "completed" /\ d.sawDone

AgentRead(d, l) ==
    IF l.type \in {"accepted", "error"} THEN Result("skip", d, NoChunk)
    ELSE IF l.type = "terminal"
    THEN Result(IF Settle(d, l.reason) THEN "return" ELSE "raise", d, NoChunk)
    ELSE Decode(d, l)

OllamaRead(d, l) ==
    IF l.type \in {"error", "eof"} THEN Result("raise", d, NoChunk) ELSE Decode(d, l)

\* Calls come in fragments that are joined by index and go out whole, on the
\* terminal chunk; the finish reason is a line of its own before the end.
MlxRead(d, l) ==
    CASE l.type = "error" -> Result("raise", d, NoChunk)
      [] l.type = "returned" -> Result("return", d, NoChunk)
      [] l.type = "done"  -> Result("skip", [d EXCEPT !.sawDone = TRUE, !.reason = l.reason,
                                                      !.eval = l.eval], NoChunk)
      [] l.type = "call"  -> Result("skip", [d EXCEPT !.counted = @ + 1, !.calls = <<"c">>],
                                    NoChunk)
      [] l.type = "eof"   -> IF d.sawDone
                             THEN Result("last", d,
                                    Chunk(FALSE, FALSE, 0, d.calls,
                                          FinishReason(d.reason, d.calls # <<>>),
                                          MaxOf(d.eval - d.counted, 0), TRUE))
                             ELSE Result("raise", d, NoChunk)
      [] OTHER            -> Result("chunk", [d EXCEPT !.counted = @ + 1],
                                    Chunk(TRUE, FALSE, l.n, <<>>, "none", 1, FALSE))

Read(l) == CASE via = "agent"  -> AgentRead(dec, l)
             [] via = "ollama" -> OllamaRead(dec, l)
             [] via = "mlx"    -> MlxRead(dec, l)

---------------------------------------------------------------------------
\* generation_session.py: one chunk through the ceiling.

Observe(g, c) == [g EXCEPT !.prompt = @ \/ c.prompt, !.finished = @ \/ c.finish # "none"]

Through(g, c) ==
    LET o == Observe(g, c)
        forwarded == [o EXCEPT !.produced = @ + c.tokens,
                               !.forwarded = @ \/ c.finish # "none",
                               !.cut = IF o.produced + c.tokens >= Ceiling
                                       THEN "ceiling" ELSE @]
        billed == [o EXCEPT !.produced = @ + c.tokens]
        drained == [o EXCEPT !.drained = @ + 1]
    IN  IF g.cut = "none" THEN [gen |-> forwarded, yields |-> <<c>>, leave |-> FALSE]
        ELSE IF o.finished THEN [gen |-> billed, yields |-> <<>>, leave |-> TRUE]
        ELSE [gen |-> drained, yields |-> <<>>, leave |-> drained.drained >= DrainLimit]

\* Mutant: a truncated stream always gets a terminal chunk of its own.
TailAlways(g) == IF g.cut # "none" THEN <<Truncation>> ELSE <<>>

TerminalChunk(g) == IF g.cut # "none" /\ ~g.forwarded THEN <<Truncation>> ELSE <<>>

---------------------------------------------------------------------------
\* The consumers.

CallFrames(calls) == [i \in 1..Len(calls) |-> Frame("call", i, calls[i])]
If(cond, frames) == IF cond THEN frames ELSE <<>>

\* sse/frames.py, frames_for
ChatFrames(c, chunk) ==
    [con |-> c,
     frames |-> If(chunk.think, <<Frame("think", chunk.n, "")>>)
                \o If(chunk.text, <<Frame("text", chunk.n, "")>>)
                \o CallFrames(chunk.calls)
                \o If(chunk.finish # "none", <<Frame("finish", 0, chunk.finish)>>)]

CloseMessage(index, w) == <<Frame("item_done", index, w)>>

ResponsesCall(s, call) ==
    LET at == IF s.msg THEN s.index + 1 ELSE s.index
    IN  [s EXCEPT !.msg = FALSE, !.index = at + 1,
                  !.frames = @ \o If(s.msg, CloseMessage(s.index, "completed"))
                               \o <<Frame("item_added", at, "call"), Frame("call", at, call),
                                    Frame("item_done", at, "completed")>>]

\* responses_sse/events.py, consume
ResponsesFrames(c, chunk) ==
    LET told == [msg |-> c.msg \/ chunk.text, index |-> c.index,
                 frames |-> If(chunk.text /\ ~c.msg,
                               <<Frame("item_added", c.index, "message")>>)
                            \o If(chunk.text, <<Frame("text", chunk.n, "")>>)]
        s == FoldLeft(ResponsesCall, told, chunk.calls)
    IN  [con |-> [c EXCEPT !.msg = s.msg, !.index = s.index,
                           !.reason = IF chunk.finish # "none" THEN chunk.finish ELSE @],
         frames |-> s.frames]

\* routers/chat/collection.py and routers/responses/collection.py, the loop
CollectChat(c, chunk) ==
    [con |-> [c EXCEPT !.parts = @ \o SelectSeq(ChatFrames(c, chunk).frames,
                                                LAMBDA f : f.k # "finish"),
                       !.reason = IF chunk.finish # "none" THEN chunk.finish ELSE @],
     frames |-> <<>>]

CollectResponses(c, chunk) ==
    [con |-> [c EXCEPT !.parts = @ \o If(chunk.text, <<Frame("text", chunk.n, "")>>)
                                   \o CallFrames(chunk.calls),
                       !.reason = IF chunk.finish # "none" THEN chunk.finish ELSE @],
     frames |-> <<>>]

Consume(c, chunk) ==
    CASE c.kind = "chat"              -> ChatFrames(c, chunk)
      [] c.kind = "responses"         -> ResponsesFrames(c, chunk)
      [] c.kind = "collect_chat"      -> CollectChat(c, chunk)
      [] c.kind = "collect_responses" -> CollectResponses(c, chunk)

\* What follows the last chunk of a stream that ended without an error.
ResponsesEnd(c) ==
    LET status == IF c.reason = "length" THEN "incomplete" ELSE "completed"
    IN  If(c.msg, CloseMessage(c.index, status)) \o <<Frame("response", 0, status)>>

CollectChatEnd(c) ==
    c.parts \o <<Frame("reply", 0, IF c.reason = "none" THEN "stop" ELSE c.reason)>>

CollectResponsesEnd(c) ==
    c.parts \o <<Frame("response", 0, IF c.reason = "length" THEN "incomplete"
                                      ELSE "completed")>>

Ending(c) ==
    CASE c.kind = "chat"              -> <<Frame("sentinel", 0, "")>>
      [] c.kind = "responses"         -> ResponsesEnd(c)
      [] c.kind = "collect_chat"      -> CollectChatEnd(c)
      [] c.kind = "collect_responses" -> CollectResponsesEnd(c)

\* The error of a stream that had begun, and of a response that had not.
Broken(c) == IF c.phase = "prime" \/ c.kind \in {"collect_chat", "collect_responses"}
             THEN <<Frame("status", 0, "error")>>
             ELSE <<Frame("error", 0, "")>>

---------------------------------------------------------------------------
\* The entrances: a stream is primed while a status can still be chosen, a
\* collected answer is read to its end.
Entrance(kind, phase) ==
    [kind |-> kind, phase |-> phase, first |-> NoChunk, parts |-> <<>>, msg |-> FALSE,
     index |-> 0, reason |-> "none"]
ChatRoute(stream) ==
    IF stream THEN Entrance("chat", "prime") ELSE Entrance("collect_chat", "body")
ResponsesRoute(stream) ==
    IF stream THEN Entrance("responses", "prime") ELSE Entrance("collect_responses", "body")

Idle == [queue |-> <<>>, open |-> TRUE, lost |-> FALSE, closed |-> FALSE]

Init ==
    /\ via \in Vias
    /\ made = <<>>
    /\ rt = [state |-> "running", calls |-> <<>>]
    /\ attempt = Idle
    /\ op = "running"
    /\ sender = IF via = "agent" THEN "open" ELSE "ended"
    /\ conn = "open"
    /\ wire = IF via = "agent" THEN <<Line("accepted")>> ELSE <<>>
    /\ dec = [counted |-> 0, sawDone |-> FALSE, called |-> FALSE, calls |-> <<>>,
              reason |-> "none", eval |-> 0]
    /\ gen = [phase |-> "streaming", produced |-> 0, prompt |-> FALSE, drained |-> 0,
              forwarded |-> FALSE, finished |-> FALSE, cut |-> "none",
              completed |-> FALSE, slot |-> TRUE]
    /\ \E stream \in BOOLEAN : con \in {ChatRoute(stream), ResponsesRoute(stream)}
    /\ con.kind \in Consumers
    /\ out = <<>>
    /\ client = "reading"

---------------------------------------------------------------------------
\* The runtime (external), writing into the attempt or straight to the wire.

Write(lines) ==
    IF Direct
    THEN /\ conn # "open" \/ Len(wire) + Len(lines) <= WireSize
         /\ wire' = IF conn = "open" THEN wire \o lines ELSE wire
         /\ UNCHANGED <<attempt, op>>
    ELSE /\ attempt' = FoldLeft(Emit, attempt, lines)
         /\ UNCHANGED <<wire, op>>

RuntimeContent(type) ==
    /\ rt.state = "running"
    /\ Len(made) < MaxChunks
    /\ via = "mlx" => type # "think"
    /\ made' = Append(made, type)
    /\ Write(<<[Line(type) EXCEPT !.n = Len(made'),
                                  !.calls = IF type = "call" THEN <<"c">> ELSE <<>>]>>)
    /\ UNCHANGED <<via, rt, sender, conn, dec, gen, con, out, client>>

\* The done event states the reason and the token total, and may restate the
\* calls of the turn or carry one of its own.
RuntimeDone(reason, calls, extra) ==
    /\ rt.state = "running"
    /\ via = "mlx" => calls = <<>>
    /\ rt' = [state |-> "done", calls |-> calls]
    /\ Write(<<[Line("done") EXCEPT !.reason = reason, !.calls = calls,
                                    !.eval = MaxOf(Len(made) + extra, 0)]>>)
    /\ UNCHANGED <<via, made, sender, conn, dec, gen, con, out, client>>

\* It reports an error, or stops without a word.
RuntimeFails(how) ==
    /\ rt.state = "running"
    /\ rt' = [rt EXCEPT !.state = how]
    /\ Write(IF how = "failed" THEN <<Line("error")>> ELSE <<>>)
    /\ UNCHANGED <<via, made, sender, conn, dec, gen, con, out, client>>

\* A runtime read directly closes its response.
RuntimeCloses ==
    /\ Direct /\ sender = "ended"
    /\ rt.state \in {"done", "failed", "broken"}
    /\ Len(wire) < WireSize
    /\ conn = "open"
    /\ wire' = Append(wire, Line("eof"))
    /\ rt' = [rt EXCEPT !.state = "closed"]
    /\ UNCHANGED <<via, made, agentVars, conn, dec, gen, con, out, client>>

---------------------------------------------------------------------------
\* The agent: the attempt settles and ends its events; the response sends them.

OutcomesOf(state) == CASE state = "done"   -> {"completed", "outcome_unknown"}
                       [] state = "failed" -> {"failed"}
                       [] state = "broken" -> {"outcome_unknown"}

AttemptEnds(outcome) ==
    /\ ~Direct
    /\ rt.state \in {"done", "failed", "broken"}
    /\ ~attempt.closed
    /\ outcome \in OutcomesOf(rt.state)
    /\ op' = outcome
    /\ attempt' = Close(attempt)
    /\ UNCHANGED <<via, runtimeVars, sender, conn, wire, dec, gen, con, out, client>>

\* _stream: an event becomes a line; the end marker becomes the terminal line.
AgentSends ==
    /\ ~Direct
    /\ sender = "open" /\ conn = "open"
    /\ attempt.queue # <<>>
    /\ Len(wire) < WireSize
    /\ LET e == Head(attempt.queue)
       IN  /\ wire' = Append(wire, IF e.type = "end"
                                   THEN [Line("terminal") EXCEPT !.reason = op] ELSE e)
           /\ sender' = IF e.type = "end" THEN "ended" ELSE "open"
           /\ attempt' = [attempt EXCEPT !.queue = Tail(@), !.open = @ /\ e.type # "end"]
    /\ UNCHANGED <<via, runtimeVars, op, conn, dec, gen, con, out, client>>

\* The response's caller is gone: delivery stops, nothing else does.
AgentAbandons ==
    /\ ~Direct
    /\ sender = "open" /\ conn # "open"
    /\ attempt' = [attempt EXCEPT !.open = FALSE]
    /\ sender' = "ended"
    /\ UNCHANGED <<via, runtimeVars, op, conn, wire, dec, gen, con, out, client>>

\* The connection resets, the agent dies or a read times out.
ConnectionBreaks ==
    /\ conn = "open"
    /\ conn' = "broken"
    /\ UNCHANGED <<via, runtimeVars, agentVars, wire, dec, gen, con, out, client>>

---------------------------------------------------------------------------
\* A pull: the client, or the handler that collects for it, asks for more.

Pulling ==
    /\ gen.phase = "streaming"
    /\ \/ con.phase = "prime"
       \/ con.phase = "body" /\ (Collects \/ client = "reading")

\* A yielded chunk reaches the consumer; prime keeps the first one.
Deliver(c, chunks) ==
    IF c.phase = "prime" /\ chunks # <<>>
    THEN [con |-> [c EXCEPT !.phase = "head", !.first = Head(chunks)], frames |-> <<>>]
    ELSE FoldLeft(LAMBDA r, chunk : LET s == Consume(r.con, chunk)
                                    IN  [con |-> s.con, frames |-> r.frames \o s.frames],
                  [con |-> c, frames |-> <<>>], chunks)

\* finalize_generation in the session's finally: delivery is marked.
FinalizeGeneration(g, phase, completed) ==
    [g EXCEPT !.phase = phase, !.completed = completed]

Release(g) == [g EXCEPT !.slot = FALSE]

Finalize(g, phase, completed) == Release(FinalizeGeneration(g, phase, completed))

\* The loop is over: a synthetic terminal chunk is yielded first, if any.
Finish(g, c, sofar) ==
    IF TerminalChunk(g) # <<>>
    THEN LET r == Deliver(c, TerminalChunk(g))
         IN  /\ gen' = [g EXCEPT !.phase = "tail"]
             /\ con' = r.con
             /\ out' = out \o sofar \o r.frames
    ELSE /\ gen' = Finalize(g, "finished", g.cut = "none")
         /\ con' = [c EXCEPT !.phase = IF @ = "prime" THEN "head" ELSE "closed"]
         /\ out' = out \o sofar \o (IF c.phase = "prime" THEN <<>> ELSE Ending(c))

PullSkips ==
    /\ Pulling /\ wire # <<>>
    /\ ~(via = "ollama" /\ dec.sawDone)
    /\ Read(Head(wire)).what = "skip"
    /\ dec' = Read(Head(wire)).dec
    /\ wire' = Tail(wire)
    /\ UNCHANGED <<via, runtimeVars, agentVars, conn, gen, con, out, client>>

\* A chunk: through the ceiling, to the consumer; a drain may leave the loop.
PullChunk ==
    /\ Pulling /\ wire # <<>>
    /\ ~(via = "ollama" /\ dec.sawDone)
    /\ Read(Head(wire)).what \in {"chunk", "last"}
    /\ LET read == Read(Head(wire))
           s == Through(gen, read.chunk)
           r == Deliver(con, s.yields)
       IN  /\ dec' = read.dec
           /\ IF s.leave
              THEN /\ Finish(s.gen, r.con, r.frames)
                   /\ wire' = <<>> /\ conn' = "closed"
              ELSE /\ gen' = s.gen
                   /\ con' = r.con
                   /\ out' = out \o r.frames
                   /\ wire' = IF read.what = "last" THEN <<Line("returned")>> ELSE Tail(wire)
                   /\ UNCHANGED conn
    /\ UNCHANGED <<via, runtimeVars, agentVars, client>>

\* The adapter returns: after its terminal line, or once it saw the end.
PullEnds ==
    /\ Pulling
    /\ \/ via = "ollama" /\ dec.sawDone
       \/ wire # <<>> /\ Read(Head(wire)).what = "return"
    /\ Finish(gen, con, <<>>)
    /\ wire' = <<>> /\ conn' = "closed"
    /\ UNCHANGED <<via, runtimeVars, agentVars, dec, client>>

\* A terminal line that is not a success, an error line, or a broken stream.
PullRaises ==
    /\ Pulling
    /\ ~(via = "ollama" /\ dec.sawDone)
    /\ \/ wire = <<>> /\ conn = "broken"
       \/ wire # <<>> /\ Read(Head(wire)).what = "raise"
    /\ gen' = Finalize(gen, "failed", FALSE)
    /\ con' = [con EXCEPT !.phase = "closed"]
    /\ out' = out \o Broken(con)
    /\ wire' = <<>> /\ conn' = "closed"
    /\ UNCHANGED <<via, runtimeVars, agentVars, dec, client>>

\* Resumed after a yield below the ceiling, the deadline has passed.
DeadlineCuts ==
    /\ Pulling /\ con.phase = "body"
    /\ gen.produced > 0 /\ gen.cut = "none"
    /\ Finish([gen EXCEPT !.cut = "deadline"], con, <<>>)
    /\ wire' = <<>> /\ conn' = "closed"
    /\ UNCHANGED <<via, runtimeVars, agentVars, dec, client>>

\* Resumed after its synthetic terminal chunk, the session is done.
PullTail ==
    /\ gen.phase = "tail"
    /\ con.phase = "body" /\ (Collects \/ client = "reading")
    /\ gen' = Finalize(gen, "finished", FALSE)
    /\ con' = [con EXCEPT !.phase = "closed"]
    /\ out' = out \o Ending(con)
    /\ UNCHANGED <<via, runtimeVars, agentVars, conn, wire, dec, client>>

\* _frames and _events begin: the opening frame and the primed chunk's.
Opens ==
    /\ con.phase = "head" /\ client = "reading"
    /\ LET c == [con EXCEPT !.phase = "body"]
           r == Deliver(c, IF con.first = NoChunk THEN <<>> ELSE <<con.first>>)
           over == gen.phase \in {"finished", "failed"}
       IN  /\ con' = [r.con EXCEPT !.phase = IF over THEN "closed" ELSE "body"]
           /\ out' = out \o <<Frame("open", 0, "")>> \o r.frames
                         \o (IF over THEN Ending(r.con) ELSE <<>>)
    /\ UNCHANGED <<via, runtimeVars, agentVars, conn, wire, dec, gen, client>>

---------------------------------------------------------------------------
\* The client leaves.

Disconnect ==
    /\ client = "reading" /\ con.phase # "closed"
    /\ client' = "gone"
    /\ UNCHANGED <<via, runtimeVars, agentVars, conn, wire, dec, gen, con, out>>

Abandon == IF gen.phase \in {"streaming", "tail"}
           THEN /\ gen' = Finalize(gen, "abandoned", FALSE)
                /\ wire' = <<>> /\ conn' = "closed"
           ELSE UNCHANGED <<gen, wire, conn>>

\* The response's generator is closed: inside `aclosing` it closes the
\* generation; before it (the opening frames) the generation is only dropped.
TearDown ==
    /\ client = "gone" /\ ~Collects
    /\ con.phase \in {"head", "body"}
    /\ con' = [con EXCEPT !.phase = IF @ = "head" THEN "dropped" ELSE "closed"]
    /\ IF con.phase = "body" THEN Abandon ELSE UNCHANGED <<gen, wire, conn>>
    /\ UNCHANGED <<via, runtimeVars, agentVars, dec, out, client>>

\* The event loop closes a generation that was dropped.
CloseDropped ==
    /\ con.phase = "dropped"
    /\ Abandon
    /\ con' = [con EXCEPT !.phase = "closed"]
    /\ UNCHANGED <<via, runtimeVars, agentVars, dec, out, client>>

Done ==
    /\ con.phase = "closed" /\ sender = "ended"
    /\ rt.state # "running" /\ (Direct \/ attempt.closed)
    /\ UNCHANGED vars

---------------------------------------------------------------------------
DoneReasons == {"stop", "length", "tool_calls"}
DoneCalls == {<<>>, <<"c">>, <<"d">>}

Client == PullSkips \/ PullChunk \/ PullEnds \/ PullRaises \/ PullTail \/ Opens
Agent == AgentSends \/ AgentAbandons
         \/ \E o \in {"completed", "failed", "outcome_unknown"} : AttemptEnds(o)

Next ==
    \/ \E t \in {"text", "think", "call"} : RuntimeContent(t)
    \/ \E r \in DoneReasons, c \in DoneCalls, x \in {-1, 0, 1} : RuntimeDone(r, c, x)
    \/ \E how \in {"failed", "broken"} : RuntimeFails(how)
    \/ RuntimeCloses
    \/ Agent
    \/ ConnectionBreaks
    \/ Client
    \/ DeadlineCuts
    \/ Disconnect \/ TearDown \/ CloseDropped
    \/ Done

Spec == Init /\ [][Next]_vars

---------------------------------------------------------------------------
\* Properties.

Of(kinds) == SelectSeq(out, LAMBDA f : f.k \in kinds)
Count(s, Test(_)) == Len(SelectSeq(s, Test))
Shown == IF con.kind \in {"chat", "collect_chat"} THEN {"text", "think"} ELSE {"text"}

\* The state of every part has the shape the code gives it.
TypeOK ==
    /\ via \in Vias
    /\ Len(made) <= MaxChunks /\ Range(made) \subseteq {"text", "think", "call"}
    /\ rt.state \in {"running", "done", "failed", "broken", "closed"}
    /\ Len(attempt.queue) <= EventBuffer
    /\ op \in {"running", "completed", "failed", "outcome_unknown"}
    /\ conn \in {"open", "broken", "closed"}
    /\ gen.phase \in {"streaming", "tail", "finished", "failed", "abandoned"}
    /\ gen.cut \in {"none", "ceiling", "deadline"} /\ gen.drained <= DrainLimit
    /\ con.phase \in {"prime", "head", "body", "dropped", "closed"}

\* What the client was told of the end of the answer.
ToldWhole ==
    \E i \in 1..Len(out) :
        \/ out[i].k \in {"finish", "reply"} /\ out[i].w # "length"
        \/ out[i].k = "response" /\ out[i].w = "completed"

\* What the runtime wrote, as a client that lost nothing has it.
WrittenText ==
    [i \in 1..Count(made, LAMBDA t : t \in Shown) |->
        CHOOSE n \in 1..Len(made) :
            /\ made[n] \in Shown
            /\ Count(SubSeq(made, 1, n), LAMBDA t : t \in Shown) = i]

WrittenCalls(c) ==
    LET interim == IF c = "c" THEN Count(made, LAMBDA t : t = "call") ELSE 0
        restated == Count(rt.calls, LAMBDA x : x = c)
    IN  IF interim = 0 THEN restated ELSE IF via = "mlx" THEN 1 ELSE interim

\* A client told that the answer is whole has every piece of it, in order and
\* each once, although the agent drops events for a slow reader and the
\* runtime may restate its calls at the end.
WholeMeansEverything ==
    ToldWhole =>
        /\ [i \in 1..Len(Of(Shown)) |-> Of(Shown)[i].n] = WrittenText
        /\ \A c \in {"c", "d"} :
             Count(out, LAMBDA f : f.k = "call" /\ f.w = c) = WrittenCalls(c)

\* A stream has one terminal frame, nothing of the answer follows it, and a
\* stream that ends in `[DONE]` had one.
OneFinish ==
    LET ends == {i \in 1..Len(out) : out[i].k \in {"finish", "response", "reply"}}
    IN  /\ \A i, j \in ends : i = j
        /\ \A i \in ends, j \in 1..Len(out) :
             out[j].k \in {"text", "think", "call", "item_added", "item_done"} => j < i
        /\ Of({"sentinel"}) # <<>> => ends # {}

\* An agent client executes calls exactly when it is told `tool_calls`: that
\* reason always comes with a call, and a whole turn with calls says so.
CallsAnnounced ==
    con.kind \in {"chat", "collect_chat"} =>
        \A i \in 1..Len(out) :
            out[i].k \in {"finish", "reply"} =>
                /\ out[i].w = "tool_calls" => Of({"call"}) # <<>>
                /\ out[i].w = "stop" => Of({"call"}) = <<>>

\* Every item of a Responses stream is closed before the next begins and
\* before the response ends, and their indexes run on without a gap.
ItemsInOrder ==
    LET items == Of({"item_added", "item_done"})
    IN  con.kind = "responses" =>
            /\ \A i \in 1..Len(items) :
                 /\ items[i].k = IF i % 2 = 1 THEN "item_added" ELSE "item_done"
                 /\ items[i].n = (i - 1) \div 2
            /\ Of({"response"}) # <<>> => Len(items) % 2 = 0

\* A request cut at the ceiling still learns what its prompt cost, as long as
\* the runtime ends within the drain limit.
PromptCounted ==
    gen.phase = "finished" /\ gen.cut = "ceiling"
      /\ Len(made) - Ceiling < DrainLimit => gen.prompt

\* Delivery is recorded complete only for an attempt the ledger records as
\* completed, and only when the client was told the answer is whole.
DeliveryIsTrue ==
    gen.completed => /\ via = "agent" => op = "completed"
                     /\ gen.cut = "none" /\ gen.forwarded

\* What may not last: an attempt that ended while its response has not, and the
\* slot of a stream whose client left once it had begun.
EndUnsent == attempt.closed /\ sender # "ended"
Abandoned == client = "gone" /\ con.phase # "prime" /\ ~Collects /\ gen.slot
=============================================================================
