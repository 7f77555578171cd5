------------------------------- MODULE Edge -------------------------------
(***************************************************************************)
(* The edge of the three HTTP applications: what a request passes before   *)
(* a handler sees it, and what becomes of a refusal.                       *)
(*                                                                         *)
(* Each application is a stack of middleware around the router; a request  *)
(* walks it inwards one layer at a time (`stage`) until a layer answers,   *)
(* and the answer walks out through the wrappers each layer put around     *)
(* `send`.  Requests of one connection follow each other and share the     *)
(* ambient context (request id, debug window, compaction notice), which    *)
(* nothing clears on the way out.  A refusal raised inside the router is   *)
(* rendered by the installed handlers, which also keep a copy of it; one   *)
(* built by a middleware is only sent.                                     *)
(***************************************************************************)
EXTENDS Integers, Sequences, FiniteSets, SequencesExt

CONSTANTS
    None,          \* None
    Connections,   \* client connections
    Users,         \* who a credential resolves to
    Disabled,      \* the users whose account or key is switched off
    MaxBytes,      \* the body ceiling of the entrances
    Shapes,        \* the requests clients send (see Request)
    MaxRequests,   \* bound: requests sent on all connections
    MaxNow         \* bound: ticks a behaviour lasts

VARIABLES
    now,        \* the clock
    until,      \* debug_logging_until of each user's credential
    asked,      \* bound: requests sent so far
    req,        \* the request each connection is carrying, or None
    ctx,        \* the ambient context of each connection's task
    sent,       \* responses put on the wire for the current request
    gauge,      \* http_in_progress
    refusals,   \* rows of `refusals`
    audits,     \* authz.denied rows of `audit_log`
    ran         \* history: requests whose handler ran, as it saw them

vars == <<now, until, asked, req, ctx, sent, gauge, refusals, audits, ran>>

Entrances == {"public", "tailnet", "gateway"}
SAFE_METHODS == {"GET"}
EXEMPT_PATHS == {"healthz", "readyz"}

\* What the public application builds, outermost first.
PublicStack == <<"context", "cache", "metrics", "strip", "geo", "csrf", "body", "app">>

\* What the tailnet application builds.
TailnetStack == <<"context", "cache", "metrics", "csrf", "body", "app">>

\* What the gateway builds; its address checks run with the key's.
GatewayStack == <<"context", "cache", "metrics", "body", "app">>

Stack(entrance) ==
    CASE entrance = "public" -> PublicStack
      [] entrance = "tailnet" -> TailnetStack
      [] entrance = "gateway" -> GatewayStack

\* A request as a client sends it: the caller behind its session cookie, its
\* bearer key or the tailnet header (`user`), a tailnet header it forged, the
\* halves of the double submit, a declared length, the chunks that follow, and
\* what the handler makes of it.
Request ==
    [entrance : Entrances, path : EXEMPT_PATHS \cup {"users"}, method : {"GET", "POST"},
     origin : {"proxy", "abroad", "direct"}, user : Users \cup {None},
     forged : Users \cup {None}, cookie : {"", "own", "planted"},
     header : {"", "own", "planted"}, declared : Int \cup {None},
     body : Seq(Nat), outcome : {"ok", "reduced", "conflict", "denied", "crash", "malformed"}]

\* The ambient context: whose request id, until when detail may leave, whether
\* a prompt was reduced.
Context == [id : Nat, detail : Nat, compaction : BOOLEAN]

EdgeAssumption ==
    /\ Disabled \subseteq Users
    /\ MaxBytes \in Nat \ {0} /\ {MaxRequests, MaxNow} \subseteq Nat
    /\ \A s \in Shapes : s.entrance \in Entrances /\ s.user \in Users \cup {None}

Init ==
    /\ now = 0
    /\ until = [u \in Users |-> 0]
    /\ asked = 0
    /\ req = [c \in Connections |-> None]
    /\ ctx = [c \in Connections |-> [id |-> 0, detail |-> 0, compaction |-> FALSE]]
    /\ sent = [c \in Connections |-> <<>>]
    /\ gauge = 0
    /\ refusals = {}
    /\ audits = {}
    /\ ran = {}

----------------------------------------------------------------------------

At(c, layer) == req[c] # None /\ req[c].stage # "out" /\ Stack(req[c].entrance)[req[c].depth] = layer

\* The request moves one layer in, changed as the layer changed it.
Inwards(c, r) == req' = [req EXCEPT ![c] = [r EXCEPT !.depth = @ + 1]]

debug_detail_active(c) == now < ctx[c].detail

STATUS_MAP ==
    [request_too_large |-> 413, csrf_failed |-> 403, country_not_allowed |-> 403,
     untrusted_proxy |-> 400, not_authenticated |-> 401, not_authorized |-> 403,
     conflict |-> 409]

\* Codes outside the map: what the framework and the probes answer, else 500.
status_for(code) ==
    CASE code \in DOMAIN STATUS_MAP -> STATUS_MAP[code]
      [] code \in {"ok", "ready"} -> 200
      [] code = "invalid_request" -> 422
      [] code = "parse_error" -> 400
      [] code = "unready" -> 503
      [] OTHER -> 500

\* A rendered error: its code, and what the context adds to it.
error_response(c, code) ==
    [code |-> code, id |-> ctx[c].id, detail |-> debug_detail_active(c),
     compaction |-> FALSE, seeded |-> FALSE, stored |-> TRUE, checks |-> {}]

\* On its way out an answer is marked not to be stored and its status counted.
NoStore(response) == [response EXCEPT !.stored = FALSE]
Counted(r, response) == [r EXCEPT !.status = status_for(response.code)]

\* Middleware cannot raise past the handlers, so it answers and ends there;
\* what the application says after its body was refused is dropped.
Answer(c, r, response) ==
    /\ sent' = [sent EXCEPT ![c] = IF r.rejected THEN @ ELSE Append(@, NoStore(response))]
    /\ req' = [req EXCEPT ![c] =
                 [IF r.rejected THEN r ELSE Counted(r, response) EXCEPT !.stage = "out"]]

Seed(c, response) == [response EXCEPT !.seeded = req[c].cookie = ""]

\* Past the CSRF layer its cookie is set on whatever answer comes back.
Outwards(c, response) ==
    IF req[c].entrance = "gateway" THEN response ELSE Seed(c, response)

\* A client sends its next request; the task's context is the last request's.
Arrive(c) ==
    /\ asked < MaxRequests
    /\ req[c] = None
    /\ asked' = asked + 1
    /\ \E s \in Shapes :
         req' = [req EXCEPT ![c] =
                   [entrance |-> s.entrance, path |-> s.path, method |-> s.method,
                    origin |-> s.origin, user |-> s.user, forged |-> s.forged,
                    cookie |-> s.cookie, header |-> s.header, declared |-> s.declared,
                    body |-> s.body, outcome |-> s.outcome, number |-> asked + 1,
                    depth |-> 1, stage |-> "in", received |-> 0, rejected |-> FALSE,
                    status |-> 500, granted |-> FALSE, actor |-> None]]
    /\ sent' = [sent EXCEPT ![c] = <<>>]
    /\ UNCHANGED <<now, until, ctx, gauge, refusals, audits, ran>>

\* RequestContextMiddleware mints the id and resets the rest.
MintContext(c) ==
    /\ At(c, "context")
    /\ ctx' = [ctx EXCEPT ![c] = [id |-> req[c].number, detail |-> 0, compaction |-> FALSE]]
    /\ Inwards(c, req[c])
    /\ UNCHANGED <<now, until, asked, sent, gauge, refusals, audits, ran>>

\* CacheControlMiddleware wraps `send` (see NoStore).
PassCache(c) ==
    /\ At(c, "cache")
    /\ Inwards(c, req[c])
    /\ UNCHANGED <<now, until, asked, ctx, sent, gauge, refusals, audits, ran>>

\* MetricsMiddleware counts the request in; a status it never sees counts as 500.
CountIn(c) ==
    /\ At(c, "metrics")
    /\ gauge' = gauge + 1
    /\ Inwards(c, req[c])
    /\ UNCHANGED <<now, until, asked, ctx, sent, refusals, audits, ran>>

StripHeaders(c) ==
    /\ At(c, "strip")
    /\ Inwards(c, [req[c] EXCEPT !.forged = None])
    /\ UNCHANGED <<now, until, asked, ctx, sent, gauge, refusals, audits, ran>>

\* The caller's address, which only the proxy can vouch for.
resolve_client_ip(r) == IF r.origin = "direct" THEN "untrusted_proxy" ELSE "resolved"

assert_allowed(r) ==
    IF resolve_client_ip(r) = "untrusted_proxy" THEN "untrusted_proxy"
    ELSE IF r.origin = "abroad" THEN "country_not_allowed"
    ELSE "allowed"

GeoFilter(c) ==
    /\ At(c, "geo")
    /\ \/ /\ req[c].path \in EXEMPT_PATHS \/ assert_allowed(req[c]) = "allowed"
          /\ Inwards(c, req[c])
          /\ UNCHANGED sent
       \/ /\ req[c].path \notin EXEMPT_PATHS /\ assert_allowed(req[c]) # "allowed"
          /\ Answer(c, req[c], error_response(c, assert_allowed(req[c])))
    /\ UNCHANGED <<now, until, asked, ctx, gauge, refusals, audits, ran>>

double_submit_failure(r) == r.cookie = "" \/ r.header # r.cookie

CsrfCheck(c) ==
    /\ At(c, "csrf")
    /\ \/ /\ req[c].method \in SAFE_METHODS \/ ~double_submit_failure(req[c])
          /\ Inwards(c, req[c])
          /\ UNCHANGED sent
       \/ /\ req[c].method \notin SAFE_METHODS /\ double_submit_failure(req[c])
          /\ Answer(c, req[c], Seed(c, error_response(c, "csrf_failed")))
    /\ UNCHANGED <<now, until, asked, ctx, gauge, refusals, audits, ran>>

\* A length that is no length decides nothing.
declared_length(r) == IF r.declared # None /\ r.declared >= 0 THEN r.declared ELSE 0

DeclaredLength(c) ==
    /\ At(c, "body")
    /\ \/ /\ declared_length(req[c]) <= MaxBytes
          /\ Inwards(c, req[c])
          /\ UNCHANGED sent
       \/ /\ declared_length(req[c]) > MaxBytes
          /\ Answer(c, req[c], Outwards(c, error_response(c, "request_too_large")))
    /\ UNCHANGED <<now, until, asked, ctx, gauge, refusals, audits, ran>>

\* The application pulls a chunk of the body through the counting `receive`:
\* past the ceiling the refusal goes out and the application is told the
\* client left.
CountingReceive(c) ==
    LET r == req[c]
        received == r.received + Head(r.body)
        over == received > MaxBytes
        refusal == Outwards(c, error_response(c, "request_too_large"))
    IN  /\ At(c, "app") /\ ~r.rejected /\ r.body # <<>>
        /\ req' = [req EXCEPT ![c] =
                     [IF over THEN Counted(r, refusal) ELSE r
                        EXCEPT !.received = received, !.rejected = over,
                               !.body = IF over THEN <<>> ELSE Tail(@)]]
        /\ sent' = IF over THEN [sent EXCEPT ![c] = Append(@, NoStore(refusal))] ELSE sent
        /\ UNCHANGED <<now, until, asked, ctx, gauge, refusals, audits, ran>>

\* The application unwinds from the disconnect with a 400 of its own.
GuardedSend(c) ==
    /\ At(c, "app") /\ req[c].rejected
    /\ Answer(c, req[c], error_response(c, "parse_error"))
    /\ UNCHANGED <<now, until, asked, ctx, gauge, refusals, audits, ran>>

----------------------------------------------------------------------------

BodyRead(c) == At(c, "app") /\ ~req[c].rejected /\ req[c].body = <<>>

\* A body that does not validate is answered before anyone asks who sent it.
ValidationFails(c) ==
    /\ BodyRead(c) /\ req[c].outcome = "malformed" /\ req[c].path \notin EXEMPT_PATHS
    /\ Answer(c, req[c], Outwards(c, [error_response(c, "invalid_request") EXCEPT !.detail = FALSE]))
    /\ UNCHANGED <<now, until, asked, ctx, gauge, refusals, audits, ran>>

healthz(c) ==
    /\ BodyRead(c) /\ req[c].path = "healthz"
    /\ Answer(c, req[c], Outwards(c, [error_response(c, "ok") EXCEPT !.detail = FALSE]))
    /\ UNCHANGED <<now, until, asked, ctx, gauge, refusals, audits, ran>>

\* Under a hold the runtime does not count; whether there is one cannot be read
\* while the database is down.
maintenance_closed(down, hold) == hold /\ "database" \notin down
readiness(down, maintenance) ==
    down \ (IF maintenance THEN {"runtime"} ELSE {}) = {}

\* The dependencies of the entrance are probed; only the public entrance is told
\* to leave out which of them failed.
readyz(c) ==
    /\ BodyRead(c) /\ req[c].path = "readyz"
    /\ \E down \in SUBSET {"database", "cache", "runtime"}, hold \in BOOLEAN :
         LET ready == readiness(down, maintenance_closed(down, hold))
         IN  Answer(c, req[c], Outwards(c,
               [error_response(c, IF ready THEN "ready" ELSE "unready") EXCEPT
                  !.detail = FALSE, !.checks = IF req[c].entrance = "public" THEN {} ELSE down]))
    /\ UNCHANGED <<now, until, asked, ctx, gauge, refusals, audits, ran>>

Identifying(c) ==
    /\ BodyRead(c) /\ req[c].outcome # "malformed" /\ req[c].path \notin EXEMPT_PATHS
    /\ req[c].actor = None

\* Who the entrance takes the caller for: a session, or the header its own
\* proxy injects, which a client that reached the application around it
\* could have written.
presented_identity(r) ==
    CASE r.entrance = "public" -> r.user
      [] r.entrance = "tailnet" -> IF r.forged # None THEN r.forged ELSE r.user
      [] r.entrance = "gateway" -> r.user

Unidentified(c) ==
    /\ Identifying(c) /\ presented_identity(req[c]) = None
    /\ Answer(c, req[c], Outwards(c, error_response(c, "not_authenticated")))
    /\ UNCHANGED <<now, until, asked, ctx, gauge, refusals, audits, ran>>

\* An account or key switched off.  The tailnet resolver grants its window
\* before it looks, so there the refusal may carry detail.
DisabledCaller(c) ==
    LET grants == req[c].entrance = "tailnet"
        window == until[presented_identity(req[c])]
    IN  /\ Identifying(c) /\ presented_identity(req[c]) \in Disabled
        /\ ctx' = [ctx EXCEPT ![c].detail = IF grants THEN window ELSE @]
        /\ Answer(c, [req[c] EXCEPT !.granted = grants],
                  Outwards(c, [error_response(c, "not_authenticated") EXCEPT
                                 !.detail = grants /\ now < window]))
        /\ UNCHANGED <<now, until, asked, gauge, refusals, audits, ran>>

\* The second half of the CSRF defence: the token the session holds.
csrf_bound_to_session(r) ==
    r.entrance = "public" /\ r.method \notin SAFE_METHODS => r.header = "own"

SessionMismatch(c) ==
    /\ Identifying(c) /\ presented_identity(req[c]) \in Users \ Disabled
    /\ ~csrf_bound_to_session(req[c])
    /\ Answer(c, req[c], Outwards(c, error_response(c, "csrf_failed")))
    /\ UNCHANGED <<now, until, asked, ctx, gauge, refusals, audits, ran>>

\* The credential is known: its window is granted and its actor remembered.
Identify(c) ==
    /\ Identifying(c) /\ presented_identity(req[c]) \in Users \ Disabled
    /\ csrf_bound_to_session(req[c])
    /\ ctx' = [ctx EXCEPT ![c].detail = until[presented_identity(req[c])]]
    /\ req' = [req EXCEPT ![c].actor = presented_identity(req[c]), ![c].granted = TRUE]
    /\ UNCHANGED <<now, until, asked, sent, gauge, refusals, audits, ran>>

\* The copy of a refusal kept for the caller who was told it; the write is
\* best effort, so it may be lost.
record_refusal(c, code) ==
    \/ refusals' = refusals \cup {[number |-> req[c].number, actor |-> req[c].actor, code |-> code]}
    \/ refusals' = refusals

\* The gateway has no audit writer.
audit_refusal(c) ==
    \/ req[c].entrance # "gateway"
       /\ audits' = audits \cup {[number |-> req[c].number, actor |-> req[c].actor]}
    \/ audits' = audits

Identified(c) == BodyRead(c) /\ req[c].actor # None

\* On the gateway the key's address is checked once the key is known.
AddressPasses(r) == r.entrance = "gateway" => assert_allowed(r) = "allowed"

KeyAddressRefused(c) ==
    /\ Identified(c) /\ ~AddressPasses(req[c])
    /\ record_refusal(c, assert_allowed(req[c]))
    /\ Answer(c, req[c], error_response(c, assert_allowed(req[c])))
    /\ UNCHANGED <<now, until, asked, ctx, gauge, audits, ran>>

Reaches(c, outcomes) == Identified(c) /\ AddressPasses(req[c]) /\ req[c].outcome \in outcomes

RunHandler(c) ==
    ran' = ran \cup {[number |-> req[c].number, entrance |-> req[c].entrance, origin |-> req[c].origin,
                      method |-> req[c].method, cookie |-> req[c].cookie, header |-> req[c].header,
                      forged |-> req[c].forged, actor |-> req[c].actor,
                      user |-> req[c].user, received |-> req[c].received]}

\* The handler answers; a reduced prompt is announced in a header.
Serve(c) ==
    LET reduced == req[c].outcome = "reduced"
    IN  /\ Reaches(c, {"ok", "reduced"})
        /\ RunHandler(c)
        /\ ctx' = [ctx EXCEPT ![c].compaction = @ \/ reduced]
        /\ Answer(c, req[c], Outwards(c, [error_response(c, "ok") EXCEPT
                               !.detail = FALSE, !.compaction = ctx[c].compaction \/ reduced]))
        /\ UNCHANGED <<now, until, asked, gauge, refusals, audits>>

\* A use case raises: the handler keeps the refusal and renders it.
HandleDomainError(c) ==
    /\ Reaches(c, {"conflict"})
    /\ RunHandler(c)
    /\ record_refusal(c, "conflict")
    /\ Answer(c, req[c], Outwards(c, error_response(c, "conflict")))
    /\ UNCHANGED <<now, until, asked, ctx, gauge, audits>>

HandleDenied(c) ==
    /\ Reaches(c, {"denied"})
    /\ audit_refusal(c)
    /\ record_refusal(c, "not_authorized")
    /\ Answer(c, req[c], Outwards(c, error_response(c, "not_authorized")))
    /\ UNCHANGED <<now, until, asked, ctx, gauge, ran>>

\* Nothing anticipated it: answered outside every middleware, with the id the
\* context still holds.
HandleUnanticipated(c) ==
    /\ Reaches(c, {"crash"})
    /\ RunHandler(c)
    /\ record_refusal(c, "internal_error")
    /\ sent' = [sent EXCEPT ![c] =
                  Append(@, [error_response(c, "internal_error") EXCEPT !.detail = FALSE])]
    /\ req' = [req EXCEPT ![c].stage = "out"]
    /\ UNCHANGED <<now, until, asked, ctx, gauge, audits>>

\* The response is out and the middleware unwinds; the context is left as it is.
Finish(c) ==
    /\ req[c] # None /\ req[c].stage = "out"
    /\ gauge' = gauge - 1
    /\ req' = [req EXCEPT ![c] = None]
    /\ UNCHANGED <<now, until, asked, ctx, sent, refusals, audits, ran>>

\* An administrator opens a debug window on a credential; windows close by time.
SetDebugWindow(u) ==
    /\ until[u] <= now
    /\ until' = [until EXCEPT ![u] = now + 1]
    /\ UNCHANGED <<now, asked, req, ctx, sent, gauge, refusals, audits, ran>>

Tick ==
    /\ now < MaxNow
    /\ now' = now + 1
    /\ UNCHANGED <<until, asked, req, ctx, sent, gauge, refusals, audits, ran>>

Refused(c) ==
    \/ ValidationFails(c) \/ Unidentified(c) \/ DisabledCaller(c) \/ SessionMismatch(c) \/ KeyAddressRefused(c)
    \/ HandleDomainError(c) \/ HandleDenied(c) \/ HandleUnanticipated(c)

Next ==
    \/ \E c \in Connections :
         \/ Arrive(c) \/ MintContext(c) \/ PassCache(c) \/ CountIn(c) \/ StripHeaders(c) \/ GeoFilter(c)
         \/ CsrfCheck(c) \/ DeclaredLength(c) \/ CountingReceive(c) \/ GuardedSend(c)
         \/ healthz(c) \/ readyz(c) \/ Identify(c) \/ Serve(c) \/ Refused(c) \/ Finish(c)
    \/ \E u \in Users : SetDebugWindow(u)
    \/ Tick

Spec == Init /\ [][Next]_vars

----------------------------------------------------------------------------

TypeOK ==
    /\ now \in 0..MaxNow /\ asked \in 0..MaxRequests
    /\ until \in [Users -> 0..MaxNow + 1]
    /\ ctx \in [Connections -> Context]
    /\ gauge = Cardinality({c \in Connections : req[c] # None /\ (req[c].depth > 3 \/ req[c].stage = "out")})
    /\ \A c \in Connections : req[c] # None =>
         req[c].depth \in 1..Len(Stack(req[c].entrance)) /\ req[c].received \in Nat

\* A client gets one response to a request, whatever the layers it passed did,
\* and the status the metrics count is the one it got: a body refused half-way
\* is answered once although the application, told the client left, answers as
\* well (body_limit.py, guarded_send).  Only what nothing anticipated may be
\* stored on the way.
OneAnswer ==
    \A c \in Connections :
        /\ Len(sent[c]) <= 1
        /\ req[c] # None /\ req[c].stage = "out" =>
             /\ Len(sent[c]) = 1
             /\ req[c].status = status_for(sent[c][1].code)
             /\ sent[c][1].stored => sent[c][1].code = "internal_error"

\* Every answer names its own request and says nothing of an earlier one on
\* the connection: the id is this request's, operator detail leaves only for a
\* credential this request resolved, and a reduced prompt is announced exactly
\* on the request that was reduced (request_context.py resets on the way in).
AnswersOwnRequest ==
    \A c \in Connections : req[c] # None /\ sent[c] # <<>> =>
        LET a == sent[c][1]
        IN  /\ a.id = req[c].number
            /\ a.detail => req[c].granted
            /\ a.compaction <=> a.code = "ok" /\ req[c].outcome = "reduced" /\ req[c].actor # None

\* What a handler runs on passed every check of its entrance: it came through
\* the proxy and from an allowed country, a state change carried the token of
\* its own page (and, in a session, the session's), its body is within the
\* ceiling, and on the public entrance nobody is who a tailnet header says.
HandlersGuarded ==
    \A h \in ran :
        /\ h.actor \notin Disabled
        /\ h.entrance # "tailnet" => h.origin = "proxy" /\ h.actor = h.user
        /\ h.entrance = "public" => h.forged = None
        /\ h.method \notin SAFE_METHODS /\ h.entrance # "gateway" => h.cookie # "" /\ h.header = h.cookie
        /\ h.method \notin SAFE_METHODS /\ h.entrance = "public" => h.header = "own"
        /\ h.received <= MaxBytes

\* A stored refusal is a copy of an answer its own subject got: the request's
\* actor, and a denial kept in the audit log on the admin entrances only.
RefusalsAreAnswers ==
    /\ \A f \in refusals : f.actor # None /\ ~(\E g \in refusals : g.number = f.number /\ g # f)
    /\ \A c \in Connections : req[c] # None /\ sent[c] # <<>> =>
         \A f \in refusals : f.number = req[c].number =>
            f.actor = req[c].actor /\ f.code = sent[c][1].code
    /\ \A a \in audits : \A f \in refusals : f.number = a.number => f.code = "not_authorized"

EdgeHonest == OneAnswer /\ AnswersOwnRequest /\ HandlersGuarded /\ RefusalsAreAnswers
=============================================================================
