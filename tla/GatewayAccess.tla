--------------------------- MODULE GatewayAccess ---------------------------
(***************************************************************************)
(* The gateway's door: API keys and the limits every request passes.       *)
(*                                                                         *)
(* A key is one row of `api_keys`.  Administrators issue, edit and revoke  *)
(* it, each edit a read of the row, a check against what was read and one  *)
(* conditional UPDATE; requests read the row once, at the door, and carry  *)
(* that copy through the maintenance, source, rate and quota checks, with  *)
(* other requests' usage rows landing between them.  The rate limit is a   *)
(* counter per clock window, the quota a sum over the trailing day of      *)
(* `usage_records`.                                                        *)
(*                                                                         *)
(* Time is a tick counter.  A tick is a fraction of a second, because the  *)
(* wait a quota refusal announces is in whole seconds.                     *)
(***************************************************************************)
EXTENDS Integers, FiniteSets, FiniteSetsExt, Functions

CONSTANTS
    None,          \* None, and the row of a key never issued or deleted
    Keys,          \* key handles
    Requests,      \* gateway requests in flight at once
    Admins,        \* administrators' edits in flight at once
    Capabilities,  \* ISSUABLE_CAPABILITIES
    Rpms,          \* rate limits a key may carry; 0 is no limit
    Quotas,        \* daily token quotas a key may carry
    Lifetimes,     \* how far ahead an administrator sets an expiry
    DebugWindows,  \* lengths of debug window an administrator asks for
    Second,        \* ticks in a second
    Minute,        \* ticks in a rate-limit window
    Day,           \* ticks in the quota window
    MaxLifetime,   \* ticks a key may live (max_lifetime_days)
    MaxDebug,      \* ticks in MAX_DEBUG_WINDOW_MINUTES
    MaxCost,       \* most tokens one request is charged
    EditFields,    \* bound: the columns this instance's edits mention
    Events,        \* bound: "revoke", "delete", "debug", "maintenance" if they occur
    MaxNow,        \* bound: ticks a behaviour lasts
    MaxIssued      \* bound: requests presented in a behaviour

AccessAssumption ==
    /\ {Second, Minute, Day, MaxLifetime, MaxDebug, MaxCost} \subseteq Nat \ {0}
    /\ {MaxNow, MaxIssued} \subseteq Nat
    /\ UNION {Rpms, Quotas, Lifetimes, DebugWindows} \subseteq Nat
    /\ EditFields \subseteq {"scopes", "default", "rpm", "quota", "expires"}
    /\ Events \subseteq {"revoke", "delete", "debug", "maintenance"}
    /\ IsFiniteSet(Requests) /\ IsFiniteSet(Admins)

VARIABLES
    now,       \* the clock
    row,       \* the api_keys rows
    fresh,     \* handles no key was ever issued under
    open,      \* whether the maintenance mode admits traffic
    hits,      \* Redis: requests counted per key and window
    spent,     \* usage_records: tokens charged per key and tick
    req,       \* the requests at the door and past it
    edit,      \* the administrators' edits between their read and their write
    issued,    \* requests presented so far (bound)
    paced      \* history: metered requests let through the rate limit per tick

vars == <<now, row, fresh, open, hits, spent, req, edit, issued, paced>>

Times == 0 .. MaxNow
Windows == 0 .. (MaxNow \div Minute)

\* The columns of a key row the door and the edits read.  Name, digest, owner
\* and source ranges have no part in the properties; whether the source is
\* inside the ranges is a choice of the request's arrival.
ApiKey == [scopes: (SUBSET Capabilities) \ {{}}, default: Capabilities \cup {None},
           rpm: Rpms, quota: Quotas \cup {None}, expires: 0 .. (MaxNow + MaxLifetime),
           revoked: BOOLEAN, debug: (0 .. (MaxNow + MaxDebug)) \cup {None}]

Idle == [pc |-> "idle"]

\* ApiKey.is_active.
is_active(k, t) == ~k.revoked /\ k.expires > t

(***************************************************************************)
(* Reading usage_records                                                   *)
(***************************************************************************)

\* Tokens charged to a key at the given ticks.
Charged(k, ticks) == FoldFunctionOnSet(+, 0, spent[k], ticks)

\* The rows of a key in the day trailing t, by the tick they were written.
InWindow(k, t) == {a \in Times : spent[k][a] > 0 /\ a >= t - Day}

\* tokens_used_today: the trailing day's tokens, prompt and answer.
tokens_used_today(k, t) == Charged(k, InWindow(k, t))

\* quota_recovers_at: the first tick whose running total reaches what has to
\* be released, a day on; None when the window holds less than that.
quota_recovers_at(k, t, release) ==
    LET window == InWindow(k, t)
        enough == {a \in window : Charged(k, {b \in window : b <= a}) >= release}
    IN  IF enough = {} THEN None ELSE Min(enough) + Day

(***************************************************************************)
(* The door: authenticate_api_key                                          *)
(***************************************************************************)

Refuse(r, why) == req' = [req EXCEPT ![r] = [pc |-> "refused", why |-> why]]

\* A bearer token is presented: the handle is parsed, the row read, the digest
\* compared and the key's dates checked.  `good` is whether the token is the
\* key's, `metered` whether the endpoint enforces the quota (GET /v1/models
\* does not).  The actor built here holds a copy of the row for the whole request.
Present(r, k) ==
    /\ req[r] = Idle
    /\ issued < MaxIssued
    /\ issued' = issued + 1
    /\ \E good, metered \in BOOLEAN :
         IF good /\ row[k] # None /\ is_active(row[k], now)
         THEN req' = [req EXCEPT ![r] = [pc |-> "known", key |-> k, copy |-> row[k],
                                          metered |-> metered]]
         ELSE Refuse(r, "not_authenticated")
    /\ UNCHANGED <<now, row, fresh, open, hits, spent, edit, paced>>

\* assert_serving reads the maintenance mode; the source checks (proxy, country,
\* the key's ranges) follow it without an await.
CheckServing(r) ==
    /\ req[r].pc = "known"
    /\ \E inside \in BOOLEAN :
         IF open /\ inside THEN req' = [req EXCEPT ![r].pc = "placed"]
         ELSE Refuse(r, IF open THEN "source" ELSE "maintenance")
    /\ UNCHANGED <<now, row, fresh, open, hits, spent, edit, issued, paced>>

\* The request is counted in its key's current window and let through, or
\* refused, on what the counter then shows.
RateLimited(r, most) ==
    LET k == req[r].key
        count == hits[k][now \div Minute] + 1
    IN  /\ hits' = [hits EXCEPT ![k][now \div Minute] = count]
        /\ IF count > most
           THEN Refuse(r, "rate_limited") /\ UNCHANGED paced
           ELSE /\ req' = [req EXCEPT ![r].pc = "paced"]
                /\ paced' = [paced EXCEPT ![k][now] = @ + 1]

\* Mutant: the limit is compared with the count before this request.
RateLimitReadFirst(r) ==
    /\ req[r].pc = "placed"
    /\ RateLimited(r, req[r].copy.rpm + 1)
    /\ UNCHANGED <<now, row, fresh, open, spent, edit, issued>>

\* _assert_within_rate_limit: one INCR of the window's counter, refused
\* requests counted too; a limit of zero or less is none.
RateLimit(r) ==
    /\ req[r].pc = "placed"
    /\ IF req[r].copy.rpm <= 0
       THEN req' = [req EXCEPT ![r].pc = "paced"] /\ UNCHANGED <<hits, paced>>
       ELSE RateLimited(r, req[r].copy.rpm)
    /\ UNCHANGED <<now, row, fresh, open, spent, edit, issued>>

Admit(r) == req' = [req EXCEPT ![r] = [pc |-> "admitted", key |-> req[r].key,
                                        metered |-> req[r].metered]]

\* The first half of _assert_within_quota: the day's tokens are summed.  A
\* request over the quota goes on to ask when the key recovers.
QuotaUsed(r) ==
    /\ req[r].pc = "paced"
    /\ LET k == req[r].key
           quota == req[r].copy.quota
           used == tokens_used_today(k, now)
       IN  IF ~req[r].metered \/ quota = None \/ used < quota
           THEN Admit(r)
           ELSE req' = [req EXCEPT ![r] = [pc |-> "over", key |-> k, quota |-> quota,
                                            release |-> used - quota + 1,
                                            grew |-> FALSE]]
    /\ UNCHANGED <<now, row, fresh, open, hits, spent, edit, issued, paced>>

\* Whether the key is back under its quota at t, were nothing more charged.
Recovered(k, quota, t) == Charged(k, {a \in InWindow(k, t) : a <= now}) < quota

\* The second half: the recovery is projected over a later read of the window,
\* and the wait announced in whole seconds, at least one.  The last field is
\* history: whether one second more than the announced wait is enough.
QuotaWait(r) ==
    /\ req[r].pc = "over"
    /\ LET k == req[r].key
           recovers == quota_recovers_at(k, now, req[r].release)
           wait == IF recovers = None THEN None
                   ELSE Max({1, (recovers - now) \div Second})
           Enough(w) == Recovered(k, req[r].quota, now + w * Second)
       IN  req' = [req EXCEPT ![r] =
                     [pc |-> "refused", why |-> "quota_exceeded", wait |-> wait,
                      grew |-> req[r].grew,
                      within |-> wait = None \/ Enough(wait + 1)]]
    /\ UNCHANGED <<now, row, fresh, open, hits, spent, edit, issued, paced>>

\* The refusal reaches the caller.
Answer(r) ==
    /\ req[r].pc = "refused"
    /\ req' = [req EXCEPT ![r] = Idle]
    /\ UNCHANGED <<now, row, fresh, open, hits, spent, edit, issued, paced>>

\* An admitted request ends and its usage row is written (UsageSettlement
\* decides the figure); the model list runs no model and charges nothing.  The
\* `grew` of requests between the two reads is history.
Record(r) ==
    /\ req[r].pc = "admitted"
    /\ \E cost \in 0 .. MaxCost :
         LET k == req[r].key
             charge == IF req[r].metered THEN cost ELSE 0
         IN  /\ spent' = [spent EXCEPT ![k][now] = @ + charge]
             /\ req' = [s \in Requests |->
                          IF s = r THEN Idle
                          ELSE IF req[s].pc = "over" /\ req[s].key = k /\ charge > 0
                          THEN [req[s] EXCEPT !.grew = TRUE]
                          ELSE req[s]]
    /\ UNCHANGED <<now, row, fresh, open, hits, edit, issued, paced>>

(***************************************************************************)
(* ManageApiKeys                                                           *)
(***************************************************************************)

\* _assert_expiry_sane.
ExpirySane(t) == t > now /\ t <= now + MaxLifetime

\* _assert_default_capability.
DefaultHeld(default, scopes) == default = None \/ default \in scopes

\* create: the checks, then the row under a handle of 8 random bytes.
Create(k) ==
    /\ k \in fresh
    /\ \E scopes \in (SUBSET Capabilities) \ {{}}, default \in Capabilities \cup {None},
          rpm \in Rpms, quota \in Quotas, life \in Lifetimes :
         /\ ExpirySane(now + life)
         /\ DefaultHeld(default, scopes)
         /\ row' = [row EXCEPT ![k] =
                      [scopes |-> scopes, default |-> default, rpm |-> rpm,
                       quota |-> quota, expires |-> now + life, revoked |-> FALSE,
                       debug |-> None]]
    /\ fresh' = fresh \ {k}
    /\ UNCHANGED <<now, open, hits, spent, req, edit, issued, paced>>

\* The values a PATCH may carry for a column.
Offered(f) == CASE f = "scopes"  -> (SUBSET Capabilities) \ {{}}
                [] f = "default" -> Capabilities \cup {None}
                [] f = "rpm"     -> Rpms
                [] f = "quota"   -> Quotas
                [] f = "expires" -> {now + life : life \in Lifetimes}

\* update, up to its write: the row is read, a revoked key refused, and the
\* result of the columns mentioned checked against the columns read.
UpdateRead(a, k) ==
    /\ edit[a] = Idle
    /\ row[k] # None
    /\ ~row[k].revoked
    /\ \E f \in EditFields : \E v \in Offered(f) :
         LET updated == [row[k] EXCEPT ![f] = v]
         IN  /\ f = "expires" => ExpirySane(v)
             /\ DefaultHeld(updated.default, updated.scopes)
             /\ edit' = [edit EXCEPT ![a] = [pc |-> "update", key |-> k,
                                              mentions |-> f, updated |-> updated]]
    /\ UNCHANGED <<now, row, fresh, open, hits, spent, req, issued, paced>>

\* update_settings: the named columns, of a key not revoked; no row matches a
\* deleted key.
update_settings(k, values) ==
    row' = IF row[k] # None /\ ~row[k].revoked
           THEN [row EXCEPT ![k] = values]
           ELSE row

\* update, its write: every editable column, from the row that was read.
UpdateWrite(a) ==
    /\ edit[a].pc = "update"
    /\ LET e == edit[a]
       IN  update_settings(e.key,
               IF row[e.key] = None THEN None
               ELSE [e.updated EXCEPT !.revoked = row[e.key].revoked,
                                      !.debug = row[e.key].debug])
    /\ edit' = [edit EXCEPT ![a] = Idle]
    /\ UNCHANGED <<now, fresh, open, hits, spent, req, issued, paced>>

\* set_debug_window, up to its write: the window is bounded and its end fixed
\* before the row is read.
DebugRead(a, k) ==
    /\ "debug" \in Events
    /\ edit[a] = Idle
    /\ row[k] # None
    /\ ~row[k].revoked
    /\ \E w \in DebugWindows :
         /\ w <= MaxDebug
         /\ edit' = [edit EXCEPT ![a] = [pc |-> "debug", key |-> k,
                                          until |-> IF w = 0 THEN None ELSE now + w]]
    /\ UNCHANGED <<now, row, fresh, open, hits, spent, req, issued, paced>>

\* set_debug_window, its write: that one column, of a key not revoked.
DebugWrite(a) ==
    /\ edit[a].pc = "debug"
    /\ LET k == edit[a].key
       IN  update_settings(k, IF row[k] = None THEN None
                              ELSE [row[k] EXCEPT !.debug = edit[a].until])
    /\ edit' = [edit EXCEPT ![a] = Idle]
    /\ UNCHANGED <<now, fresh, open, hits, spent, req, issued, paced>>

\* revoke: one conditional UPDATE; the first revocation's moment stands.
Revoke(k) ==
    /\ "revoke" \in Events
    /\ row[k] # None
    /\ row' = [row EXCEPT ![k].revoked = TRUE]
    /\ UNCHANGED <<now, fresh, open, hits, spent, req, edit, issued, paced>>

\* delete_for_owner: the owner's account is deleted, and its keys with it.
DeleteForOwner(k) ==
    /\ "delete" \in Events
    /\ row[k] # None
    /\ row' = [row EXCEPT ![k] = None]
    /\ UNCHANGED <<now, fresh, open, hits, spent, req, edit, issued, paced>>

\* The maintenance mode enters and leaves normal (MaintenanceCoordinator).
SwitchMaintenance ==
    /\ "maintenance" \in Events
    /\ open' = ~open
    /\ UNCHANGED <<now, row, fresh, hits, spent, req, edit, issued, paced>>

Tick ==
    /\ now < MaxNow
    /\ now' = now + 1
    /\ UNCHANGED <<row, fresh, open, hits, spent, req, edit, issued, paced>>

Init ==
    /\ now = 0
    /\ row = [k \in Keys |-> None]
    /\ fresh = Keys
    /\ open = TRUE
    /\ hits = [k \in Keys |-> [w \in Windows |-> 0]]
    /\ spent = [k \in Keys |-> [t \in Times |-> 0]]
    /\ req = [r \in Requests |-> Idle]
    /\ edit = [a \in Admins |-> Idle]
    /\ issued = 0
    /\ paced = [k \in Keys |-> [t \in Times |-> 0]]

Door(r) ==
    \/ \E k \in Keys : Present(r, k)
    \/ CheckServing(r)
    \/ RateLimit(r)
    \/ QuotaUsed(r)
    \/ QuotaWait(r)
    \/ Answer(r)
    \/ Record(r)

Editing(a) ==
    \/ \E k \in Keys : UpdateRead(a, k) \/ DebugRead(a, k)
    \/ UpdateWrite(a)
    \/ DebugWrite(a)

Next ==
    \/ \E r \in Requests : Door(r)
    \/ \E a \in Admins : Editing(a)
    \/ \E k \in Keys : Create(k) \/ Revoke(k) \/ DeleteForOwner(k)
    \/ SwitchMaintenance
    \/ Tick

Spec == Init /\ [][Next]_vars

(***************************************************************************)
(* Properties                                                              *)
(***************************************************************************)

\* Every row holds the columns the schema gives it, every request and edit is
\* at a step of its handler, and the counters are within their bounds.
TypeOK ==
    /\ now \in Times
    /\ row \in [Keys -> ApiKey \cup {None}]
    /\ fresh \subseteq Keys
    /\ open \in BOOLEAN
    /\ hits \in [Keys -> [Windows -> 0 .. MaxIssued]]
    /\ paced \in [Keys -> [Times -> 0 .. MaxIssued]]
    /\ spent \in [Keys -> [Times -> 0 .. MaxIssued * MaxCost]]
    /\ \A r \in Requests : req[r].pc \in {"idle", "known", "placed", "paced", "over",
                                           "admitted", "refused"}
    /\ \A a \in Admins : edit[a].pc \in {"idle", "update", "debug"}
    /\ issued \in 0 .. MaxIssued

\* The rate limit's own statement of what a fixed window allows
\* (enforcement.py): in any minute, wherever it starts, at most twice the
\* nominal rate gets through, whatever the requests' interleaving.
RateBounded ==
    0 \notin Rpms
      =>
    \A k \in Keys, t \in Times :
        FoldFunctionOnSet(+, 0, paced[k], Times \cap (t .. (t + Minute - 1))) <= 2 * Max(Rpms)

\* The quota is checked before the answer and charged after it, so requests in
\* flight together can pass it together; the trailing day never exceeds the
\* quota by more than what they cost: the last token below the quota, and a
\* full answer for each request the gateway holds at once.
QuotaOvershoot ==
    \A k \in Keys :
        row[k] # None /\ row[k].quota # None
          =>
        tokens_used_today(k, now) < Max(Quotas) + MaxCost * Cardinality(Requests)

\* What a quota refusal announces: when nothing was charged between the sum and
\* the projection, a caller that waits one second more than told is admitted
\* if nobody spends meanwhile.
WaitSuffices ==
    \A r \in Requests :
        req[r].pc = "refused" /\ req[r].why = "quota_exceeded" /\ ~req[r].grew
          =>
        req[r].within

\* ManageApiKeys never stores a default outside the key's own list
\* (Actor.capability_for relies on it), whatever two edits race: one narrowing
\* the scopes, the other choosing a default.
DefaultIssued ==
    \A k \in Keys : row[k] # None => DefaultHeld(row[k].default, row[k].scopes)

\* A revoked key stays revoked: no edit or debug window whose read preceded the
\* revocation brings the key back when its write lands after it.
RevokeSticks ==
    \A k \in Keys : row[k] # None /\ row[k].revoked /\ row'[k] # None
      => row'[k].revoked

=============================================================================
