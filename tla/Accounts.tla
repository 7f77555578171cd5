-------------------------------- MODULE Accounts --------------------------------
(***************************************************************************)
(* Local sign-in, sessions and account administration.  A request is one   *)
(* database transaction, committed when its handler ends: a statement that *)
(* writes a row holds that row's lock until then, and other requests read  *)
(* the row as last committed.  Sessions, session watermarks, sign-in       *)
(* challenges and failure counters are in Redis, where every write is seen *)
(* at once and ends at its time to live.                                   *)
(***************************************************************************)
EXTENDS Integers, FiniteSets, FiniteSetsExt

CONSTANTS Users, Procs, Sids, Tokens, None,
          Rows0,              \* the committed rows at the start, None where there is no account
          SignedIn,           \* the sessions open at the start, by account
          Ops,                \* the operations this instance exercises
          AbsoluteTtl, IdleTtl, InvitationTtl,
          FREE_ATTEMPTS, IP_FREE_ATTEMPTS, SKEW_STEPS,
          MaxNow,             \* bound on the clock
          MaxEpoch            \* bound on maintenance entries

VARIABLES row, sess, watermark, chal, pending, fails, maint, inv, codes, lock, req, now,
          spent, rung, revoked   \* history, read by the properties only

vars == <<row, sess, watermark, chal, pending, fails, maint, inv, codes, lock, req, now,
          spent, rung, revoked>>

store == <<sess, watermark, chal, pending, fails>>
tables == <<row, inv, codes, lock>>
ghosts == <<spent, rung, revoked>>

Columns == {"role", "off", "pw", "secret", "counter"}
Rows == [role : {"admin", "user"}, off : BOOLEAN, pw : Nat, secret : Nat, counter : Int]
\* what a statement writes of a row: all of it, its flag, its role or its counter
Writes == Rows \union [off : BOOLEAN] \union [role : {"admin", "user"}] \union [counter : Int]

Invitations == [user : Users, kind : {"onboard", "reset"}, state : {"open", "used", "gone"},
                until : Nat]

Watermarks == [at : Nat, until : Nat]

\* a password with no second factor, or the reverse, cannot sign in
can_use_public_entrance(r) == r.pw # 0 /\ r.secret # 0

AccountsAssumption ==
    /\ AbsoluteTtl \in Nat \ {0} /\ IdleTtl \in Nat \ {0} /\ IdleTtl <= AbsoluteTtl
    /\ InvitationTtl \in Nat /\ MaxNow \in Nat \ {0} /\ MaxEpoch \in Nat
    /\ FREE_ATTEMPTS \in Nat /\ IP_FREE_ATTEMPTS \in Nat /\ SKEW_STEPS \in Nat
    /\ Rows0 \in [Users -> Rows \union {None}]
    /\ \A u \in Users : Rows0[u] # None => (Rows0[u].pw = 0) = (Rows0[u].secret = 0)
    /\ DOMAIN SignedIn \subseteq Sids
    /\ \A s \in DOMAIN SignedIn : /\ SignedIn[s] \in Users /\ Rows0[SignedIn[s]] # None
                                  /\ can_use_public_entrance(Rows0[SignedIn[s]])
    /\ IsFiniteSet(Procs)
    /\ None \notin Procs /\ None \notin Tokens
    /\ None \notin Writes \union Invitations \union Watermarks

Fresh(role) == [role |-> role, off |-> FALSE, pw |-> 0, secret |-> 0, counter |-> -1]

Usable(r) == r # None /\ ~r.off

\* A request, with the fields its operation uses; `write` is the columns its statement has
\* written and not committed.
NoReq == [op |-> "none", pc |-> "idle", user |-> None, sid |-> None, at |-> 0, data |-> None,
          mark |-> [u \in Users |-> 0], epoch |-> 0, row |-> None, stamp |-> 0, write |-> None,
          token |-> None, codes |-> [seen |-> {}, add |-> {}], key |-> None, code |-> None,
          secret |-> 0]

Init ==
    /\ row = Rows0
    /\ sess = [s \in Sids |-> IF s \notin DOMAIN SignedIn THEN None
                             ELSE [user |-> SignedIn[s], created |-> 1, expires |-> 1 + AbsoluteTtl,
                                   epoch |-> 0, until |-> 1 + IdleTtl]]
    /\ watermark = [u \in Users |-> None]
    /\ chal = [p \in Procs |-> None]
    /\ pending = [u \in Users |-> 0]
    /\ fails = [pair |-> [u \in Users |-> 0], ip |-> 0]
    /\ maint = [closed |-> FALSE, epoch |-> 0]
    /\ inv = [t \in Tokens |-> None]
    /\ codes = [u \in Users |-> IF row[u] # None /\ can_use_public_entrance(row[u])
                               THEN {0} ELSE {}]
    /\ lock = [u \in Users |-> None]
    /\ req = [p \in Procs |-> NoReq]
    /\ now = 1
    /\ spent = {[user |-> SignedIn[s], secret |-> 1, code |-> [kind |-> "totp", val |-> 0], sid |-> s,
                 born |-> 1, epoch |-> 0] : s \in DOMAIN SignedIn}
    /\ rung = [t \in Tokens |-> 0]
    /\ revoked = [u \in Users |-> 0]

-----------------------------------------------------------------------------
(* Redis *)

\* An instant is taken by one request only.  A session's entry and its watermark are read within
\* one unit of time, far less than any lifetime.
Advance == /\ now < MaxNow /\ now' = now + 1
           /\ \A p \in Procs : req[p].pc = "check" => now <= req[p].at

Live(e) == e # None /\ now < e.until

\* `_write`: a session entry lives until it is idle or its absolute expiry passes, as of `at`
_write(s, data, at) ==
    LET ttl == Min({IdleTtl, data.expires - at})
    IN  sess' = [sess EXCEPT ![s] = IF ttl <= 0 THEN None
                                    ELSE [data EXCEPT !.until = now + ttl]]

_superseded(data) == /\ Live(watermark[data.user])
                     /\ data.created < watermark[data.user].at

_set_watermark(u, at) ==
    watermark' = [watermark EXCEPT ![u] = [at |-> at, until |-> Max({now, at}) + AbsoluteTtl]]

Revokes(u, at) == revoked' = [revoked EXCEPT ![u] = at]

assert_allowed(u) == fails.ip <= IP_FREE_ATTEMPTS /\ fails.pair[u] <= FREE_ATTEMPTS

record_failure(u) ==
    fails' = [fails EXCEPT !.ip = @ + 1, !.pair[u] = @ + 1]

\* a success forgives the account from this address, never the address
clear(u) == fails' = [fails EXCEPT !.pair[u] = 0]

\* the fixed window of the counters, opened by their first increment, ends
WindowEnds ==
    /\ fails # [pair |-> [u \in Users |-> 0], ip |-> 0]
    /\ "window" \in Ops
    /\ fails' = [pair |-> [u \in Users |-> 0], ip |-> 0]
    /\ UNCHANGED <<row, sess, watermark, chal, pending, maint, tables, req, now, ghosts>>

-----------------------------------------------------------------------------
(* Requests and their transactions *)

Step(p, pc) == req' = [req EXCEPT ![p].pc = pc]
End(p) == req' = [req EXCEPT ![p] = NoReq]
Unlock(p) == lock' = [u \in Users |-> IF lock[u] = p THEN None ELSE lock[u]]
Free(p, u) == lock[u] \in {None, p}

\* a request whose handler raises: its statements are undone
Abort(p) == End(p) /\ Unlock(p) /\ UNCHANGED <<row, inv, codes>>

Begin(p, r) == /\ req[p] = NoReq
               /\ r.op \in Ops
               /\ req' = [req EXCEPT ![p] = r]

At(p, op, pc) == req[p].op \in op /\ req[p].pc = pc

\* the row a request reads, for later use in the same request
Reads(p, u, pc) == req' = [req EXCEPT ![p].row = row[u], ![p].pc = pc]

\* An UPDATE of some columns waits for the row's lock and writes nothing when the row is gone.
\* `save` writes every column, and inserts the row again when it is gone.
Update(p, u, columns) ==
    /\ Free(p, u)
    /\ lock' = [lock EXCEPT ![u] = p]
    /\ req' = [req EXCEPT ![p].write = columns, ![p].pc = "mark"]

save(p, u, r) == Update(p, u, r)

\* the codes on record are deleted and a new set added; one code stands for the set, named by its moment
reissue_recovery_codes(p, u, at) == [seen |-> codes[u], add |-> {at}]

\* the columns written, over the row as it stands
Merged(w, r) ==
    [role    |-> IF "role" \in DOMAIN w THEN w.role ELSE r.role,
     off     |-> IF "off" \in DOMAIN w THEN w.off ELSE r.off,
     pw      |-> IF "pw" \in DOMAIN w THEN w.pw ELSE r.pw,
     secret  |-> IF "secret" \in DOMAIN w THEN w.secret ELSE r.secret,
     counter |-> IF "counter" \in DOMAIN w THEN w.counter ELSE r.counter]

\* the counter or link a request has claimed is taken for good when it commits
Committed(p, u) ==
    LET w == req[p].write
    IN  IF req[p].op = "delete" THEN None
        ELSE IF w = None THEN row[u]
        ELSE IF row[u] # None THEN Merged(w, row[u])
        ELSE IF DOMAIN w = Columns THEN w ELSE None

Commit(p) ==
    /\ req[p].pc = "commit"
    /\ LET r == req[p] IN
       /\ row' = [row EXCEPT ![r.user] = Committed(p, r.user)]
       /\ codes' = [codes EXCEPT ![r.user] = IF r.op = "delete" THEN {}
                                             ELSE (@ \ r.codes.seen) \union r.codes.add]
       /\ inv' = [t \in Tokens |->
                    IF inv[t] = None \/ inv[t].user # r.user THEN inv[t]
                    ELSE IF r.op = "delete" THEN [inv[t] EXCEPT !.state = "gone"]
                    ELSE IF t = r.token THEN [inv[t] EXCEPT !.state = "used"] ELSE inv[t]]
       /\ rung' = [t \in Tokens |-> IF t = r.token THEN rung[t] + 1 ELSE rung[t]]
    /\ End(p) /\ Unlock(p)
    /\ UNCHANGED <<store, maint, now, spent, revoked>>

-----------------------------------------------------------------------------
(* Signing in *)

\* `assert_allowed` at the head of the password step; a refused address ends here
LoginAllowed(p, u) ==
    /\ row[u] # None /\ assert_allowed(u)
    /\ Cardinality(spent) < Cardinality(Sids)             \* bound
    /\ Begin(p, [NoReq EXCEPT !.op = "login", !.pc = "password", !.user = u])
    /\ UNCHANGED <<tables, store, maint, now, ghosts>>

\* `verify_password`: disabled, incomplete and wrong all count as failures
verify_password(p, good) ==
    /\ At(p, {"login"}, "password")
    /\ good \/ "wrong" \in Ops
    /\ LET u == req[p].user
           ok == good /\ Usable(row[u]) /\ can_use_public_entrance(row[u])
       IN IF ok THEN chal' = [chal EXCEPT ![p] = u] /\ UNCHANGED fails
                ELSE record_failure(u) /\ UNCHANGED chal
    /\ End(p)
    /\ UNCHANGED <<tables, sess, watermark, pending, maint, now, ghosts>>

\* what is typed at the second step: a code of the window around the clock, a recovery code, or
\* something that matches nothing
Typed(u) == [kind : {"totp"}, val : now - SKEW_STEPS .. now + SKEW_STEPS]
            \union (IF "recovery" \in Ops THEN [kind : {"recovery"}, val : codes[u]] ELSE {})
            \union (IF "wrong" \in Ops THEN [kind : {"wrong"}, val : {0}] ELSE {})

\* `_consume_challenge`: the entry is read, then deleted
ReadChallenge(p, c) ==
    /\ chal[c] # None
    /\ \E code \in Typed(chal[c]) :
         Begin(p, [NoReq EXCEPT !.op = "factor", !.pc = "taken", !.user = chal[c], !.key = c,
                                !.code = code])
    /\ UNCHANGED <<tables, store, maint, now, ghosts>>

DropChallenge(p) ==
    /\ At(p, {"factor"}, "taken")
    /\ chal' = [chal EXCEPT ![req[p].key] = None]
    /\ Step(p, "verify")
    /\ UNCHANGED <<tables, sess, watermark, pending, fails, maint, now, ghosts>>

\* `_require_second_step_user` and the throttle, at either second factor
require_second_step(u) ==
    Usable(row[u]) /\ can_use_public_entrance(row[u]) /\ assert_allowed(u)

\* `verify`, against the counter of the row read; a recovery code, among those not used yet
Matches(u, c) == \/ c.kind = "totp" /\ c.val > row[u].counter
                 \/ c.kind = "recovery" /\ c.val \in codes[u]

VerifyCode(p) ==
    /\ At(p, {"factor"}, "verify")
    /\ LET u == req[p].user IN
       \/ /\ ~require_second_step(u)
          /\ End(p) /\ UNCHANGED fails
       \/ /\ require_second_step(u) /\ Matches(u, req[p].code)
          /\ Reads(p, u, "claim") /\ UNCHANGED fails
       \/ /\ require_second_step(u) /\ ~Matches(u, req[p].code)
          /\ End(p) /\ record_failure(u)
    /\ UNCHANGED <<tables, sess, watermark, chal, pending, maint, now, ghosts>>

\* Mutant: the counter is compared with the row read earlier, and written back
AdvanceRead(p, u, c) == c > req[p].row.counter
\* `advance_totp_counter`'s WHERE, on the row as committed when its lock is taken
advance_totp_counter(p, u, c) == row[u] # None /\ row[u].counter < c

\* `consume_recovery_code`'s WHERE
consume_recovery_code(u, x) == x \in codes[u]

\* the rows of the codes another request has claimed or deleted are locked until it commits
CodeFree(p, u, x) ==
    \A q \in Procs \ {p} :
        req[q].pc \in {"admit", "create", "kept", "restamp", "commit"} /\ req[q].user = u
        => x \notin req[q].codes.seen

ClaimTotp(p) ==
    /\ At(p, {"factor"}, "claim") /\ req[p].code.kind = "totp"
    /\ LET u == req[p].user
           c == req[p].code.val
       IN /\ Free(p, u)
          /\ IF advance_totp_counter(p, u, c)
               THEN /\ lock' = [lock EXCEPT ![u] = p]
                    /\ req' = [req EXCEPT ![p].write = [counter |-> c],
                                          ![p].pc = "admit"]
                    /\ clear(u)
               ELSE End(p) /\ record_failure(u) /\ UNCHANGED lock
    /\ UNCHANGED <<row, inv, codes, sess, watermark, chal, pending, maint, now, ghosts>>

ClaimRecovery(p) ==
    /\ At(p, {"factor"}, "claim") /\ req[p].code.kind = "recovery"
    /\ LET u == req[p].user
           x == req[p].code.val
       IN /\ CodeFree(p, u, x)
          /\ IF consume_recovery_code(u, x)
               THEN /\ req' = [req EXCEPT ![p].codes.seen = {x}, ![p].pc = "admit"]
                    /\ clear(u)
               ELSE End(p) /\ record_failure(u)
    /\ UNCHANGED <<tables, sess, watermark, chal, pending, maint, now, ghosts>>

\* `_establish_session`: the maintenance state, then the session with the epoch read
Admit(p) ==
    /\ At(p, {"factor"}, "admit")
    /\ IF maint.closed /\ req[p].row.role # "admin"
         THEN Abort(p)
         ELSE req' = [req EXCEPT ![p].epoch = maint.epoch, ![p].pc = "create"] /\ UNCHANGED tables
    /\ UNCHANGED <<store, maint, now, ghosts>>

CreateEpoch(p) == req[p].epoch

create(p, s) ==
    /\ At(p, {"factor"}, "create")
    /\ sess[s] = None /\ \A x \in spent : x.sid # s
    /\ Advance
    /\ LET u == req[p].user IN
       /\ sess' = [sess EXCEPT ![s] =
                    [user |-> u, created |-> now + 1, expires |-> now + 1 + AbsoluteTtl,
                     epoch |-> CreateEpoch(p), until |-> now + 1 + IdleTtl]]
       /\ spent' = spent \union {[user |-> u, secret |-> req[p].row.secret, code |-> req[p].code,
                                  sid |-> s, born |-> now + 1, epoch |-> req[p].epoch]}
    /\ Step(p, "commit")
    /\ UNCHANGED <<tables, watermark, chal, pending, fails, maint, rung, revoked>>

-----------------------------------------------------------------------------
(* A request on a session *)

\* `SessionStore.read`, in its three trips: the entry; the watermark; the rewrite
ReadSession(p, s, op) ==
    /\ Begin(p, [NoReq EXCEPT !.op = op, !.pc = "check", !.sid = s, !.at = now, !.data = sess[s],
                              !.mark = revoked])
    /\ Live(sess[s])
    /\ UNCHANGED <<tables, store, maint, now, ghosts>>

OnSession == {"use", "logout", "password", "totp"}

\* where a read that found nothing leads: a sign-out goes on to destroy, the rest are refused
Unread(p) == IF req[p].op = "logout" THEN Step(p, "destroy") ELSE End(p)

CheckSession(p) ==
    /\ At(p, OnSession, "check")
    /\ LET d == req[p].data IN
       IF req[p].at >= d.expires \/ _superseded(d)
         THEN sess' = [sess EXCEPT ![req[p].sid] = None] /\ Unread(p)
         ELSE Step(p, "refresh") /\ UNCHANGED sess
    /\ UNCHANGED <<tables, watermark, chal, pending, fails, maint, now, ghosts>>

RefreshSession(p) ==
    /\ At(p, OnSession, "refresh")
    /\ _write(req[p].sid, req[p].data, req[p].at)
    /\ Step(p, IF req[p].op = "logout" THEN "destroy" ELSE "resolve")
    /\ UNCHANGED <<tables, watermark, chal, pending, fails, maint, now, ghosts>>

\* `destroy`, whoever the session belonged to and whether or not it was found
SignOut(p) ==
    /\ At(p, {"logout"}, "destroy")
    /\ sess' = [sess EXCEPT ![req[p].sid] = None]
    /\ End(p)
    /\ UNCHANGED <<tables, watermark, chal, pending, fails, maint, now, spent, rung, revoked>>

session_valid(epoch, admin) == admin \/ epoch >= maint.epoch

\* `resolve_session_actor`, from the user it reads to the actor it answers with
ResolveActor(p) ==
    /\ At(p, OnSession, "resolve")
    /\ LET u == req[p].data.user
           r == row[u]
           admin == r # None /\ r.role = "admin"
       IN IF ~Usable(r) \/ ~session_valid(req[p].data.epoch, admin)
            THEN sess' = [sess EXCEPT ![req[p].sid] = None] /\ End(p)
          ELSE IF maint.closed /\ ~admin THEN End(p) /\ UNCHANGED sess
          ELSE /\ req' = [req EXCEPT ![p].row = r, ![p].user = u, ![p].epoch = maint.epoch,
                                     ![p].pc = "accepted"]
               /\ UNCHANGED sess
    /\ UNCHANGED <<tables, watermark, chal, pending, fails, maint, now, ghosts>>

Respond(p) == At(p, {"use"}, "accepted") /\ End(p)
              /\ UNCHANGED <<tables, store, maint, now, ghosts>>

-----------------------------------------------------------------------------
(* One's own account *)

\* `begin_totp_reenrolment`: a secret of one's own choosing waits for its first code
BeginReenrolment(p) ==
    /\ At(p, {"totp"}, "accepted") /\ pending[req[p].user] = 0
    /\ row[req[p].user] # None
    /\ pending' = [pending EXCEPT ![req[p].user] = row[req[p].user].secret + 1]
    /\ End(p)
    /\ UNCHANGED <<tables, sess, watermark, chal, fails, maint, now, ghosts>>

\* `change_password` and `confirm_totp_reenrolment` read the row again, check what was
\* presented against it, and save the row whole
OwnRead(p) ==
    /\ At(p, {"password", "totp"}, "accepted")
    /\ req[p].op = "totp" => pending[req[p].user] # 0
    /\ IF Usable(row[req[p].user]) THEN Reads(p, req[p].user, "own") ELSE End(p)
    /\ UNCHANGED <<tables, store, maint, now, ghosts>>

OwnSave(p) ==
    /\ At(p, {"password", "totp"}, "own")
    /\ LET u == req[p].user
           r == req[p].row
       IN /\ save(p, u, IF req[p].op = "password" THEN [r EXCEPT !.pw = @ + 1]
                        ELSE [r EXCEPT !.secret = @ + 1, !.counter = now])
          /\ pending' = IF req[p].op = "totp" THEN [pending EXCEPT ![u] = 0] ELSE pending
    /\ UNCHANGED <<row, inv, codes, sess, watermark, chal, fails, maint, now, ghosts>>

\* `invalidate_others`: the watermark first, with the instant the kept session will carry
OwnMark(p) ==
    /\ At(p, {"password", "totp"}, "mark")
    /\ Advance
    /\ LET u == req[p].user IN
       /\ _set_watermark(u, now + 1)
       /\ Revokes(u, now + 1)
       /\ req' = [req EXCEPT ![p].stamp = now + 1, ![p].pc = "kept",
                             ![p].codes = IF req[p].op = "totp" THEN reissue_recovery_codes(p, u, now + 1)
                                          ELSE @]
    /\ UNCHANGED <<tables, sess, chal, pending, fails, maint, spent, rung>>

\* then the kept session is read, and written again as if created at that instant
ReadKept(p) ==
    /\ At(p, {"password", "totp"}, "kept")
    /\ LET e == sess[req[p].sid] IN
       req' = IF Live(e) THEN [req EXCEPT ![p].data = e, ![p].pc = "restamp"]
              ELSE [req EXCEPT ![p].pc = "commit"]
    /\ UNCHANGED <<tables, store, maint, now, ghosts>>

Restamped(p) == [req[p].data EXCEPT !.created = req[p].stamp]

Restamp(p) ==
    /\ At(p, {"password", "totp"}, "restamp")
    /\ _write(req[p].sid, Restamped(p), req[p].stamp)
    /\ Step(p, "commit")
    /\ UNCHANGED <<tables, watermark, chal, pending, fails, maint, now, spent, rung, revoked>>

-----------------------------------------------------------------------------
(* Administration, from the tailnet entrance *)

AdminOps == {"disable", "enable", "demote", "promote", "delete"}

\* `resolve_tailnet_actor`: an administrator's own row, read as the request begins
ActingAdmin(a) == Usable(row[a]) /\ row[a].role = "admin"

count_admins == Cardinality({u \in Users : Usable(row[u]) /\ row[u].role = "admin"})

_assert_not_last_admin(r) == r.off \/ count_admins > 1

Removes(op, r) == op \in {"disable", "demote", "delete"} /\ r.role = "admin"

\* `update`, `set_disabled` and `delete` to the write: nobody acts on themselves
AdminRead(p, a, u, op) ==
    /\ a # u /\ row[u] # None /\ ActingAdmin(a)
    /\ op \in AdminOps
    /\ (op = "demote" => row[u].role = "admin") /\ (op = "promote" => row[u].role = "user")
    /\ Removes(op, row[u]) => _assert_not_last_admin(row[u])
    /\ Begin(p, [NoReq EXCEPT !.op = op, !.pc = "write", !.user = u, !.row = row[u]])
    /\ UNCHANGED <<tables, store, maint, now, ghosts>>

\* Mutant: the edit form saves back the row it read
WholeRow(op, r) ==
    IF op \in {"disable", "enable"} THEN [off |-> op = "disable"]
    ELSE [r EXCEPT !.role = IF op = "demote" THEN "user" ELSE "admin"]
\* `update_profile` and `set_disabled` write their own columns only
EditedColumns(op, r) ==
    IF op \in {"disable", "enable"} THEN [off |-> op = "disable"]
    ELSE [role |-> IF op = "demote" THEN "user" ELSE "admin"]

\* `set_disabled` takes the instant its sessions die before it waits for the row, `delete`
\* before it touches any
Stamp(p) ==
    /\ At(p, {"disable", "delete"}, "write") /\ req[p].stamp = 0
    /\ Advance
    /\ req' = [req EXCEPT ![p].stamp = now + 1,
                          ![p].pc = IF req[p].op = "delete" THEN "mark" ELSE "write"]
    /\ UNCHANGED <<tables, store, maint, ghosts>>

AdminWrite(p) ==
    /\ At(p, AdminOps \ {"delete"}, "write")
    /\ req[p].op = "disable" => req[p].stamp # 0
    /\ Update(p, req[p].user, EditedColumns(req[p].op, req[p].row))
    /\ UNCHANGED <<row, inv, codes, store, maint, now, ghosts>>

invalidate_all(u, at) == _set_watermark(u, at)

\* a disabled, re-roled or deleted account's sessions end; a role change takes its instant here
Invalidate(p) ==
    /\ At(p, AdminOps, "mark")
    /\ LET r == req[p]
           at == IF r.stamp = 0 THEN now + 1 ELSE r.stamp
       IN /\ IF r.op = "enable" THEN UNCHANGED <<watermark, revoked, now>>
             ELSE /\ IF at > now THEN Advance ELSE UNCHANGED now
                  /\ invalidate_all(r.user, at) /\ Revokes(r.user, at)
          /\ Step(p, IF r.op = "delete" THEN "drop" ELSE "commit")
    /\ UNCHANGED <<tables, sess, chal, pending, fails, maint, spent, rung>>

\* `delete` goes on to the rows that reference the account, then the account
DeleteRow(p) ==
    /\ At(p, {"delete"}, "drop")
    /\ Free(p, req[p].user)
    /\ lock' = [lock EXCEPT ![req[p].user] = p]
    /\ Step(p, "commit")
    /\ UNCHANGED <<row, inv, codes, store, maint, now, ghosts>>

\* maintenance closes the entrances under a new epoch, and opens them again
EnterMaintenance ==
    /\ ~maint.closed /\ maint.epoch < MaxEpoch
    /\ maint' = [closed |-> TRUE, epoch |-> maint.epoch + 1]
    /\ UNCHANGED <<tables, store, req, now, ghosts>>

LeaveMaintenance ==
    /\ maint.closed
    /\ maint' = [maint EXCEPT !.closed = FALSE]
    /\ UNCHANGED <<tables, store, req, now, ghosts>>

-----------------------------------------------------------------------------
(* Invitations: an account's first credentials, and a link that replaces a password *)

\* an account's id is made for it
NewId(u) == /\ row[u] = None /\ Rows0[u] = None
            /\ \A x \in Tokens : inv[x] # None => inv[x].user # u

\* `claim`: the configured login becomes the first administrator of an empty installation
BootstrapClaim(u) ==
    /\ "bootstrap" \in Ops /\ (\A x \in Users : row[x] = None) /\ NewId(u)
    /\ row' = [row EXCEPT ![u] = Fresh("admin")]
    /\ UNCHANGED <<inv, codes, lock, store, maint, req, now, ghosts>>

Claiming(q, t) == req[q].pc \in {"claimed", "mark", "commit"} /\ req[q].token = t

\* `_issue`: earlier links of the kind that were not used are deleted with the new one's insert
Issued(u, t, kind) ==
    inv' = [x \in Tokens |->
              IF x = t THEN [user |-> u, kind |-> kind, state |-> "open", until |-> now + InvitationTtl]
              ELSE IF inv[x] # None /\ inv[x].user = u /\ inv[x].kind = kind /\ inv[x].state = "open"
                   THEN [inv[x] EXCEPT !.state = "gone"]
              ELSE inv[x]]

create_account(a, u, t) ==
    /\ "invite" \in Ops /\ ActingAdmin(a) /\ NewId(u) /\ inv[t] = None
    /\ row' = [row EXCEPT ![u] = Fresh("user")]
    /\ Issued(u, t, "onboard")
    /\ UNCHANGED <<codes, lock, store, maint, req, now, ghosts>>

\* `reissue_onboarding` and `issue_password_reset`, by what the account already has; a link
\* being claimed is waited for, and kept once it is used
Reissue(a, u, t) ==
    /\ "invite" \in Ops /\ ActingAdmin(a) /\ row[u] # None /\ inv[t] = None
    /\ \A q \in Procs, x \in Tokens : Claiming(q, x) => inv[x].user # u
    /\ Issued(u, t, IF can_use_public_entrance(row[u]) THEN "reset" ELSE "onboard")
    /\ UNCHANGED <<row, codes, lock, store, maint, req, now, ghosts>>

_require_invitation(t, kind) ==
    inv[t] # None /\ inv[t].kind = kind /\ inv[t].state = "open" /\ now < inv[t].until

\* `begin`: the pending secret of the account, made when there is none
BeginEnrolment(t) ==
    /\ "invite" \in Ops /\ _require_invitation(t, "onboard")
    /\ Usable(row[inv[t].user]) /\ ~can_use_public_entrance(row[inv[t].user])
    /\ pending[inv[t].user] = 0
    /\ pending' = [pending EXCEPT ![inv[t].user] = 1]
    /\ UNCHANGED <<tables, sess, watermark, chal, fails, maint, req, now, ghosts>>

\* `complete` and `consume_reset`, to the claim: the link, the account, the secret, the code
RedeemRead(p, t, op) ==
    /\ op \in {"onboard", "reset"} /\ _require_invitation(t, op)
    /\ LET u == inv[t].user IN
       /\ Usable(row[u])
       /\ op = "onboard" => ~can_use_public_entrance(row[u]) /\ pending[u] # 0
       /\ Begin(p, [NoReq EXCEPT !.op = op, !.pc = "link", !.user = u, !.token = t,
                                !.row = row[u], !.secret = pending[u]])
    /\ UNCHANGED <<tables, store, maint, now, ghosts>>

\* `consume`'s WHERE, on the link as committed when its lock is taken
consume(p, t) == inv[t].state = "open"

ClaimLink(p) ==
    /\ At(p, {"onboard", "reset"}, "link")
    /\ \A q \in Procs \ {p} : ~Claiming(q, req[p].token)
    /\ IF ~consume(p, req[p].token)
         THEN End(p) /\ UNCHANGED now
         ELSE /\ Advance
              /\ req' = [req EXCEPT ![p].stamp = now + 1, ![p].pc = "claimed"]
    /\ UNCHANGED <<tables, store, maint, ghosts>>

\* the row with the new password and, when onboarding, the proven secret and its counter
Redeemed(op, r, secret) ==
    IF op = "reset" THEN [r EXCEPT !.pw = @ + 1]
    ELSE [r EXCEPT !.pw = 1, !.secret = secret, !.counter = now]

RedeemSave(p) ==
    /\ At(p, {"onboard", "reset"}, "claimed")
    /\ save(p, req[p].user, Redeemed(req[p].op, req[p].row, req[p].secret))
    /\ UNCHANGED <<row, inv, codes, store, maint, now, ghosts>>

\* onboarding: the pending secret goes and the codes are issued; a reset: every session dies
RedeemMark(p) ==
    /\ At(p, {"onboard", "reset"}, "mark")
    /\ LET u == req[p].user IN
       IF req[p].op = "reset"
         THEN /\ invalidate_all(u, req[p].stamp)
              /\ Revokes(u, req[p].stamp)
              /\ Step(p, "commit") /\ UNCHANGED pending
         ELSE /\ pending' = [pending EXCEPT ![u] = 0]
              /\ req' = [req EXCEPT ![p].codes = reissue_recovery_codes(p, u, req[p].stamp), ![p].pc = "commit"]
              /\ UNCHANGED <<watermark, revoked>>
    /\ UNCHANGED <<tables, sess, chal, fails, maint, now, spent, rung>>

-----------------------------------------------------------------------------
Tick == /\ "tick" \in Ops /\ Advance
        /\ UNCHANGED <<tables, store, maint, req, ghosts>>

Sign(p) ==
    \/ \E u \in Users : LoginAllowed(p, u)
    \/ \E good \in BOOLEAN : verify_password(p, good)
    \/ \E c \in Procs : ReadChallenge(p, c)
    \/ DropChallenge(p) \/ VerifyCode(p) \/ ClaimTotp(p) \/ ClaimRecovery(p) \/ Admit(p)
    \/ \E s \in Sids : create(p, s)

OnOwn(p) ==
    \/ \E s \in Sids, op \in OnSession : ReadSession(p, s, op)
    \/ CheckSession(p) \/ RefreshSession(p) \/ ResolveActor(p) \/ Respond(p) \/ SignOut(p)
    \/ BeginReenrolment(p) \/ OwnRead(p) \/ OwnSave(p) \/ OwnMark(p) \/ ReadKept(p) \/ Restamp(p)

Administer(p) ==
    \/ \E a, u \in Users, op \in AdminOps : AdminRead(p, a, u, op)
    \/ Stamp(p) \/ AdminWrite(p) \/ Invalidate(p) \/ DeleteRow(p)

Invite ==
    \/ \E u \in Users : BootstrapClaim(u)
    \/ \E a, u \in Users, t \in Tokens : create_account(a, u, t) \/ Reissue(a, u, t)
    \/ \E t \in Tokens : BeginEnrolment(t)

Redeem(p) ==
    \/ \E t \in Tokens, op \in {"onboard", "reset"} : RedeemRead(p, t, op)
    \/ ClaimLink(p) \/ RedeemSave(p) \/ RedeemMark(p)

Next ==
    \/ \E p \in Procs : Sign(p) \/ OnOwn(p) \/ Administer(p) \/ Redeem(p) \/ Commit(p)
    \/ Invite \/ EnterMaintenance \/ LeaveMaintenance \/ WindowEnds \/ Tick

Spec == Init /\ [][Next]_vars

-----------------------------------------------------------------------------
(* Properties *)

TypeOK ==
    /\ row \in [Users -> Rows \union {None}]
    /\ \A s \in Sids : sess[s] # None => /\ sess[s].user \in Users /\ sess[s].created <= now
                                         /\ sess[s].expires <= sess[s].created + AbsoluteTtl
    /\ chal \in [Procs -> Users \union {None}]
    /\ lock \in [Users -> Procs \union {None}]
    /\ \A p \in Procs : req[p].pc = "idle" => \A u \in Users : lock[u] # p
    /\ \A u \in Users : codes[u] \subseteq 0..MaxNow
    /\ maint.epoch \in 0..MaxEpoch /\ now \in 1..MaxNow

Accepted(p) == At(p, OnSession, "accepted")
Login(s) == CHOOSE x \in spent : x.sid = s

\* A time-based code and a recovery code sign in once: two requests that present the same one at
\* the same moment, on the same or on another challenge, do not both get a session.  Asked where
\* no request saves the whole row: such a save may put the counter back.
CodeOnce ==
    \A x, y \in spent :
        /\ x.user = y.user /\ x.secret = y.secret /\ x.code = y.code
        => x.sid = y.sid

\* A request that begins once the watermark is written is not accepted on a session created before
\* it: not while the session's idle window is kept open by other requests, and not after the
\* watermark's own time to live.
RevokedStaysDead ==
    \A p \in Procs : Accepted(p) => req[p].data.created >= req[p].mark[req[p].user]

\* No request is accepted past the absolute lifetime of the sign-in, however often the session was
\* refreshed or re-stamped.
LifetimeHolds == \A p \in Procs : Accepted(p) => req[p].at < Login(req[p].sid).born + AbsoluteTtl

\* Nobody but an administrator is accepted on a sign-in that was let in before the latest
\* maintenance entry, the ones that raced the entry included.
MaintenanceSweeps ==
    \A p \in Procs : Accepted(p) /\ req[p].row.role # "admin" => Login(req[p].sid).epoch >= req[p].epoch

\* The operations that save the whole row as they read it before.
WholeRowOps == {"password", "totp", "onboard", "reset"}

\* This step is the commit of a request for u that is one of ops.
Commits(u, ops) ==
    \E p \in Procs : /\ req[p].user = u /\ At(p, ops, "commit") /\ req'[p] = NoReq

\* What an administrator committed is undone by the operation for it, or by the save of a whole row
\* read before (change_password and its like), and by nothing else: a disabled account is not
\* enabled, a role not given back and a deleted account not restored by an edit that read the row
\* earlier.
EditsStick ==
    \A u \in Users :
        /\ row[u] # None /\ row[u].off /\ row'[u] # None /\ ~row'[u].off
               => Commits(u, {"enable"} \union WholeRowOps)
        /\ row[u] # None /\ row'[u] # None /\ row'[u].role # row[u].role
               => Commits(u, {"promote", "demote"} \union WholeRowOps)
        /\ row[u] = None /\ row'[u] # None => NewId(u) \/ Commits(u, WholeRowOps)

\* A link replaces a password or makes an account once, also when it is redeemed twice at the same
\* moment or while a new one is being issued.
LinkOnce == \A t \in Tokens : rung[t] <= 1

\* An account never has a password without a second factor, or a second factor without a password.
EnrolledWhole == \A u \in Users : row[u] # None => (row[u].pw = 0) = (row[u].secret = 0)

\* The recovery codes on record are one set, the last one issued.
OneRecoverySet == \A u \in Users : Cardinality(codes[u]) <= 1

\* The failures recorded against an account, and against an address, pass their ceilings by the
\* requests that were already past the check and no more.
FailuresBounded ==
    /\ \A u \in Users : fails.pair[u] <= FREE_ATTEMPTS + Cardinality(Procs)
    /\ fails.ip <= IP_FREE_ATTEMPTS + Cardinality(Procs)

====
