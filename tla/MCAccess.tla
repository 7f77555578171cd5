------------------------------ MODULE MCAccess ------------------------------
(***************************************************************************)
(* Who gets in, and what they may do: accounts, sessions and links of the   *)
(* people who administer the platform (Accounts), the keys, rates and       *)
(* quotas of the programs that use it (GatewayAccess), and the roles behind *)
(* the administrative entrances (Authority).  A behaviour is one of an      *)
(* instance of the first two, or a scenario of Authority: which of its      *)
(* routes are called, and how often.                                        *)
(***************************************************************************)
EXTENDS Authority, TLC

CONSTANTS p1, p2, s1, s2, t1, t2, t3, r1, r2, a1, a2

VARIABLES
    part,  \* the instance a behaviour is one of
    \* Accounts
    row, sess, watermark, chal, pending, fails, maint, inv, codes, lock, request, now,
    spent, rung, revoked,
    \* GatewayAccess (with now, row, spent, request)
    fresh, open, hits, edit, issued, paced

besides == <<row, sess, watermark, chal, pending, fails, maint, inv, codes, lock, request,
        now, spent, rung, revoked, fresh, open, hits, edit, issued, paced>>

\* Requests, administrators, sessions and links each play the same part.
Symmetry ==
    Permutations({p1, p2}) \cup Permutations({r1, r2}) \cup Permutations({a1, a2})

Account(role) == [role |-> role, off |-> FALSE, pw |-> 1, secret |-> 1, counter |-> 0]

\* Two tenants: one with an administrator of it and a member, one with an administrator of
\* the platform; an id nobody has yet.
Staff ==
    [p \in People |-> CASE p = "amy" -> [role |-> "tenant_admin", tenant |-> "east", state |-> "on"]
                       [] p = "ben" -> [role |-> "admin", tenant |-> "west", state |-> "on"]
                       [] p = "cal" -> [role |-> "user", tenant |-> "east", state |-> "on"]
                       [] OTHER -> [role |-> "user", tenant |-> "east", state |-> "absent"]]
Kept ==
    {[of |-> o, tenant |-> "east", owner |-> p] :
        o \in {"usage", "refusal", "transcript", "key"}, p \in {"cal"}}
    \cup {[of |-> "usage", tenant |-> "west", owner |-> "ben"],
          [of |-> "template", tenant |-> "east", owner |-> None],
          [of |-> "template", tenant |-> "west", owner |-> None]}

\* Two requests that grant and take away; one of any route.
Scenarios ==
    [grants |-> {r \in Routes : r.does \in {"invite", "edit", "delete", "found", "issue"}},
     every  |-> Routes]
InPart ==
    /\ \A q \in Requests : req[q].pc # "idle" => req[q].route \in Scenarios[part]
    /\ part = "every" => arrivals <= 1

\* nobody yet, one member, and a member under an administrator
Empty == [u \in {"root", "ann"} |-> None]
Member == [u \in {"ann"} |-> Account("user")]
Administered == [u \in {"root", "ann"} |-> Account(IF u = "root" THEN "admin" ELSE "user")]

Nobody == [s \in {} |-> None]
AnnIsIn == [s \in {s1} |-> "ann"]

SignIn == INSTANCE Accounts WITH req <- request, Users <- {"ann"}, Procs <- {p1, p2},
    Sids <- {s1, s2}, Tokens <- {}, Rows0 <- Member, SignedIn <- Nobody,
    Ops <- {"login", "factor", "window", "wrong", "recovery"}, AbsoluteTtl <- 3,
    IdleTtl <- 2, InvitationTtl <- 4, FREE_ATTEMPTS <- 1, IP_FREE_ATTEMPTS <- 2,
    SKEW_STEPS <- 1, MaxNow <- 3, MaxEpoch <- 0
Revocation == INSTANCE Accounts WITH req <- request, Users <- {"root", "ann"},
    Procs <- {p1, p2}, Sids <- {s1}, Tokens <- {}, Rows0 <- Administered,
    SignedIn <- AnnIsIn, Ops <- {"use", "promote", "disable", "enable", "tick"},
    AbsoluteTtl <- 3, IdleTtl <- 2, InvitationTtl <- 4, FREE_ATTEMPTS <- 1,
    IP_FREE_ATTEMPTS <- 2, SKEW_STEPS <- 0, MaxNow <- 5, MaxEpoch <- 0
Own == INSTANCE Accounts WITH req <- request, Users <- {"ann"}, Procs <- {p1, p2},
    Sids <- {s1}, Tokens <- {}, Rows0 <- Member, SignedIn <- AnnIsIn,
    Ops <- {"use", "logout", "password", "totp", "tick"}, AbsoluteTtl <- 2, IdleTtl <- 2,
    InvitationTtl <- 4, FREE_ATTEMPTS <- 1, IP_FREE_ATTEMPTS <- 2, SKEW_STEPS <- 0,
    MaxNow <- 4, MaxEpoch <- 0
Closed == INSTANCE Accounts WITH req <- request, Users <- {"ann"}, Procs <- {p1, p2},
    Sids <- {s1}, Tokens <- {}, Rows0 <- Member, SignedIn <- Nobody,
    Ops <- {"login", "factor", "use"}, AbsoluteTtl <- 4, IdleTtl <- 3, InvitationTtl <- 4,
    FREE_ATTEMPTS <- 1, IP_FREE_ATTEMPTS <- 2, SKEW_STEPS <- 0, MaxNow <- 5, MaxEpoch <- 2
Edits == INSTANCE Accounts WITH req <- request, Users <- {"root", "ann"},
    Procs <- {p1, p2}, Sids <- {s1}, Tokens <- {}, Rows0 <- Administered,
    SignedIn <- AnnIsIn,
    Ops <- {"disable", "enable", "demote", "promote", "delete", "password", "totp"},
    AbsoluteTtl <- 3, IdleTtl <- 2, InvitationTtl <- 4, FREE_ATTEMPTS <- 1,
    IP_FREE_ATTEMPTS <- 2, SKEW_STEPS <- 0, MaxNow <- 3, MaxEpoch <- 0
Links == INSTANCE Accounts WITH req <- request, Users <- {"root", "ann"},
    Procs <- {p1, p2}, Sids <- {}, Tokens <- {t1, t2, t3}, Rows0 <- Empty,
    SignedIn <- Nobody, Ops <- {"bootstrap", "invite", "onboard", "reset"},
    AbsoluteTtl <- 3, IdleTtl <- 2, InvitationTtl <- 4, FREE_ATTEMPTS <- 1,
    IP_FREE_ATTEMPTS <- 2, SKEW_STEPS <- 0, MaxNow <- 5, MaxEpoch <- 0
Rate == INSTANCE GatewayAccess WITH req <- request, Keys <- {"key"}, Requests <- {r1, r2},
    Admins <- {}, Capabilities <- {"chat"}, Rpms <- {1}, Quotas <- {9},
    Lifetimes <- {2, 13}, DebugWindows <- {0}, Second <- 1, Minute <- 2, Day <- 3,
    MaxLifetime <- 9, MaxDebug <- 2, MaxCost <- 1, EditFields <- {},
    Events <- {"maintenance", "revoke"}, MaxNow <- 3, MaxIssued <- 4
Quota == INSTANCE GatewayAccess WITH req <- request, Keys <- {"key"}, Requests <- {r1, r2},
    Admins <- {}, Capabilities <- {"chat"}, Rpms <- {9}, Quotas <- {2}, Lifetimes <- {9},
    DebugWindows <- {0}, Second <- 1, Minute <- 9, Day <- 3, MaxLifetime <- 9,
    MaxDebug <- 2, MaxCost <- 2, EditFields <- {}, Events <- {}, MaxNow <- 4, MaxIssued <- 3
KeyEdits == INSTANCE GatewayAccess WITH req <- request, Keys <- {"key"}, Requests <- {},
    Admins <- {a1, a2}, Capabilities <- {"chat", "code"}, Rpms <- {0, 1}, Quotas <- {1},
    Lifetimes <- {0, 2}, DebugWindows <- {0, 1, 3}, Second <- 1, Minute <- 2, Day <- 3,
    MaxLifetime <- 2, MaxDebug <- 2, MaxCost <- 1,
    EditFields <- {"scopes", "default", "expires"},
    Events <- {"revoke", "delete", "debug"}, MaxNow <- 1, MaxIssued <- 0

ASSUME SignIn!AccountsAssumption /\ Revocation!AccountsAssumption /\ Own!AccountsAssumption
ASSUME Closed!AccountsAssumption /\ Edits!AccountsAssumption /\ Links!AccountsAssumption
ASSUME Rate!AccessAssumption /\ Quota!AccessAssumption /\ KeyEdits!AccessAssumption
ASSUME AuthorityAssumption

\* A component outside the part has no state, and nothing of it moves.
BesideAccounts == <<fresh, open, hits, edit, issued, paced>>
OnlyAccounts ==
    /\ fresh = "none" /\ open = "none" /\ hits = "none" /\ edit = "none" /\ issued = "none"
    /\ paced = "none"
BesideGateway == <<sess, watermark, chal, pending, fails, maint, inv, codes, lock, rung,
        revoked>>
OnlyGateway ==
    /\ sess = "none" /\ watermark = "none" /\ chal = "none" /\ pending = "none"
    /\ fails = "none" /\ maint = "none" /\ inv = "none" /\ codes = "none" /\ lock = "none"
    /\ rung = "none" /\ revoked = "none"

PartInit ==
    /\ Init
    /\ \/ part \in DOMAIN Scenarios
          /\ row = "none" /\ sess = "none" /\ watermark = "none" /\ chal = "none" /\ pending = "none" /\ fails = "none"
          /\ maint = "none" /\ inv = "none" /\ codes = "none" /\ lock = "none" /\ request = "none" /\ now = "none"
          /\ spent = "none" /\ rung = "none" /\ revoked = "none" /\ fresh = "none" /\ open = "none" /\ hits = "none"
          /\ edit = "none" /\ issued = "none" /\ paced = "none"
       \/ part = "sign_in" /\ SignIn!Init /\ OnlyAccounts
       \/ part = "revoke" /\ Revocation!Init /\ OnlyAccounts
       \/ part = "own" /\ Own!Init /\ OnlyAccounts
       \/ part = "closed" /\ Closed!Init /\ OnlyAccounts
       \/ part = "edits" /\ Edits!Init /\ OnlyAccounts
       \/ part = "links" /\ Links!Init /\ OnlyAccounts
       \/ part = "rate" /\ Rate!Init /\ OnlyGateway
       \/ part = "quota" /\ Quota!Init /\ OnlyGateway
       \/ part = "keys" /\ KeyEdits!Init /\ OnlyGateway

PartNext ==
    \/ part \in DOMAIN Scenarios /\ Next /\ UNCHANGED <<part, besides>> /\ InPart'
    \/ part = "sign_in" /\ SignIn!Next /\ UNCHANGED <<part, vars, BesideAccounts>>
    \/ part = "revoke" /\ Revocation!Next /\ UNCHANGED <<part, vars, BesideAccounts>>
    \/ part = "own" /\ Own!Next /\ UNCHANGED <<part, vars, BesideAccounts>>
    \/ part = "closed" /\ Closed!Next /\ UNCHANGED <<part, vars, BesideAccounts>>
    \/ part = "edits" /\ Edits!Next /\ UNCHANGED <<part, vars, BesideAccounts>>
    \/ part = "links" /\ Links!Next /\ UNCHANGED <<part, vars, BesideAccounts>>
    \/ part = "rate" /\ Rate!Next /\ UNCHANGED <<part, vars, BesideGateway>>
    \/ part = "quota" /\ Quota!Next /\ UNCHANGED <<part, vars, BesideGateway>>
    \/ part = "keys" /\ KeyEdits!Next /\ UNCHANGED <<part, vars, BesideGateway>>

PartSpec == PartInit /\ [][PartNext]_<<part, vars, besides>>

\* A code, a recovery code and a link work once, guesses are bounded and an
\* account is enrolled whole; a session ended by a revocation, by its lifetime
\* or by a maintenance entry is accepted no more: CodeOnce, FailuresBounded,
\* LinkOnce, EnrolledWhole, RevokedStaysDead, LifetimeHolds, OneRecoverySet and
\* MaintenanceSweeps of Accounts.
AccountsHold ==
    /\ part = "sign_in" => SignIn!TypeOK /\ SignIn!CodeOnce /\ SignIn!FailuresBounded
    /\ part = "links" => Links!TypeOK /\ Links!LinkOnce /\ Links!EnrolledWhole
    /\ part = "revoke" => Revocation!RevokedStaysDead
    /\ part = "own" => Own!LifetimeHolds /\ Own!OneRecoverySet
    /\ part = "closed" => Closed!MaintenanceSweeps

\* What an edit in flight read earlier undoes nothing that was committed meanwhile,
\* unless it is a save of the whole row, nor brings back a revoked key, and what it
\* commits is of its actor's tenant: EditsStick of Accounts, RevokeSticks of
\* GatewayAccess, ChangesStayHome of Authority.
StaysOff ==
    [][/\ part = "edits" => Edits!EditsStick
       /\ part = "keys" => KeyEdits!RevokeSticks
       /\ part \in DOMAIN Scenarios => ChangesStayHome]_<<part, vars, besides>>

\* Rate and quota are passed by the requests in flight together and no more, the
\* wait a refusal announces is enough, and a key's default is one of its own
\* capabilities: RateBounded, QuotaOvershoot, WaitSuffices and DefaultIssued of
\* GatewayAccess.
LimitsHold ==
    /\ part = "rate" => Rate!TypeOK /\ Rate!RateBounded
    /\ part = "quota" => Quota!QuotaOvershoot /\ Quota!WaitSuffices
    /\ part = "keys" => KeyEdits!DefaultIssued
==============================================================================
