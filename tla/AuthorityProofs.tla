---------------------------- MODULE AuthorityProofs ----------------------------
(***************************************************************************)
(* Authority never grows inside a tenant, nothing crosses a tenant, and a   *)
(* key never outlives its owner, for any accounts, rows, routes and number  *)
(* of requests.                                                             *)
(***************************************************************************)
EXTENDS Authority, FiniteSetTheorems, TLAPS

\* A plan with its fields, within its actor's tenant and what was held there.
PlanBounded(a, route, plan) ==
    /\ DOMAIN plan = PlanFields
    /\ plan.change \in {"create", "edit", "found"} =>
         plan.grant \in Roles /\ plan.stamp \in Tenants /\ Within(plan.stamp, plan.grant)
    /\ plan.change = "edit" => plan.state \in {None, "on", "off"}
    /\ plan.change \in {"create", "edit", "delete"} => plan.stamp = a.tenant
    /\ \A x \in plan.shown : x.tenant \in {None, a.tenant}
    /\ \A x \in plan.adds \cup plan.drops : x.tenant \in {None, a.tenant} \/ route.does = "purge"

\* What a role confers within a role that was held was held.
LEMMA HeldWithin ==
  ASSUME NEW tenant, NEW role, NEW wider, Within(tenant, wider),
         ROLE_SCOPES[role] \subseteq ROLE_SCOPES[wider]
  PROVE  Within(tenant, role)
  BY DEF Within

\* A step that changes one request, and nothing else the invariant speaks of, keeps it.
LEMMA OneRequest ==
  ASSUME PowerInv, NEW q \in Requests, DOMAIN req' = Requests,
         \A o \in Requests \ {q} : req'[o] = req[o],
         Shaped(req'[q]), req'[q].pc # "idle", Bounded(req'[q]), UNCHANGED <<account, tenants>>
  PROVE  PowerInv'
<1>1. \A o \in Requests : Shaped(req'[o]) /\ (req'[o].pc # "idle" => Bounded(req'[o]))
                           /\ (req'[o].pc = "idle" => req'[o].plan = NoPlan)
  BY DEF PowerInv
<1>2. PowerStays'
  BY DEF PowerInv, PowerStays, Live
<1> QED  BY <1>1, <1>2 DEF PowerInv

\* So does a handler that plans within its actor's bounds.
LEMMA PlanKept ==
  ASSUME PowerInv, NEW q \in Requests, NEW plan, req[q].pc = "arrived",
         PlanBounded(req[q].actor, req[q].route, plan), Planned(q, plan)
  PROVE  PowerInv'
<1>1. DOMAIN req = Requests /\ Shaped(req[q]) /\ Bounded(req[q])
  BY DEF PowerInv
<1>2. /\ DOMAIN req' = Requests
      /\ \A o \in Requests \ {q} : req'[o] = req[o]
      /\ DOMAIN req'[q] = {"pc", "actor", "route", "plan"}
      /\ req'[q].pc = "noting" /\ req'[q].plan = plan
      /\ req'[q].actor = req[q].actor /\ req'[q].route = req[q].route
  BY <1>1 DEF Planned, Shaped
<1>3. Shaped(req'[q])
  BY <1>2 DEF PlanBounded, Shaped
<1>4. Bounded(req'[q])
  BY <1>1, <1>2 DEF PlanBounded, Bounded
<1> QED  BY <1>2, <1>3, <1>4, OneRequest DEF Planned

\* What an actor's repositories read is of its tenant or of the platform.
LEMMA ReachedRows ==
  ASSUME NEW a, NEW of, NEW x \in Of(a, of)
  PROVE  x.tenant \in {None, a.tenant}
  BY DEF Of, Reach

\* A use case that only shows what it read, or only notes, plans within its bounds.
LEMMA ShowsKept ==
  ASSUME PowerInv, NEW q \in Requests, NEW shown, NEW notes, req[q].pc = "arrived",
         \A x \in shown : x.tenant \in {None, req[q].actor.tenant}, Shows(q, shown, notes)
  PROVE  PowerInv'
<1>1. PICK plan : plan = [NoPlan EXCEPT !.shown = shown, !.notes = notes]
  OBVIOUS
<1>2. /\ DOMAIN plan = PlanFields /\ plan.change = "none"
      /\ plan.shown = shown /\ plan.adds = {} /\ plan.drops = {}
  BY <1>1 DEF NoPlan, PlanFields
<1>3. PlanBounded(req[q].actor, req[q].route, plan)
  BY <1>2 DEF PlanBounded
<1> QED  BY <1>1, <1>3, PlanKept DEF Shows, Plans
\* An arriving request acts as the account it arrives with.
LEMMA ArriveKept ==
  ASSUME PowerInv, NEW q \in Requests, NEW p \in People, NEW r, Arrive(q, p, r)
  PROVE  PowerInv'
<1>1. /\ DOMAIN req = Requests /\ account[p].tenant \in Tenants
      /\ Within(account[p].tenant, account[p].role)
  BY DEF PowerInv, PowerStays, Live, Arrive, AccountType
<1>2. /\ DOMAIN req' = Requests
      /\ \A o \in Requests \ {q} : req'[o] = req[o]
      /\ req'[q] = [pc |-> "arrived", actor |-> Actor(p), route |-> r, plan |-> NoPlan]
  BY <1>1 DEF Arrive
<1>3. Shaped(req'[q])
  BY <1>2 DEF Shaped, NoPlan, PlanFields
<1>4. Bounded(req'[q])
  BY <1>1, <1>2 DEF Bounded, NoPlan, Actor
<1>5. UNCHANGED <<account, tenants>> /\ req'[q].pc # "idle"
  BY <1>2 DEF Arrive
<1> QED  BY <1>2, <1>3, <1>4, <1>5, OneRequest

\* A step that only moves a request along, or takes a note from its plan, keeps the invariant.
LEMMA MovedKept ==
  ASSUME PowerInv, NEW q \in Requests, req[q].pc # "idle", req'[q].pc # "idle",
         DOMAIN req' = Requests, \A o \in Requests \ {q} : req'[o] = req[o], Shaped(req'[q]),
         req'[q].actor = req[q].actor, req'[q].route = req[q].route,
         req'[q].plan.change = req[q].plan.change, req'[q].plan.grant = req[q].plan.grant,
         req'[q].plan.state = req[q].plan.state, req'[q].plan.stamp = req[q].plan.stamp,
         req'[q].plan.adds = req[q].plan.adds, req'[q].plan.drops = req[q].plan.drops,
         req'[q].plan.shown = req[q].plan.shown, UNCHANGED <<account, tenants>>
  PROVE  PowerInv'
<1>1. Bounded(req[q])
  BY DEF PowerInv
<1>2. Bounded(req'[q])
  BY <1>1 DEF Bounded
<1> QED  BY <1>2, OneRequest

LEMMA RefuseKept ==
  ASSUME PowerInv, NEW q \in Requests, Refuse(q) \/ CommitFails(q)
  PROVE  PowerInv'
<1>1. DOMAIN req = Requests /\ Shaped(req[q]) /\ req[q].pc # "idle"
  BY DEF PowerInv, Refuse, CommitFails
<1>2. /\ DOMAIN req' = Requests
      /\ \A o \in Requests \ {q} : req'[o] = req[o]
      /\ DOMAIN req'[q] = {"pc", "actor", "route", "plan"}
      /\ req'[q].pc \in {"refused", "failed"} /\ req'[q].plan = req[q].plan
      /\ req'[q].actor = req[q].actor /\ req'[q].route = req[q].route
  BY <1>1 DEF Refuse, CommitFails, Shaped
<1>3. Shaped(req'[q]) /\ req'[q].pc # "idle" /\ UNCHANGED <<account, tenants>>
  BY <1>1, <1>2 DEF Shaped, Refuse, CommitFails
<1> QED  BY <1>1, <1>2, <1>3, MovedKept

LEMMA RecordKept ==
  ASSUME PowerInv, NEW q \in Requests, NEW note, Record(q, note)
  PROVE  PowerInv'
<1>1. DOMAIN req = Requests /\ Shaped(req[q]) /\ req[q].pc # "idle"
  BY DEF PowerInv, Record
<1>2. /\ DOMAIN req' = Requests
      /\ \A o \in Requests \ {q} : req'[o] = req[o]
      /\ DOMAIN req'[q] = {"pc", "actor", "route", "plan"} /\ DOMAIN req'[q].plan = PlanFields
      /\ req'[q].pc = req[q].pc /\ req'[q].actor = req[q].actor /\ req'[q].route = req[q].route
      /\ req'[q].plan.change = req[q].plan.change /\ req'[q].plan.grant = req[q].plan.grant
      /\ req'[q].plan.state = req[q].plan.state /\ req'[q].plan.stamp = req[q].plan.stamp
      /\ req'[q].plan.adds = req[q].plan.adds /\ req'[q].plan.drops = req[q].plan.drops
      /\ req'[q].plan.shown = req[q].plan.shown
  BY <1>1 DEF Record, Shaped, PlanFields
<1>3. Shaped(req'[q]) /\ req'[q].pc # "idle" /\ UNCHANGED <<account, tenants>>
  BY <1>1, <1>2 DEF Shaped, Record
<1> QED  BY <1>1, <1>2, <1>3, MovedKept

\* What a commit writes of an account is what its request planned, in that request's tenant.
LEMMA CommitKept ==
  ASSUME PowerInv, NEW q \in Requests, Commit(q)
  PROVE  PowerInv'
<1> DEFINE plan == req[q].plan
<1>1. /\ DOMAIN req = Requests /\ Shaped(req[q]) /\ Bounded(req[q]) /\ req[q].pc = "noting"
      /\ account \in [People -> AccountType] /\ PowerStays /\ Tenants0 \subseteq tenants
  BY DEF PowerInv, Commit
<1>2. /\ DOMAIN req' = Requests
      /\ \A o \in Requests \ {q} : req'[o] = req[o]
      /\ DOMAIN req'[q] = {"pc", "actor", "route", "plan"}
      /\ req'[q].pc = "answered" /\ req'[q].plan = req[q].plan
      /\ req'[q].actor = req[q].actor /\ req'[q].route = req[q].route
  BY <1>1 DEF Commit, Shaped
<1>3. \A o \in Requests : Shaped(req'[o]) /\ (req'[o].pc # "idle" => Bounded(req'[o]))
                           /\ (req'[o].pc = "idle" => req'[o].plan = NoPlan)
  BY <1>1, <1>2 DEF PowerInv, Shaped, Bounded
<1>4. Tenants0 \subseteq tenants'
  BY <1>1 DEF Commit
<1>5. account' = Written(plan)
  BY DEF Commit
<1>6. account' \in [People -> AccountType] /\ PowerStays'
  <2>1. CASE plan.change \in {"create", "found"}
    <3>1. account' = [account EXCEPT ![plan.about] =
                        [role |-> plan.grant, tenant |-> plan.stamp, state |-> "on"]]
      BY <1>5, <2>1 DEF Written
    <3>2. plan.grant \in Roles /\ plan.stamp \in Tenants /\ Within(plan.stamp, plan.grant)
      BY <1>1, <2>1 DEF Bounded
    <3> QED  BY <1>1, <3>1, <3>2 DEF AccountType, PowerStays, Live
  <2>2. CASE plan.change = "edit" /\ Live(plan.about) /\ account[plan.about].tenant = plan.stamp
    <3>1. account' = [account EXCEPT ![plan.about].role = plan.grant,
                                     ![plan.about].state = IF plan.state = None THEN @ ELSE plan.state]
      BY <1>5, <2>2 DEF Written
    <3>2. plan.grant \in Roles /\ plan.stamp \in Tenants /\ Within(plan.stamp, plan.grant)
          /\ plan.state \in {None, "on", "off"}
      BY <1>1, <2>2 DEF Bounded
    <3>3. account' \in [People -> AccountType]
      BY <1>1, <3>1, <3>2 DEF AccountType
    <3>4. \A p \in People : \/ account'[p] = account[p]
                            \/ account'[p].tenant = plan.stamp /\ account'[p].role = plan.grant
      BY <1>1, <2>2, <3>1 DEF AccountType
    <3> QED  BY <1>1, <3>2, <3>3, <3>4 DEF PowerStays, Live
  <2>3. CASE plan.change = "delete" /\ account[plan.about].tenant = plan.stamp
    <3>1. account' = [account EXCEPT ![plan.about].state = "absent"]
      BY <1>5, <2>3 DEF Written
    <3>2. account' \in [People -> AccountType]
      BY <1>1, <3>1 DEF AccountType
    <3>3. \A p \in People : account'[p] = account[p] \/ account'[p].state = "absent"
      BY <1>1, <3>1 DEF AccountType
    <3> QED  BY <1>1, <3>2, <3>3 DEF PowerStays, Live
  <2>4. CASE account' = account
    BY <1>1, <2>4 DEF PowerStays, Live
  <2> QED  BY <1>5, <2>1, <2>2, <2>3, <2>4 DEF Written
<1> QED  BY <1>2, <1>3, <1>4, <1>6 DEF PowerInv
\* Every read shows rows its actor's repositories reached.
LEMMA ReadsKept ==
  ASSUME PowerInv, NEW q \in Requests,
         \/ List(q) \/ ReadOne(q) \/ ReadOwn(q) \/ list_visible(q) \/ read_transcript(q)
         \/ \E asked \in People \cup {None} : ReadAny(q, asked)
  PROVE  PowerInv'
<1> DEFINE a == req[q].actor
<1>1. \A of : \A x \in Of(a, of) : x.tenant \in {None, a.tenant}
  BY ReachedRows
<1>2. \A of, p : OwnedBy(a, of, p) \subseteq Of(a, of)
  BY DEF OwnedBy
<1>3. CASE List(q)
  BY <1>1, <1>3, ShowsKept DEF List, Handling
<1>4. CASE ReadOwn(q)
  BY <1>1, <1>2, <1>4, ShowsKept DEF ReadOwn, Handling
<1>0. CASE ReadOne(q)
  <2>1. PICK x \in Of(a, req[q].route.of) : Shows(q, {x}, {})
    BY <1>0 DEF ReadOne
  <2> QED  BY <1>0, <1>1, <2>1, ShowsKept DEF ReadOne, Handling
<1>5. CASE list_visible(q)
  BY <1>1, <1>2, <1>5, ShowsKept DEF list_visible, Handling
<1>6. CASE read_transcript(q)
  <2>1. PICK x \in Of(a, "transcript") : Shows(q, {x}, Note(q, x.owner))
    BY <1>6 DEF read_transcript
  <2> QED  BY <1>1, <1>6, <2>1, ShowsKept DEF read_transcript, Handling
<1>7. CASE \E asked \in People \cup {None} : ReadAny(q, asked)
  <2>1. PICK asked \in People \cup {None} : ReadAny(q, asked)
    BY <1>7
  <2> DEFINE about == IF Wide(q) THEN asked ELSE a.id
             shown == IF about = None THEN Of(a, req[q].route.of)
                      ELSE OwnedBy(a, req[q].route.of, about)
             notes == IF Wide(q) /\ about # a.id THEN Note(q, about) ELSE {}
  <2>2. Shows(q, shown, notes) /\ req[q].pc = "arrived"
    BY <2>1 DEF ReadAny, Handling
  <2>3. \A x \in shown : x.tenant \in {None, a.tenant}
    BY <1>1, <1>2
  <2> QED  BY <2>2, <2>3, ShowsKept
<1> QED  BY <1>0, <1>3, <1>4, <1>5, <1>6, <1>7

\* A handler that only notes what it did, or shows the key it changed.
LEMMA NotesKept ==
  ASSUME PowerInv, NEW q \in Requests,
         \/ Change(q) \/ Probe(q) \/ change_key(q) \/ \E p \in People : Touch(q, p)
  PROVE  PowerInv'
<1>1. CASE Change(q) \/ Probe(q)
  BY <1>1, ShowsKept DEF Change, Probe, Handling
<1>2. CASE change_key(q)
  <2>1. PICK x \in Of(req[q].actor, "key") : Shows(q, {x}, Note(q, x.owner))
    BY <1>2 DEF change_key
  <2>2. x.tenant \in {None, req[q].actor.tenant}
    BY ReachedRows
  <2> QED  BY <1>2, <2>1, <2>2, ShowsKept DEF change_key, Handling
<1>3. CASE \E p \in People : Touch(q, p)
  BY <1>3, ShowsKept DEF Touch, Handling
<1> QED  BY <1>1, <1>2, <1>3

\* A plan that only brings or drops rows of the actor's tenant.
LEMMA RowsKept ==
  ASSUME PowerInv, NEW q \in Requests, NEW plan, req[q].pc = "arrived",
         DOMAIN plan = PlanFields, plan.change \in {"none", "issue"}, plan.shown = {},
         \A x \in plan.adds \cup plan.drops :
           x.tenant \in {None, req[q].actor.tenant} \/ req[q].route.does = "purge",
         Planned(q, plan)
  PROVE  PowerInv'
<1>1. PlanBounded(req[q].actor, req[q].route, plan)
  BY DEF PlanBounded
<1> QED  BY <1>1, PlanKept

LEMMA ContentKept ==
  ASSUME PowerInv, NEW q \in Requests,
         \/ Add(q) \/ Remove(q) \/ Use(q) \/ Purge(q) \/ \E p \in People : issue_key(q, p)
  PROVE  PowerInv'
<1>1. Content(q).tenant \in {None, req[q].actor.tenant}
  BY DEF Content, Stamp
<1>2. CASE Add(q)
  <2>1. PICK plan : plan = [NoPlan EXCEPT !.adds = {Content(q)}, !.notes = Note(q, None)]
    OBVIOUS
  <2>2. /\ DOMAIN plan = PlanFields /\ plan.change = "none" /\ plan.shown = {}
        /\ plan.adds = {Content(q)} /\ plan.drops = {}
    BY <2>1 DEF NoPlan, PlanFields
  <2> QED  BY <1>1, <1>2, <2>1, <2>2, RowsKept DEF Add, Handling, Plans
<1>3. CASE Remove(q)
  <2>1. PICK plan : plan = [NoPlan EXCEPT !.drops = {Content(q)}, !.notes = Note(q, None)]
    OBVIOUS
  <2>2. /\ DOMAIN plan = PlanFields /\ plan.change = "none" /\ plan.shown = {}
        /\ plan.drops = {Content(q)} /\ plan.adds = {}
    BY <2>1 DEF NoPlan, PlanFields
  <2> QED  BY <1>1, <1>3, <2>1, <2>2, RowsKept DEF Remove, Handling, Plans
<1>4. CASE Use(q)
  <2> DEFINE x == [of |-> "usage", tenant |-> req[q].actor.tenant, owner |-> req[q].actor.id]
  <2>1. PICK plan : plan = [NoPlan EXCEPT !.adds = {x}]
    OBVIOUS
  <2>2. /\ DOMAIN plan = PlanFields /\ plan.change = "none" /\ plan.shown = {}
        /\ plan.adds = {x} /\ plan.drops = {}
    BY <2>1 DEF NoPlan, PlanFields
  <2>3. req[q].pc = "arrived" /\ Planned(q, plan)
    BY <1>4, <2>1 DEF Use, Handling, Plans
  <2>4. \A y \in plan.adds \cup plan.drops : y.tenant = req[q].actor.tenant
    BY <2>2
  <2> QED  BY <2>2, <2>3, <2>4, RowsKept
<1>5. CASE Purge(q)
  <2>1. PICK old \in SUBSET {x \in rows : x.of = req[q].route.of} :
          Plans(q, [NoPlan EXCEPT !.drops = old, !.notes = Note(q, None)])
    BY <1>5 DEF Purge
  <2>2. PICK plan : plan = [NoPlan EXCEPT !.drops = old, !.notes = Note(q, None)]
    OBVIOUS
  <2>3. DOMAIN plan = PlanFields /\ plan.change = "none" /\ plan.shown = {}
    BY <2>2 DEF NoPlan, PlanFields
  <2>4. req[q].route.does = "purge" /\ req[q].pc = "arrived"
    BY <1>5 DEF Purge, Handling
  <2> QED  BY <2>1, <2>2, <2>3, <2>4, RowsKept DEF Plans
<1>6. CASE \E p \in People : issue_key(q, p)
  <2>1. PICK p \in People : issue_key(q, p)
    BY <1>6
  <2>2. PICK plan : plan = [NoPlan EXCEPT !.change = "issue", !.about = p,
                               !.adds = {KeyOf(req[q].actor, p)}, !.notes = Note(q, p)]
    OBVIOUS
  <2>3. /\ DOMAIN plan = PlanFields /\ plan.change = "issue" /\ plan.shown = {}
        /\ plan.adds = {KeyOf(req[q].actor, p)} /\ plan.drops = {}
    BY <2>2 DEF NoPlan, PlanFields
  <2>4. KeyOf(req[q].actor, p).tenant = req[q].actor.tenant
    BY DEF KeyOf
  <2>5. req[q].pc = "arrived" /\ Planned(q, plan)
    BY <2>1, <2>2 DEF issue_key, Handling, Plans
  <2>6. \A x \in plan.adds \cup plan.drops : x.tenant = req[q].actor.tenant
    BY <2>3, <2>4
  <2> QED  BY <2>3, <2>5, <2>6, RowsKept
<1> QED  BY <1>2, <1>3, <1>4, <1>5, <1>6

\* An account is created within what its creator holds, in the creator's tenant.
LEMMA CreateKept ==
  ASSUME PowerInv, NEW q \in Requests, NEW p \in People, NEW role \in ASSIGNABLE_ROLES,
         create_account(q, p, role)
  PROVE  PowerInv'
<1> DEFINE a == req[q].actor
<1>1. req[q].pc = "arrived" /\ MayGrant(a, role)
  BY DEF create_account, Handling
<1>2. Within(a.tenant, a.role) /\ a.tenant \in Tenants
  BY <1>1 DEF PowerInv, Bounded
<1>3. Within(a.tenant, role) /\ role \in Roles
  BY <1>1, <1>2, HeldWithin DEF MayGrant, ASSIGNABLE_ROLES
<1>4. PICK plan : plan = [NoPlan EXCEPT !.change = "create", !.about = p, !.grant = role,
                                        !.stamp = a.tenant, !.notes = Note(q, p)]
  OBVIOUS
<1>5. /\ DOMAIN plan = PlanFields /\ plan.change = "create" /\ plan.grant = role
      /\ plan.stamp = a.tenant /\ plan.shown = {} /\ plan.adds = {} /\ plan.drops = {}
  BY <1>4 DEF NoPlan, PlanFields
<1>6. PlanBounded(a, req[q].route, plan)
  BY <1>2, <1>3, <1>5 DEF PlanBounded
<1>7. Planned(q, plan)
  BY <1>4 DEF create_account
<1> QED  BY <1>1, <1>6, <1>7, PlanKept

\* A role written by an edit is one the actor holds, or the one the account had when it was
\* read, which was held in their tenant.
LEMMA EditKept ==
  ASSUME PowerInv, NEW q \in Requests, NEW p \in People, NEW role \in ASSIGNABLE_ROLES \cup {None},
         NEW state \in {None, "on", "off"}, update_user(q, p, role, state)
  PROVE  PowerInv'
<1> DEFINE a == req[q].actor
           written == IF role = None THEN account[p].role ELSE role
<1>1. /\ req[q].pc = "arrived" /\ Live(p) /\ account[p].tenant = a.tenant
      /\ role # None /\ role # account[p].role => MayGrant(a, role)
  BY DEF update_user, Handling, Found
<1>2. /\ Within(a.tenant, a.role) /\ a.tenant \in Tenants
      /\ account[p].role \in Roles /\ Within(account[p].tenant, account[p].role)
  BY <1>1 DEF PowerInv, Bounded, PowerStays, AccountType
<1>3. Within(a.tenant, written) /\ written \in Roles
  BY <1>1, <1>2, HeldWithin DEF MayGrant, ASSIGNABLE_ROLES
<1>4. PICK notes : Plans(q, [NoPlan EXCEPT !.change = "edit", !.about = p, !.state = state,
                               !.grant = written, !.stamp = a.tenant, !.notes = notes])
  BY DEF update_user
<1> HIDE DEF written
<1>5. PICK plan : plan = [NoPlan EXCEPT !.change = "edit", !.about = p, !.state = state,
                            !.grant = written, !.stamp = a.tenant, !.notes = notes]
  OBVIOUS
<1>6. /\ DOMAIN plan = PlanFields /\ plan.change = "edit" /\ plan.grant = written
      /\ plan.state = state /\ plan.stamp = a.tenant
      /\ plan.shown = {} /\ plan.adds = {} /\ plan.drops = {}
  BY <1>5 DEF NoPlan, PlanFields
<1>7. PlanBounded(a, req[q].route, plan)
  BY <1>2, <1>3, <1>6 DEF PlanBounded
<1>8. Planned(q, plan)
  BY <1>4, <1>5 DEF Plans
<1> QED  BY <1>1, <1>7, <1>8, PlanKept

LEMMA DeleteKept ==
  ASSUME PowerInv, NEW q \in Requests, NEW p \in People, delete_user(q, p)
  PROVE  PowerInv'
<1> DEFINE a == req[q].actor
<1>1. req[q].pc = "arrived"
  BY DEF delete_user, Handling
<1>2. PICK plan : plan = [NoPlan EXCEPT !.change = "delete", !.about = p, !.stamp = a.tenant,
                                  !.drops = OwnedBy(a, "key", p), !.notes = Note(q, p)]
  OBVIOUS
<1>3. /\ DOMAIN plan = PlanFields /\ plan.change = "delete" /\ plan.stamp = a.tenant
      /\ plan.shown = {} /\ plan.adds = {} /\ plan.drops = OwnedBy(a, "key", p)
  BY <1>2 DEF NoPlan, PlanFields
<1>4. \A x \in plan.drops : x.tenant \in {None, a.tenant}
  BY <1>3, ReachedRows DEF OwnedBy
<1>5. PlanBounded(a, req[q].route, plan)
  BY <1>3, <1>4 DEF PlanBounded
<1>6. Planned(q, plan)
  BY <1>2 DEF delete_user, Plans
<1> QED  BY <1>1, <1>5, <1>6, PlanKept

\* A new tenant's administrator is granted by one who holds everything an administrator does.
LEMMA FoundKept ==
  ASSUME PowerInv, NEW q \in Requests, NEW p \in People, NEW t \in Tenants, create_tenant(q, t, p)
  PROVE  PowerInv'
<1> DEFINE a == req[q].actor
<1>1. req[q].pc = "arrived" /\ MayGrant(a, "admin") /\ t \notin Tenants0
  BY DEF create_tenant, Handling, PowerInv
<1>2. Within(a.tenant, a.role)
  BY <1>1 DEF PowerInv, Bounded
<1>3. Within(t, "admin")
  BY <1>1, <1>2 DEF MayGrant, Within
<1>4. PICK plan : plan = [NoPlan EXCEPT !.change = "found", !.about = p, !.grant = "admin",
                                 !.stamp = t, !.notes = Note(q, p) \cup Note(q, t)]
  OBVIOUS
<1>5. /\ DOMAIN plan = PlanFields /\ plan.change = "found" /\ plan.grant = "admin"
      /\ plan.stamp = t /\ plan.shown = {} /\ plan.adds = {} /\ plan.drops = {}
  BY <1>4 DEF NoPlan, PlanFields
<1>6. "admin" \in Roles
  BY DEF Roles, ROLE_SCOPES
<1>7. PlanBounded(a, req[q].route, plan)
  BY <1>3, <1>5, <1>6 DEF PlanBounded
<1>8. Planned(q, plan)
  BY <1>4 DEF create_tenant
<1> QED  BY <1>1, <1>7, <1>8, PlanKept

\* The invariant holds at the start and through every step.
THEOREM AuthorityInvariant ==
  ASSUME AuthorityAssumption
  PROVE  Spec => []PowerInv
<1>1. Init => PowerInv
  <2> SUFFICES ASSUME Init PROVE PowerInv
    OBVIOUS
  <2>1. account \in [People -> AccountType] /\ Tenants0 \subseteq tenants
    BY DEF Init, AuthorityAssumption
  <2>2. DOMAIN req = Requests /\ \A q \in Requests : req[q] = Idle
    BY DEF Init
  <2>3. \A q \in Requests : Shaped(req[q]) /\ req[q].pc = "idle" /\ req[q].plan = NoPlan
    BY <2>2 DEF Idle, Shaped, NoPlan, PlanFields
  <2>4. PowerStays
    BY DEF Init, PowerStays, Live, Within
  <2> QED  BY <2>1, <2>2, <2>3, <2>4 DEF PowerInv
<1>2. PowerInv /\ [Next]_vars => PowerInv'
  <2> SUFFICES ASSUME PowerInv, [Next]_vars PROVE PowerInv'
    OBVIOUS
  <2>1. CASE UNCHANGED vars
    BY <2>1 DEF vars, PowerInv, PowerStays, Live
  <2>2. ASSUME NEW q \in Requests, Step(q) PROVE PowerInv'
    <3>1. CASE \E p \in People, r \in Exercised : Arrive(q, p, r)
      BY <3>1, ArriveKept
    <3>2. CASE Handle(q)
      BY <3>2, RefuseKept, ReadsKept, NotesKept, ContentKept, CreateKept, EditKept, DeleteKept,
         FoundKept DEF Handle
    <3>3. CASE \E note \in req[q].plan.notes : Record(q, note)
      BY <3>3, RecordKept
    <3>4. CASE Commit(q) \/ CommitFails(q)
      BY <3>4, CommitKept, RefuseKept
    <3> QED  BY <2>2, <3>1, <3>2, <3>3, <3>4 DEF Step
  <2> QED  BY <2>1, <2>2 DEF Next
<1> QED  BY <1>1, <1>2, PTL DEF Spec

\* No account of a tenant ever confers more than one of its accounts did at the start: the
\* rule of grantable_roles.py holds across interleaved grants, demotions and renames.
THEOREM PowerNeverGrows ==
  ASSUME AuthorityAssumption
  PROVE  Spec => []PowerStays
<1>1. PowerInv => PowerStays
  BY DEF PowerInv
<1> QED  BY <1>1, AuthorityInvariant, PTL

\* No answer shows another tenant's rows, whichever route gave it.
THEOREM NothingShownAcross ==
  ASSUME AuthorityAssumption
  PROVE  Spec => []TenantsApart
<1>1. PowerInv => TenantsApart
  <2> SUFFICES ASSUME PowerInv, NEW q \in Requests, NEW x \in req[q].plan.shown
               PROVE  x.tenant \in {None, req[q].actor.tenant}
    BY DEF TenantsApart
  <2>1. CASE req[q].pc = "idle"
    BY <2>1 DEF PowerInv, NoPlan
  <2>2. CASE req[q].pc # "idle"
    BY <2>2 DEF PowerInv, Bounded
  <2> QED  BY <2>1, <2>2
<1> QED  BY <1>1, AuthorityInvariant, PTL

\* What a step other than a commit changes is neither an account nor a row.
LEMMA OnlyCommitsChange ==
  ASSUME NEW q \in Requests, Step(q), ~Commit(q)
  PROVE  UNCHANGED <<account, rows>>
<1>1. CASE Handle(q)
  BY <1>1, ZenonT(60) DEF Handle, Refuse, List, ReadOne, ReadOwn, list_visible, read_transcript, ReadAny, Touch,
     create_account, update_user, delete_user, create_tenant, issue_key, change_key, Add,
     Change, Remove, Probe, Purge, Use, Shows, Plans, Planned
<1>2. CASE ~Handle(q)
  BY <1>2 DEF Step, Arrive, Record, CommitFails
<1> QED  BY <1>1, <1>2

\* A commit changes accounts and rows of its actor's tenant and of the platform only; the
\* exceptions are a tenant's creation and a purge.
THEOREM ChangesStay ==
  ASSUME AuthorityAssumption
  PROVE  Spec => [][ChangesStayHome]_vars
<1>1. PowerInv /\ [Next]_vars => [ChangesStayHome]_vars
  <2> SUFFICES ASSUME PowerInv, NEW q \in Requests, Step(q)
               PROVE  ChangesStayHome
    BY DEF Next
  <2>1. CASE ~Commit(q)
    BY <2>1, OnlyCommitsChange DEF ChangesStayHome
  <2>2. CASE Commit(q)
    <3> DEFINE plan == req[q].plan
    <3>1. /\ DOMAIN req = Requests /\ Shaped(req[q]) /\ Bounded(req[q]) /\ req[q].pc = "noting"
          /\ account \in [People -> AccountType]
      BY <2>2 DEF PowerInv, Commit
    <3>2. req'[q] # req[q]
      BY <2>2, <3>1 DEF Commit, Shaped
    <3>3. ASSUME NEW p \in People, account'[p] # account[p]
          PROVE  account'[p].tenant = req[q].actor.tenant \/ plan.change = "found"
      <4>1. account' = Written(plan)
        BY <2>2 DEF Commit
      <4>2. CASE plan.change = "create"
        <5>1. account' = [account EXCEPT ![plan.about] =
                            [role |-> plan.grant, tenant |-> plan.stamp, state |-> "on"]]
          BY <4>1, <4>2 DEF Written
        <5>2. plan.stamp = req[q].actor.tenant
          BY <3>1, <4>2 DEF Bounded
        <5> QED  BY <3>1, <3>3, <5>1, <5>2
      <4>3. CASE plan.change = "edit" /\ Live(plan.about) /\ account[plan.about].tenant = plan.stamp
        <5>1. account' = [account EXCEPT ![plan.about].role = plan.grant,
                                     ![plan.about].state = IF plan.state = None THEN @ ELSE plan.state]
          BY <4>1, <4>3 DEF Written
        <5>2. plan.stamp = req[q].actor.tenant
          BY <3>1, <4>3 DEF Bounded
        <5> QED  BY <3>1, <3>3, <4>3, <5>1, <5>2 DEF AccountType
      <4>4. CASE plan.change = "delete" /\ account[plan.about].tenant = plan.stamp
        <5>1. account' = [account EXCEPT ![plan.about].state = "absent"]
          BY <4>1, <4>4 DEF Written
        <5>2. plan.stamp = req[q].actor.tenant
          BY <3>1, <4>4 DEF Bounded
        <5> QED  BY <3>1, <3>3, <4>4, <5>1, <5>2 DEF AccountType
      <4>5. CASE account' = account
        BY <3>3, <4>5
      <4> QED  BY <4>1, <4>2, <4>3, <4>4, <4>5 DEF Written
    <3>4. \A x \in (rows \ rows') \cup (rows' \ rows) :
            x.tenant \in {None, req[q].actor.tenant} \/ req[q].route.does = "purge"
      BY <2>2, <3>1 DEF Commit, Bounded
    <3> QED  BY <3>1, <3>2, <3>3, <3>4 DEF ChangesStayHome
  <2> QED  BY <2>1, <2>2
<1> QED  BY <1>1, AuthorityInvariant, PTL DEF Spec

\* A step that changes one request, plans about no account another is to create, and leaves
\* accounts and rows alone, keeps ids fresh and keys owned.
LEMMA KeysOneRequest ==
  ASSUME KeysInv, NEW q \in Requests, \A o \in Requests \ {q} : req'[o] = req[o],
         UNCHANGED <<account, rows>>, known \subseteq known', known' \subseteq People, Fresh(q)',
         req'[q].pc = "arrived" => req'[q].route \in Exercised,
         req'[q].pc = "noting" /\ req'[q].plan.change # "none" =>
           \A o \in Requests \ {q} :
             req[o].pc = "noting" /\ req[o].plan.change \in {"create", "found"} =>
               req[o].plan.about # req'[q].plan.about
  PROVE  KeysInv'
<1>1. ASSUME NEW o \in Requests \ {q} PROVE Fresh(o)'
  <2>1. Fresh(o) /\ req'[o] = req[o]
    BY DEF KeysInv
  <2>2. \A p : Live(p)' = Live(p)
    BY DEF Live
  <2>3. \A p \in Requests \ {o} : p # q => req'[p] = req[p]
    OBVIOUS
  <2> QED  BY <2>1, <2>2, <2>3 DEF Fresh, KeyOf
<1>2. KeysHaveOwners'
  BY DEF KeysInv, KeysHaveOwners, Live
<1> QED  BY <1>1, <1>2 DEF KeysInv, Live

\* A request that is not waiting to commit plans nothing.
LEMMA KeysMoved ==
  ASSUME KeysInv, NEW q \in Requests, \A o \in Requests \ {q} : req'[o] = req[o],
         req'[q].pc # "noting", req'[q].pc = "arrived" => req'[q].route \in Exercised,
         UNCHANGED <<account, rows, known>>
  PROVE  KeysInv'
<1>1. Fresh(q)'
  BY DEF Fresh
<1> QED  BY <1>1, KeysOneRequest DEF KeysInv

\* A handler that plans no key and speaks of no account.
LEMMA KeysPlain ==
  ASSUME PowerInv, KeysInv, NEW q \in Requests, NEW plan, Plans(q, plan),
         plan.change = "none", \A x \in plan.adds : x.of # "key"
  PROVE  KeysInv'
<1>1. DOMAIN req = Requests /\ Shaped(req[q])
  BY DEF PowerInv
<1>2. /\ \A o \in Requests \ {q} : req'[o] = req[o]
      /\ req'[q].pc = "noting" /\ req'[q].plan = plan
  BY <1>1 DEF Plans, Planned, Shaped
<1>3. Fresh(q)'
  BY <1>2 DEF Fresh
<1> QED  BY <1>2, <1>3, KeysOneRequest DEF KeysInv, Plans, Planned

\* A handler that plans about an account it found; a key for one of its actor's tenant.
LEMMA KeysAbout ==
  ASSUME PowerInv, KeysInv, NEW q \in Requests, NEW plan, Plans(q, plan),
         plan.change \in {"edit", "delete", "issue"}, plan.about \in People,
         Found(req[q].actor, plan.about),
         plan.adds = IF plan.change = "issue" THEN {KeyOf(req[q].actor, plan.about)} ELSE {}
  PROVE  KeysInv'
<1>1. DOMAIN req = Requests /\ Shaped(req[q])
  BY DEF PowerInv
<1>2. /\ \A o \in Requests \ {q} : req'[o] = req[o]
      /\ req'[q].pc = "noting" /\ req'[q].plan = plan /\ req'[q].actor = req[q].actor
  BY <1>1 DEF Plans, Planned, Shaped
<1>3. Live(plan.about) /\ plan.about \in known /\ account[plan.about].tenant = req[q].actor.tenant
  BY DEF Found, KeysInv
<1>4. UNCHANGED <<account, rows, known>>
  BY DEF Plans, Planned
<1>5. Fresh(q)'
  BY <1>2, <1>3, <1>4 DEF Fresh, KeyOf
<1>6. \A o \in Requests \ {q} :
         req[o].pc = "noting" /\ req[o].plan.change \in {"create", "found"} =>
           req[o].plan.about # plan.about
  BY <1>3 DEF KeysInv, Fresh
<1> QED  BY <1>2, <1>4, <1>5, <1>6, KeysOneRequest DEF KeysInv

\* A handler that plans an account gives it an id nothing has spoken of.
LEMMA KeysFresh ==
  ASSUME PowerInv, KeysInv, NEW q \in Requests, NEW plan, Planned(q, plan),
         plan.change \in {"create", "found"}, plan.about \in People \ known, plan.adds = {},
         known' = known \cup {plan.about}
  PROVE  KeysInv'
<1>1. DOMAIN req = Requests /\ Shaped(req[q])
  BY DEF PowerInv
<1>2. /\ \A o \in Requests \ {q} : req'[o] = req[o]
      /\ req'[q].pc = "noting" /\ req'[q].plan = plan
  BY <1>1 DEF Planned, Shaped
<1>3. UNCHANGED <<account, rows>> /\ ~Live(plan.about)
  BY DEF Planned, KeysInv
<1>4. \A x \in rows : x.of = "key" => x.owner # plan.about
  BY <1>3 DEF KeysInv, KeysHaveOwners
<1>5. \A o \in Requests \ {q} :
         req[o].pc = "noting" /\ req[o].plan.change # "none" => req[o].plan.about # plan.about
  BY DEF KeysInv, Fresh
<1>6. Fresh(q)'
  BY <1>2, <1>3, <1>4, <1>5 DEF Fresh, Live
<1> QED  BY <1>2, <1>3, <1>5, <1>6, KeysOneRequest DEF KeysInv

\* What a commit does to the accounts there are.
LEMMA WrittenAccounts ==
  ASSUME PowerInv, NEW q \in Requests, Commit(q)
  PROVE  LET plan == req[q].plan
         IN /\ \A p \in People : p # plan.about => account'[p] = account[p]
            /\ plan.change \notin {"create", "found"} =>
                 \A p \in People : /\ account'[p].tenant = account[p].tenant
                                   /\ Live(p)' => Live(p)
            /\ plan.change \notin {"create", "found", "delete"} =>
                 \A p \in People : Live(p) => Live(p)'
<1> DEFINE plan == req[q].plan
<1>1. account \in [People -> AccountType] /\ Bounded(req[q]) /\ account' = Written(plan)
  BY DEF PowerInv, Commit
<1>2. CASE plan.change \in {"create", "found"}
  BY <1>1, <1>2 DEF Written
<1>3. CASE plan.change = "edit" /\ Live(plan.about) /\ account[plan.about].tenant = plan.stamp
  <2>1. account' = [account EXCEPT ![plan.about].role = plan.grant,
                                   ![plan.about].state = IF plan.state = None THEN @ ELSE plan.state]
    BY <1>1, <1>3 DEF Written
  <2>2. plan.state = None \/ plan.state \in {"on", "off"}
    BY <1>1, <1>3 DEF Bounded
  <2> DEFINE was == account[plan.about]
             state == IF plan.state = None THEN was.state ELSE plan.state
             next == [was EXCEPT !.role = plan.grant, !.state = state]
  <2>3. account' = [account EXCEPT ![plan.about] = next]
    BY <2>1
  <2>4. state # "absent"
    BY <1>3, <2>2 DEF Live
  <2> HIDE DEF state
  <2>5. plan.about \in People => next.tenant = was.tenant /\ next.state = state
    BY <1>1 DEF AccountType
  <2> HIDE DEF next
  <2> QED  BY <1>1, <1>3, <2>3, <2>4, <2>5 DEF Live
<1>4. CASE plan.change = "delete" /\ account[plan.about].tenant = plan.stamp
  <2>1. account' = [account EXCEPT ![plan.about].state = "absent"]
    BY <1>1, <1>4 DEF Written
  <2> QED  BY <1>1, <1>4, <2>1 DEF AccountType, Live
<1>5. CASE account' = account /\ plan.change \notin {"create", "found"}
  BY <1>5 DEF Live
<1> QED  BY <1>1, <1>2, <1>3, <1>4, <1>5 DEF Written

\* A commit of one request leaves the plans of the others fresh.
LEMMA FreshBeside ==
  ASSUME PowerInv, KeysInv, NEW q \in Requests, Commit(q), NEW o \in Requests \ {q}
  PROVE  Fresh(o)'
<1> DEFINE mine == req[q].plan
           plan == req[o].plan
<1> SUFFICES ASSUME req[o].pc = "noting"
             PROVE  Fresh(o)'
  <2>1. DOMAIN req = Requests
    BY DEF PowerInv
  <2>2. req'[o] = req[o]
    BY <2>1 DEF Commit
  <2> QED  BY <2>2 DEF Fresh
<1>1. DOMAIN req = Requests /\ Fresh(q) /\ Fresh(o)
  BY DEF PowerInv, KeysInv
<1>2. /\ req'[o] = req[o] /\ req[q].pc = "noting" /\ known' = known
      /\ req'[q].pc = "answered"
      /\ \A p \in Requests : p # q => req'[p] = req[p]
  BY <1>1 DEF Commit, PowerInv, Shaped
<1>3. known \subseteq People
  BY DEF KeysInv
<1>4. rows' = (rows \ mine.drops) \cup mine.adds
  BY DEF Commit
<1>5. ASSUME plan.change \in {"create", "found"}
      PROVE  /\ ~Live(plan.about)'
             /\ \A x \in rows' : x.of = "key" => x.owner # plan.about
  <2>1. plan.about \in People /\ ~Live(plan.about)
    BY <1>1, <1>3, <1>5 DEF Fresh
  <2>2. mine.change # "none" => mine.about # plan.about
    BY <1>1, <1>2, <1>5 DEF Fresh
  <2>3. account'[plan.about] = account[plan.about]
    <3>1. CASE mine.change = "none"
      BY <3>1 DEF Commit, Written
    <3>2. CASE mine.change # "none"
      BY <3>2, <2>1, <2>2, WrittenAccounts
    <3> QED  BY <3>1, <3>2
  <2>4. \A x \in mine.adds : x.of = "key" => x.owner # plan.about
    <3>1. CASE mine.change = "issue"
      BY <3>1, <1>1, <1>2, <2>2 DEF Fresh, KeyOf
    <3>2. CASE mine.change # "issue"
      BY <3>2, <1>1, <1>2 DEF Fresh
    <3> QED  BY <3>1, <3>2
  <2>5. \A x \in rows : x.of = "key" => x.owner # plan.about
    BY <1>1, <1>5 DEF Fresh
  <2>6. \A x \in rows' : x \in rows \/ x \in mine.adds
    BY <1>4
  <2>7. \A x \in rows' : x.of = "key" => x.owner # plan.about
    BY <2>4, <2>5, <2>6
  <2>8. plan' = plan
    BY <1>2
  <2>9. ~Live(plan.about)'
    BY <2>1, <2>3, <2>8 DEF Live
  <2> QED  BY <2>7, <2>9
<1>6. ASSUME plan.change = "issue"
      PROVE  account'[plan.about].tenant = account[plan.about].tenant
  <2>1. plan.about \in People
    BY <1>1, <1>3, <1>6 DEF Fresh
  <2>2. CASE mine.change \in {"create", "found"}
    <3>1. mine.about # plan.about
      BY <2>2, <1>1, <1>2, <1>6 DEF Fresh
    <3> QED  BY <2>1, <3>1, WrittenAccounts
  <2>3. CASE mine.change \notin {"create", "found"}
    BY <2>1, <2>3, WrittenAccounts
  <2> QED  BY <2>2, <2>3
<1>7. \A p \in Requests \ {o} :
         req'[p].pc = "noting" => req[p].pc = "noting" /\ req'[p].plan = req[p].plan
  BY <1>2
<1> QED  BY <1>1, <1>2, <1>5, <1>6, <1>7 DEF Fresh, KeyOf

\* What a commit leaves belongs to somebody: a key is inserted with its owner there, and an
\* owner goes with no key left.
LEMMA KeysCommit ==
  ASSUME PowerInv, KeysInv, NEW q \in Requests, Commit(q)
  PROVE  KeysInv'
<1> DEFINE plan == req[q].plan
<1>1. /\ DOMAIN req = Requests /\ account \in [People -> AccountType] /\ Bounded(req[q])
      /\ Fresh(q) /\ known \subseteq People /\ req[q].pc = "noting"
  BY DEF PowerInv, KeysInv, Commit
<1>2. /\ known' = known /\ rows' = (rows \ plan.drops) \cup plan.adds
      /\ \A o \in Requests \ {q} : req'[o] = req[o]
      /\ req'[q].pc = "answered"
  BY <1>1 DEF Commit, PowerInv, Shaped
<1>3. \A o \in Requests : Fresh(o)' /\ (req'[o].pc = "arrived" => req'[o].route \in Exercised)
  BY <1>2, FreshBeside DEF Fresh, KeysInv
<1>4. ASSUME NEW p \in People, Live(p)'
      PROVE  p \in known
  <2>1. CASE plan.change \in {"create", "found"}
    BY <2>1, <1>1, <1>4, WrittenAccounts DEF Fresh, KeysInv, Live
  <2>2. CASE plan.change \notin {"create", "found"}
    BY <2>2, <1>4, WrittenAccounts DEF KeysInv
  <2> QED  BY <2>1, <2>2
<1>5. ASSUME NEW x \in rows', x.of = "key"
      PROVE  x.owner \in People /\ Live(x.owner)' /\ account'[x.owner].tenant = x.tenant
  <2>1. CASE x \in plan.adds
    <3>1. plan.change = "issue" /\ x = KeyOf(req[q].actor, plan.about)
      BY <2>1, <1>1, <1>5 DEF Fresh
    <3>2. x.owner = plan.about /\ x.tenant = req[q].actor.tenant /\ plan.about \in People
      BY <3>1, <1>1 DEF KeyOf, Fresh
    <3>3. Live(plan.about) /\ account[plan.about].tenant = req[q].actor.tenant
      BY <3>1, <1>1 DEF Commit, Consistent, Fresh
    <3> QED  BY <3>1, <3>2, <3>3, WrittenAccounts
  <2>2. CASE x \in rows \ plan.drops
    <3>1. x.owner \in People /\ Live(x.owner) /\ account[x.owner].tenant = x.tenant
      BY <2>2, <1>5 DEF KeysInv, KeysHaveOwners
    <3>2. CASE plan.change \in {"create", "found"}
      <4>1. x.owner # plan.about
        BY <3>2, <2>2, <1>1, <1>5 DEF Fresh
      <4> QED  BY <3>1, <4>1, WrittenAccounts DEF Live
    <3>3. CASE plan.change = "delete"
      <4>1. x.owner # plan.about
        BY <3>3, <2>2, <1>5 DEF Commit, Consistent
      <4> QED  BY <3>1, <4>1, WrittenAccounts DEF Live
    <3>4. CASE plan.change \notin {"create", "found", "delete"}
      BY <3>1, <3>4, WrittenAccounts
    <3> QED  BY <3>2, <3>3, <3>4
  <2> QED  BY <2>1, <2>2, <1>2
<1>6. KeysHaveOwners'
  BY <1>5 DEF KeysHaveOwners
<1> QED  BY <1>1, <1>2, <1>3, <1>4, <1>5, <1>6 DEF KeysInv

LEMMA KeysShows ==
  ASSUME PowerInv, KeysInv, NEW q \in Requests, NEW shown, NEW notes, Shows(q, shown, notes)
  PROVE  KeysInv'
<1>1. PICK plan : plan = [NoPlan EXCEPT !.shown = shown, !.notes = notes]
  OBVIOUS
<1>2. plan.change = "none" /\ plan.adds = {}
  BY <1>1 DEF NoPlan
<1>3. Plans(q, plan)
  BY <1>1 DEF Shows
<1> QED  BY <1>2, <1>3, KeysPlain

LEMMA KeysReads ==
  ASSUME PowerInv, KeysInv, NEW q \in Requests,
         \/ List(q) \/ ReadOne(q) \/ ReadOwn(q) \/ list_visible(q) \/ read_transcript(q)
         \/ Change(q) \/ Probe(q) \/ change_key(q)
         \/ \E asked \in People \cup {None} : ReadAny(q, asked)
         \/ \E p \in People : Touch(q, p)
  PROVE  KeysInv'
<1>1. \E shown, notes : Shows(q, shown, notes)
  BY DEF List, ReadOne, ReadOwn, list_visible, read_transcript, Change, Probe, change_key, ReadAny, Touch
<1> QED  BY <1>1, KeysShows

\* What an entrance adds is never a key: those are only issued.
LEMMA AddedContent ==
  \A r \in Routes : r.does = "add" => r.of # "key"
<1>1. \A r \in UserRoutes \cup TenantRoutes \cup KeyRoutes \cup ToolRoutes \cup MeRoutes \cup RoleRoutes
              \cup LogRoutes \cup PromptLogRoutes \cup RefusalRoutes \cup UsageRoutes :
         r.does # "add"
  BY DEF UserRoutes, TenantRoutes, KeyRoutes, ToolRoutes, MeRoutes, RoleRoutes, LogRoutes, PromptLogRoutes,
         RefusalRoutes, UsageRoutes, Route, Reached
<1>2. \A r \in DashboardRoutes \cup RetentionRoutes \cup PromptTemplateRoutes
              \cup EvaluationRoutes \cup HostRoutes \cup GatewayInfoRoutes \cup NodeRoutes :
         r.of # "key"
  BY DEF DashboardRoutes, RetentionRoutes, PromptTemplateRoutes, EvaluationRoutes, HostRoutes,
         GatewayInfoRoutes, NodeRoutes, Route, Reached
<1>3. \A r \in ModelRoutes \cup RoutingRoutes \cup AvailabilityRoutes \cup MaintenanceRoutes
              \cup CollectionRoutes \cup DocumentRoutes \cup SearchRoutes \cup ChatRoutes
              \cup AssistantRoutes :
         r.of # "key"
  BY DEF ModelRoutes, RoutingRoutes, AvailabilityRoutes, MaintenanceRoutes, CollectionRoutes,
         DocumentRoutes, SearchRoutes, ChatRoutes, AssistantRoutes, Route, Reached
<1> QED  BY <1>1, <1>2, <1>3 DEF Routes

LEMMA KeysRows ==
  ASSUME AuthorityAssumption, PowerInv, KeysInv, NEW q \in Requests,
         Add(q) \/ Remove(q) \/ Use(q) \/ Purge(q)
  PROVE  KeysInv'
<1>1. CASE Add(q)
  <2>1. PICK plan : plan = [NoPlan EXCEPT !.adds = {Content(q)}, !.notes = Note(q, None)]
    OBVIOUS
  <2>2. plan.change = "none" /\ plan.adds = {Content(q)} /\ Plans(q, plan)
    BY <1>1, <2>1 DEF NoPlan, Add
  <2>3. req[q].route \in Routes /\ req[q].route.does = "add"
    BY <1>1 DEF Add, Handling, KeysInv, AuthorityAssumption
  <2>4. Content(q).of # "key"
    BY <2>3, AddedContent DEF Content
  <2> QED  BY <2>2, <2>4, KeysPlain
<1>2. CASE Remove(q)
  <2>1. PICK plan : plan = [NoPlan EXCEPT !.drops = {Content(q)}, !.notes = Note(q, None)]
    OBVIOUS
  <2>2. plan.change = "none" /\ plan.adds = {} /\ Plans(q, plan)
    BY <1>2, <2>1 DEF NoPlan, Remove
  <2> QED  BY <2>2, KeysPlain
<1>3. CASE Use(q)
  <2> DEFINE x == [of |-> "usage", tenant |-> req[q].actor.tenant, owner |-> req[q].actor.id]
  <2>1. PICK plan : plan = [NoPlan EXCEPT !.adds = {x}]
    OBVIOUS
  <2>2. plan.change = "none" /\ plan.adds = {x} /\ Plans(q, plan) /\ x.of # "key"
    BY <1>3, <2>1 DEF NoPlan, Use
  <2> HIDE DEF x
  <2> QED  BY <2>2, KeysPlain
<1>4. CASE Purge(q)
  <2>1. PICK old : Plans(q, [NoPlan EXCEPT !.drops = old, !.notes = Note(q, None)])
    BY <1>4 DEF Purge
  <2>2. PICK plan : plan = [NoPlan EXCEPT !.drops = old, !.notes = Note(q, None)]
    OBVIOUS
  <2>3. plan.change = "none" /\ plan.adds = {} /\ Plans(q, plan)
    BY <2>1, <2>2 DEF NoPlan
  <2> QED  BY <2>3, KeysPlain
<1> QED  BY <1>1, <1>2, <1>3, <1>4

\* An edit, a deletion, a key: about an account that was found.
LEMMA KeysFound ==
  ASSUME PowerInv, KeysInv, NEW q \in Requests, NEW p \in People,
         \/ delete_user(q, p) \/ issue_key(q, p)
         \/ \E role, state : update_user(q, p, role, state)
  PROVE  KeysInv'
<1> DEFINE a == req[q].actor
<1>1. CASE delete_user(q, p)
  <2>1. PICK plan : plan = [NoPlan EXCEPT !.change = "delete", !.about = p, !.stamp = a.tenant,
                                          !.drops = OwnedBy(a, "key", p), !.notes = Note(q, p)]
    OBVIOUS
  <2>2. plan.change = "delete" /\ plan.about = p /\ plan.adds = {}
    BY <2>1 DEF NoPlan
  <2>3. Plans(q, plan) /\ Found(a, p)
    BY <1>1, <2>1 DEF delete_user
  <2> QED  BY <2>2, <2>3, KeysAbout
<1>2. CASE issue_key(q, p)
  <2>1. PICK plan : plan = [NoPlan EXCEPT !.change = "issue", !.about = p,
                                          !.adds = {KeyOf(a, p)}, !.notes = Note(q, p)]
    OBVIOUS
  <2>2. plan.change = "issue" /\ plan.about = p /\ plan.adds = {KeyOf(a, p)}
    BY <2>1 DEF NoPlan
  <2>3. Plans(q, plan) /\ Found(a, p)
    BY <1>2, <2>1 DEF issue_key
  <2> QED  BY <2>2, <2>3, KeysAbout
<1>3. CASE \E role, state : update_user(q, p, role, state)
  <2>1. PICK role, state : update_user(q, p, role, state)
    BY <1>3
  <2>2. PICK grant, notes : Plans(q, [NoPlan EXCEPT !.change = "edit", !.about = p, !.state = state,
                                        !.grant = grant, !.stamp = a.tenant, !.notes = notes])
    BY <2>1 DEF update_user
  <2>3. PICK plan : plan = [NoPlan EXCEPT !.change = "edit", !.about = p, !.state = state,
                              !.grant = grant, !.stamp = a.tenant, !.notes = notes]
    OBVIOUS
  <2>4. plan.change = "edit" /\ plan.about = p /\ plan.adds = {}
    BY <2>3 DEF NoPlan
  <2>5. Plans(q, plan) /\ Found(a, p)
    BY <2>1, <2>2, <2>3 DEF update_user
  <2> QED  BY <2>4, <2>5, KeysAbout
<1> QED  BY <1>1, <1>2, <1>3

\* An invitation, a new tenant's administrator: an id of its own.
LEMMA KeysInvited ==
  ASSUME PowerInv, KeysInv, NEW q \in Requests, NEW p \in People,
         \/ \E role : create_account(q, p, role)
         \/ \E t : create_tenant(q, t, p)
  PROVE  KeysInv'
<1>1. PICK change, role, stamp, notes :
         /\ change \in {"create", "found"} /\ p \notin known /\ known' = known \cup {p}
         /\ Planned(q, [NoPlan EXCEPT !.change = change, !.about = p, !.grant = role,
                                      !.stamp = stamp, !.notes = notes])
  <2>1. CASE \E role : create_account(q, p, role)
    BY <2>1 DEF create_account
  <2>2. CASE \E t : create_tenant(q, t, p)
    BY <2>2 DEF create_tenant
  <2> QED  BY <2>1, <2>2
<1>2. PICK plan : plan = [NoPlan EXCEPT !.change = change, !.about = p, !.grant = role,
                                        !.stamp = stamp, !.notes = notes]
  OBVIOUS
<1>3. plan.change = change /\ plan.about = p /\ plan.adds = {} /\ Planned(q, plan)
  BY <1>1, <1>2 DEF NoPlan
<1> QED  BY <1>1, <1>3, KeysFresh

\* What has not been noted yet is all a note changes of a plan.
LEMMA KeysNoted ==
  ASSUME PowerInv, KeysInv, NEW q \in Requests, NEW note, Record(q, note)
  PROVE  KeysInv'
<1>1. DOMAIN req = Requests /\ Shaped(req[q]) /\ Fresh(q)
  BY DEF PowerInv, KeysInv
<1>2. /\ \A o \in Requests \ {q} : req'[o] = req[o]
      /\ req'[q].pc = "noting" /\ req[q].pc = "noting" /\ req'[q].actor = req[q].actor
      /\ req'[q].plan.change = req[q].plan.change /\ req'[q].plan.about = req[q].plan.about
      /\ req'[q].plan.adds = req[q].plan.adds
      /\ UNCHANGED <<account, rows, known>>
  BY <1>1 DEF Record, Shaped, PlanFields
<1>3. Fresh(q)'
  BY <1>1, <1>2 DEF Fresh, Live, KeyOf
<1>4. req[q].plan.change # "none" =>
         \A o \in Requests \ {q} :
           req[o].pc = "noting" /\ req[o].plan.change \in {"create", "found"} =>
             req[o].plan.about # req[q].plan.about
  BY <1>2 DEF KeysInv, Fresh
<1> QED  BY <1>2, <1>3, <1>4, KeysOneRequest DEF KeysInv

\* A request that arrives, is refused or fails.
LEMMA KeysStill ==
  ASSUME PowerInv, KeysInv, NEW q \in Requests,
         \/ \E p \in People, r \in Exercised : Arrive(q, p, r)
         \/ Refuse(q) \/ CommitFails(q)
  PROVE  KeysInv'
<1>1. DOMAIN req = Requests /\ Shaped(req[q])
  BY DEF PowerInv
<1>2. UNCHANGED <<account, rows, known>>
  BY DEF Arrive, Refuse, CommitFails
<1>3. CASE \E p \in People, r \in Exercised : Arrive(q, p, r)
  BY <1>1, <1>2, <1>3, KeysMoved DEF Arrive
<1>4. CASE Refuse(q) \/ CommitFails(q)
  BY <1>1, <1>2, <1>4, KeysMoved DEF Refuse, CommitFails, Shaped
<1> QED  BY <1>3, <1>4

THEOREM KeysInvariant ==
  ASSUME AuthorityAssumption
  PROVE  Spec => []KeysInv
<1>1. Init => KeysInv
  <2> SUFFICES ASSUME Init PROVE KeysInv
    OBVIOUS
  <2>1. \A q \in Requests : req[q].pc = "idle"
    BY DEF Init, Idle
  <2>2. \A q \in Requests : Fresh(q)
    BY <2>1 DEF Fresh
  <2>3. known \subseteq People /\ \A p \in People : Live(p) => p \in known
    BY DEF Init, Live
  <2>4. KeysHaveOwners /\ \A x \in rows : x.of = "key" => x.owner \in People
    BY DEF Init, KeysHaveOwners, Live, AuthorityAssumption
  <2> QED  BY <2>1, <2>2, <2>3, <2>4 DEF KeysInv
<1>2. PowerInv /\ KeysInv /\ [Next]_vars => KeysInv'
  <2> SUFFICES ASSUME PowerInv, KeysInv, [Next]_vars PROVE KeysInv'
    OBVIOUS
  <2>1. CASE UNCHANGED vars
    <3>1. \A q \in Requests : Fresh(q)'
      BY <2>1 DEF vars, KeysInv, Fresh, Live, KeyOf
    <3> QED  BY <2>1, <3>1 DEF vars, KeysInv, KeysHaveOwners, Live
  <2>2. ASSUME NEW q \in Requests, Step(q) PROVE KeysInv'
    <3>1. CASE \E p \in People, r \in Exercised : Arrive(q, p, r)
      BY <3>1, KeysStill
    <3>2. CASE Handle(q)
      BY <3>2, KeysStill, KeysReads, KeysRows, KeysFound, KeysInvited DEF Handle
    <3>3. CASE \E note \in req[q].plan.notes : Record(q, note)
      BY <3>3, KeysNoted
    <3>4. CASE Commit(q) \/ CommitFails(q)
      BY <3>4, KeysCommit, KeysStill
    <3> QED  BY <2>2, <3>1, <3>2, <3>3, <3>4 DEF Step
  <2> QED  BY <2>1, <2>2 DEF Next
<1>3. Spec => []PowerInv
  BY AuthorityInvariant
<1> QED  BY <1>1, <1>2, <1>3, PTL DEF Spec

\* No key is ever without its account, also when it is issued while the account is deleted,
\* or its account's creation and another's deletion commit between.
THEOREM KeysStayOwned ==
  ASSUME AuthorityAssumption
  PROVE  Spec => []KeysHaveOwners
<1>1. KeysInv => KeysHaveOwners
  BY DEF KeysInv
<1> QED  BY <1>1, KeysInvariant, PTL
--------------------------------------------------------------------------------
\* The scope that lets a route show what others own.
LEMMA WideRoutes ==
  \A r \in Routes :
    /\ r.does \in {"list", "get"} /\ r.of \in {"refusal", "usage", "transcript", "key"} =>
         r.needs \in OTHERS_SCOPES
    /\ r.does = "open" => r.needs \in OTHERS_SCOPES
    /\ r.does \in {"held", "any", "rekey"} => r.wide \in OTHERS_SCOPES
<1> DEFINE Wide1(r) ==
             /\ r.does \in {"list", "get"} /\ r.of \in {"refusal", "usage", "transcript", "key"} =>
                  r.needs \in OTHERS_SCOPES
             /\ r.does = "open" => r.needs \in OTHERS_SCOPES
             /\ r.does \in {"held", "any", "rekey"} => r.wide \in OTHERS_SCOPES
<1>1. \A r \in UserRoutes \cup TenantRoutes \cup KeyRoutes \cup ToolRoutes \cup MeRoutes \cup RoleRoutes
              \cup LogRoutes \cup PromptLogRoutes :
         Wide1(r)
  BY DEF UserRoutes, TenantRoutes, KeyRoutes, ToolRoutes, MeRoutes, RoleRoutes, LogRoutes, PromptLogRoutes,
         Route, Reached, OTHERS_SCOPES, ReadPromptLogs
<1>2. \A r \in RefusalRoutes \cup UsageRoutes \cup DashboardRoutes \cup RetentionRoutes
              \cup PromptTemplateRoutes \cup EvaluationRoutes \cup HostRoutes :
         Wide1(r)
  BY DEF RefusalRoutes, UsageRoutes, DashboardRoutes, RetentionRoutes, PromptTemplateRoutes,
         EvaluationRoutes, HostRoutes, Route, Reached, OTHERS_SCOPES, ReadRefusals,
         ReadUsageRecords, ReadUsageAnalytics, ReadDashboard
<1>3. \A r \in GatewayInfoRoutes \cup NodeRoutes \cup ModelRoutes \cup RoutingRoutes
              \cup AvailabilityRoutes \cup MaintenanceRoutes :
         Wide1(r)
  BY DEF GatewayInfoRoutes, NodeRoutes, ModelRoutes, RoutingRoutes, AvailabilityRoutes,
         MaintenanceRoutes, Route, Reached
<1>4. \A r \in CollectionRoutes \cup DocumentRoutes \cup SearchRoutes \cup ChatRoutes
              \cup AssistantRoutes :
         Wide1(r)
  BY DEF CollectionRoutes, DocumentRoutes, SearchRoutes, ChatRoutes, AssistantRoutes, Route,
         Reached
<1> HIDE DEF Wide1
<1>5. \A r \in Routes : Wide1(r)
  BY <1>1, <1>2, <1>3, <1>4 DEF Routes
<1> QED  BY <1>5 DEF Wide1

\* One request moves; the trail and the service log only grow.
LEMMA NotesOneRequest ==
  ASSUME NotesInv, NEW q \in Requests, \A o \in Requests \ {q} : req'[o] = req[o],
         trail \subseteq trail', lost \subseteq lost', Told(q)'
  PROVE  NotesInv'
<1>1. ASSUME NEW o \in Requests \ {q} PROVE Told(o)'
  <2>1. Told(o) /\ req'[o] = req[o]
    BY DEF NotesInv
  <2> QED  BY <2>1 DEF Told, Others, Tells, Holds
<1> QED  BY <1>1 DEF NotesInv

\* A handler shows nothing, or what it may, and notes it where it has to.
LEMMA NotesShows ==
  ASSUME PowerInv, NotesInv, NEW q \in Requests, NEW shown, NEW notes, NEW plan, req[q].pc = "arrived",
         Planned(q, plan), plan.shown = shown, plan.notes = notes,
         \A x \in shown : x.of \in {"refusal", "usage", "transcript", "key"} /\ x.owner # req[q].actor.id =>
           /\ \E scope \in OTHERS_SCOPES : Holds(req[q].actor, scope)
           /\ req[q].route.does \in {"any", "open"} => \E note \in notes : Tells(note, q, x)
  PROVE  NotesInv'
<1>1. DOMAIN req = Requests /\ Shaped(req[q]) /\ Told(q)
  BY DEF PowerInv, NotesInv
<1>2. /\ \A o \in Requests \ {q} : req'[o] = req[o]
      /\ req'[q].pc = "noting" /\ req'[q].plan = plan
      /\ req'[q].actor = req[q].actor /\ req'[q].route = req[q].route
  BY <1>1 DEF Planned, Shaped
<1>3. trail' = trail /\ lost' = lost
  BY DEF Planned
<1>4. Told(q)'
  BY <1>1, <1>2 DEF Told, Others, Tells, Holds
<1> QED  BY <1>2, <1>3, <1>4, NotesOneRequest

\* One that shows nothing.
LEMMA NotesQuiet ==
  ASSUME PowerInv, NotesInv, NEW q \in Requests, NEW plan, req[q].pc = "arrived",
         Planned(q, plan), plan.shown = {}
  PROVE  NotesInv'
BY NotesShows

\* One that shows rows as a read does.
LEMMA NotesRead ==
  ASSUME PowerInv, NotesInv, NEW q \in Requests, NEW shown, NEW notes, req[q].pc = "arrived",
         Shows(q, shown, notes),
         \A x \in shown : x.of \in {"refusal", "usage", "transcript", "key"} /\ x.owner # req[q].actor.id =>
           /\ \E scope \in OTHERS_SCOPES : Holds(req[q].actor, scope)
           /\ req[q].route.does \in {"any", "open"} => \E note \in notes : Tells(note, q, x)
  PROVE  NotesInv'
<1>1. PICK plan : plan = [NoPlan EXCEPT !.shown = shown, !.notes = notes]
  OBVIOUS
<1>2. plan.shown = shown /\ plan.notes = notes
  BY <1>1 DEF NoPlan
<1>3. Planned(q, plan)
  BY <1>1 DEF Shows, Plans
<1> QED  BY <1>2, <1>3, NotesShows

LEMMA NotesReads ==
  ASSUME AuthorityAssumption, PowerInv, KeysInv, NotesInv, NEW q \in Requests,
         \/ List(q) \/ ReadOne(q) \/ ReadOwn(q) \/ list_visible(q) \/ read_transcript(q) \/ change_key(q)
         \/ \E asked \in People \cup {None} : ReadAny(q, asked)
  PROVE  NotesInv'
<1> DEFINE a == req[q].actor
           r == req[q].route
<1>1. /\ req[q].pc = "arrived" /\ r \in Routes
      /\ \A x : \A of, p : x \in OwnedBy(a, of, p) => x.owner = p /\ x.of = of
      /\ \A x : \A of : x \in Of(a, of) => x.of = of
  BY DEF List, ReadOne, ReadOwn, list_visible, read_transcript, change_key, ReadAny, Handling, KeysInv,
         AuthorityAssumption, OwnedBy, Of
<1>2. None \notin OTHERS_SCOPES /\ None \notin People /\ a.id \in People
  BY <1>1 DEF AuthorityAssumption, NotesInv, Told
<1>3. CASE List(q)
  <2>1. Shows(q, Of(a, r.of), {}) /\ r.does = "list" /\ Requires(q)
    BY <1>3 DEF List, Handling
  <2>2. r.of \in {"refusal", "usage", "transcript", "key"} =>
           \E scope \in OTHERS_SCOPES : Holds(a, scope)
    BY <1>1, <1>2, <2>1, WideRoutes DEF Requires
  <2> QED  BY <1>1, <2>1, <2>2, NotesRead
<1>9. CASE ReadOne(q)
  <2>1. PICK x \in Of(a, r.of) : Shows(q, {x}, {})
    BY <1>9 DEF ReadOne
  <2>2. r.does = "get" /\ Requires(q)
    BY <1>9 DEF ReadOne, Handling
  <2>3. r.of \in {"refusal", "usage", "transcript", "key"} =>
           \E scope \in OTHERS_SCOPES : Holds(a, scope)
    BY <1>1, <1>2, <2>2, WideRoutes DEF Requires
  <2> QED  BY <1>1, <2>1, <2>2, <2>3, NotesRead
<1>4. CASE ReadOwn(q)
  <2>1. Shows(q, OwnedBy(a, r.of, a.id), {})
    BY <1>4 DEF ReadOwn
  <2> QED  BY <1>1, <2>1, NotesRead
<1>5. CASE list_visible(q)
  <2> DEFINE shown == IF Wide(q) THEN Of(a, "key") ELSE OwnedBy(a, "key", a.id)
  <2>1. Shows(q, shown, {}) /\ r.does = "held"
    BY <1>5 DEF list_visible, Handling
  <2>2. Wide(q) => \E scope \in OTHERS_SCOPES : Holds(a, scope)
    BY <1>1, <2>1, WideRoutes DEF Wide
  <2>3. \A x \in shown : x.owner # a.id => Wide(q)
    BY <1>1
  <2> HIDE DEF shown
  <2> QED  BY <1>1, <2>1, <2>2, <2>3, NotesRead
<1>6. CASE read_transcript(q)
  <2>1. PICK x \in Of(a, "transcript") : Shows(q, {x}, Note(q, x.owner))
    BY <1>6 DEF read_transcript
  <2>2. r.does = "open" /\ Requires(q)
    BY <1>6 DEF read_transcript, Handling
  <2>3. \E scope \in OTHERS_SCOPES : Holds(a, scope)
    BY <1>1, <1>2, <2>2, WideRoutes DEF Requires
  <2>4. \E note \in Note(q, x.owner) : Tells(note, q, x)
    BY DEF Note, Tells, Entry
  <2> QED  BY <1>1, <2>1, <2>3, <2>4, NotesRead
<1>7. CASE change_key(q)
  <2>1. PICK x \in Of(a, "key") :
          OwnerPermission(q, x.owner) /\ Shows(q, {x}, Note(q, x.owner))
    BY <1>7 DEF change_key
  <2>2. r.does = "rekey"
    BY <1>7 DEF change_key, Handling
  <2>3. x.owner # a.id => \E scope \in OTHERS_SCOPES : Holds(a, scope)
    BY <1>1, <2>1, <2>2, WideRoutes DEF OwnerPermission, Wide
  <2> QED  BY <1>1, <2>1, <2>2, <2>3, NotesRead
<1>8. CASE \E asked \in People \cup {None} : ReadAny(q, asked)
  <2>1. PICK asked \in People \cup {None} : ReadAny(q, asked)
    BY <1>8
  <2> DEFINE about == IF Wide(q) THEN asked ELSE a.id
             shown == IF about = None THEN Of(a, r.of) ELSE OwnedBy(a, r.of, about)
             notes == IF Wide(q) /\ about # a.id THEN Note(q, about) ELSE {}
  <2>2. Shows(q, shown, notes) /\ r.does = "any"
    BY <2>1 DEF ReadAny, Handling
  <2>3. Wide(q) => \E scope \in OTHERS_SCOPES : Holds(a, scope)
    BY <1>1, <2>2, WideRoutes DEF Wide
  <2>4. ASSUME NEW x \in shown, x.owner # a.id
        PROVE  Wide(q) /\ about # a.id /\ about \in {None, x.owner}
    BY <1>1, <1>2, <2>4
  <2>5. ASSUME NEW x \in shown, x.owner # a.id
        PROVE  \E note \in notes : Tells(note, q, x)
    <3>1. notes = {Entry(a, r.name, about)} /\ about \in {None, x.owner}
      BY <2>4, <2>5 DEF Note
    <3>2. Tells(Entry(a, r.name, about), q, x)
      BY <3>1 DEF Tells, Entry
    <3> QED  BY <3>1, <3>2
  <2> HIDE DEF shown, notes
  <2>6. \A x \in shown : x.owner # a.id => Wide(q)
    BY <2>4
  <2> QED  BY <1>1, <2>2, <2>3, <2>5, <2>6, NotesRead
<1> QED  BY <1>3, <1>4, <1>5, <1>6, <1>7, <1>8, <1>9

\* Handlers that show nothing.
LEMMA NotesWrites ==
  ASSUME PowerInv, NotesInv, NEW q \in Requests,
         \/ Change(q) \/ Probe(q) \/ Add(q) \/ Remove(q) \/ Use(q) \/ Purge(q)
         \/ \E p \in People :
              \/ Touch(q, p) \/ delete_user(q, p) \/ issue_key(q, p)
              \/ \E role, state : update_user(q, p, role, state)
              \/ \E role : create_account(q, p, role)
              \/ \E t : create_tenant(q, t, p)
  PROVE  NotesInv'
<1> DEFINE a == req[q].actor
<1>1. req[q].pc = "arrived"
  BY DEF Change, Probe, Touch, Add, Remove, Use, Purge, delete_user, issue_key, update_user,
     create_account, create_tenant, Handling
<1>2. CASE Change(q) \/ Probe(q) \/ \E p \in People : Touch(q, p)
  <2>1. \E notes : Shows(q, {}, notes)
    BY <1>2 DEF Change, Probe, Touch
  <2> QED  BY <1>1, <2>1, NotesRead
<1>3. CASE Add(q)
  <2>1. PICK plan : plan = [NoPlan EXCEPT !.adds = {Content(q)}, !.notes = Note(q, None)]
    OBVIOUS
  <2>2. plan.shown = {} /\ Planned(q, plan)
    BY <1>3, <2>1 DEF Add, Plans, NoPlan
  <2> QED  BY <1>1, <2>2, NotesQuiet
<1>4. CASE Remove(q)
  <2>1. PICK plan : plan = [NoPlan EXCEPT !.drops = {Content(q)}, !.notes = Note(q, None)]
    OBVIOUS
  <2>2. plan.shown = {} /\ Planned(q, plan)
    BY <1>4, <2>1 DEF Remove, Plans, NoPlan
  <2> QED  BY <1>1, <2>2, NotesQuiet
<1>5. CASE Use(q)
  <2>1. PICK plan : plan = [NoPlan EXCEPT
            !.adds = {[of |-> "usage", tenant |-> a.tenant, owner |-> a.id]}]
    OBVIOUS
  <2>2. plan.shown = {} /\ Planned(q, plan)
    BY <1>5, <2>1 DEF Use, Plans, NoPlan
  <2> QED  BY <1>1, <2>2, NotesQuiet
<1>6. CASE Purge(q)
  <2>1. PICK old : Plans(q, [NoPlan EXCEPT !.drops = old, !.notes = Note(q, None)])
    BY <1>6 DEF Purge, Plans
  <2>2. PICK plan : plan = [NoPlan EXCEPT !.drops = old, !.notes = Note(q, None)]
    OBVIOUS
  <2>3. plan.shown = {} /\ Planned(q, plan)
    BY <2>1, <2>2 DEF Purge, Plans, NoPlan
  <2> QED  BY <1>1, <2>3, NotesQuiet
<1>7. CASE \E p \in People : delete_user(q, p)
  <2>1. PICK p \in People : delete_user(q, p)
    BY <1>7
  <2>2. PICK plan : plan = [NoPlan EXCEPT !.change = "delete", !.about = p, !.stamp = a.tenant,
                                          !.drops = OwnedBy(a, "key", p), !.notes = Note(q, p)]
    OBVIOUS
  <2>3. plan.shown = {} /\ Planned(q, plan)
    BY <2>1, <2>2 DEF delete_user, Plans, NoPlan
  <2> QED  BY <1>1, <2>3, NotesQuiet
<1>8. CASE \E p \in People : issue_key(q, p)
  <2>1. PICK p \in People : issue_key(q, p)
    BY <1>8
  <2>2. PICK plan : plan = [NoPlan EXCEPT !.change = "issue", !.about = p,
                                          !.adds = {KeyOf(a, p)}, !.notes = Note(q, p)]
    OBVIOUS
  <2>3. plan.shown = {} /\ Planned(q, plan)
    BY <2>1, <2>2 DEF issue_key, Plans, NoPlan
  <2> QED  BY <1>1, <2>3, NotesQuiet
<1>9. CASE \E p \in People : \E role, state : update_user(q, p, role, state)
  <2>1. PICK p, role, state : update_user(q, p, role, state)
    BY <1>9
  <2>2. PICK grant, notes : Plans(q, [NoPlan EXCEPT !.change = "edit", !.about = p, !.state = state,
                                        !.grant = grant, !.stamp = a.tenant, !.notes = notes])
    BY <2>1 DEF update_user, Plans
  <2>3. PICK plan : plan = [NoPlan EXCEPT !.change = "edit", !.about = p, !.state = state,
                              !.grant = grant, !.stamp = a.tenant, !.notes = notes]
    OBVIOUS
  <2>4. plan.shown = {} /\ Planned(q, plan)
    BY <2>2, <2>3 DEF update_user, Plans, NoPlan
  <2> QED  BY <1>1, <2>4, NotesQuiet
<1>10. CASE \E p \in People : \E role : create_account(q, p, role)
  <2>1. PICK p, role : create_account(q, p, role)
    BY <1>10
  <2>2. PICK plan : plan = [NoPlan EXCEPT !.change = "create", !.about = p, !.grant = role,
                                          !.stamp = a.tenant, !.notes = Note(q, p)]
    OBVIOUS
  <2>3. plan.shown = {} /\ Planned(q, plan)
    BY <2>1, <2>2 DEF create_account, NoPlan
  <2> QED  BY <1>1, <2>3, NotesQuiet
<1>11. CASE \E p \in People : \E t : create_tenant(q, t, p)
  <2>1. PICK p, t : create_tenant(q, t, p)
    BY <1>11
  <2>2. PICK plan : plan = [NoPlan EXCEPT !.change = "found", !.about = p, !.grant = "admin",
                                          !.stamp = t, !.notes = Note(q, p) \cup Note(q, t)]
    OBVIOUS
  <2>3. plan.shown = {} /\ Planned(q, plan)
    BY <2>1, <2>2 DEF create_tenant, NoPlan
  <2> QED  BY <1>1, <2>3, NotesQuiet
<1> QED  BY <1>2, <1>3, <1>4, <1>5, <1>6, <1>7, <1>8, <1>9, <1>10, <1>11

LEMMA NotesMoved ==
  ASSUME PowerInv, NotesInv, NEW q \in Requests,
         \/ \E p \in People, r \in Exercised : Arrive(q, p, r)
         \/ Refuse(q) \/ CommitFails(q) \/ Commit(q)
         \/ \E note \in req[q].plan.notes : Record(q, note)
  PROVE  NotesInv'
<1>1. DOMAIN req = Requests /\ Shaped(req[q]) /\ Told(q)
  BY DEF PowerInv, NotesInv
<1>2. CASE \E p \in People, r \in Exercised : Arrive(q, p, r)
  <2>1. PICK p \in People, r \in Exercised : Arrive(q, p, r)
    BY <1>2
  <2>2. /\ \A o \in Requests \ {q} : req'[o] = req[o]
        /\ req'[q].pc = "arrived" /\ req'[q].plan = NoPlan /\ req'[q].actor.id = p
    BY <1>1, <2>1 DEF Arrive, Actor
  <2>3. Told(q)'
    BY <2>2 DEF Told, Others, NoPlan
  <2> QED  BY <2>1, <2>2, <2>3, NotesOneRequest DEF Arrive
<1>3. CASE Refuse(q)
  <2>1. /\ \A o \in Requests \ {q} : req'[o] = req[o]
        /\ req[q].pc = "arrived" /\ req'[q].pc = "refused"
        /\ req'[q].plan = req[q].plan /\ req'[q].actor = req[q].actor
    BY <1>1, <1>3 DEF Refuse, Shaped
  <2>2. Told(q)'
    BY <1>1, <2>1 DEF Told, Others
  <2> QED  BY <1>3, <2>1, <2>2, NotesOneRequest DEF Refuse
<1>4. CASE Commit(q) \/ CommitFails(q)
  <2>1. /\ \A o \in Requests \ {q} : req'[o] = req[o]
        /\ req[q].pc = "noting" /\ req[q].plan.notes = {} /\ req'[q].pc \in {"answered", "failed"}
        /\ req'[q].plan = req[q].plan /\ req'[q].actor = req[q].actor
        /\ req'[q].route = req[q].route /\ trail' = trail /\ lost' = lost
    BY <1>1, <1>4 DEF Commit, CommitFails, Shaped
  <2>2. Told(q)'
    BY <1>1, <2>1 DEF Told, Others, Tells, Holds
  <2> QED  BY <2>1, <2>2, NotesOneRequest
<1>5. CASE \E note \in req[q].plan.notes : Record(q, note)
  <2>1. PICK note \in req[q].plan.notes : Record(q, note)
    BY <1>5
  <2>2. /\ \A o \in Requests \ {q} : req'[o] = req[o]
        /\ req[q].pc = "noting" /\ req'[q].pc = "noting"
        /\ req'[q].plan.notes = req[q].plan.notes \ {note}
        /\ req'[q].plan.shown = req[q].plan.shown
        /\ req'[q].actor = req[q].actor /\ req'[q].route = req[q].route
    BY <1>1, <2>1 DEF Record, Shaped, PlanFields
  <2>3. /\ trail \subseteq trail' /\ lost \subseteq lost'
        /\ req[q].plan.notes \cup trail \cup lost \subseteq req'[q].plan.notes \cup trail' \cup lost'
    BY <2>1, <2>2 DEF Record
  <2>4. Told(q)'
    BY <1>1, <2>2, <2>3 DEF Told, Others, Tells, Holds
  <2> QED  BY <2>2, <2>3, <2>4, NotesOneRequest
<1> QED  BY <1>2, <1>3, <1>4, <1>5

THEOREM NotesInvariant ==
  ASSUME AuthorityAssumption
  PROVE  Spec => []NotesInv
<1>1. Init => NotesInv
  BY DEF Init, NotesInv, Told, Others, Idle, NoPlan
<1>2. PowerInv /\ KeysInv /\ NotesInv /\ [Next]_vars => NotesInv'
  <2> SUFFICES ASSUME PowerInv, KeysInv, NotesInv, [Next]_vars PROVE NotesInv'
    OBVIOUS
  <2>1. CASE UNCHANGED vars
    BY <2>1 DEF vars, NotesInv, Told, Others, Tells, Holds
  <2>2. ASSUME NEW q \in Requests, Step(q) PROVE NotesInv'
    <3>1. CASE Handle(q)
      BY <3>1, NotesReads, NotesWrites, NotesMoved DEF Handle
    <3> QED  BY <2>2, <3>1, NotesMoved DEF Step
  <2> QED  BY <2>1, <2>2 DEF Next
<1>3. Spec => []PowerInv
  BY AuthorityInvariant
<1>4. Spec => []KeysInv
  BY KeysInvariant
<1> QED  BY <1>1, <1>2, <1>3, <1>4, PTL DEF Spec

\* Whoever is shown what another owns may be, and where the code audits the reading, it was
\* noted before the answer: list_refusals, list_usage_records and read_prompt_log write the
\* entry in a transaction of its own before the request's commits.
THEOREM OthersReadByRight ==
  ASSUME AuthorityAssumption
  PROVE  Spec => []OthersByRight
<1>1. NotesInv => OthersByRight
  BY DEF NotesInv, Told, OthersByRight
<1> QED  BY <1>1, NotesInvariant, PTL

\* Together: power, keys and rows stay where they belong, whatever requests interleave.
THEOREM AuthorityStays ==
  ASSUME AuthorityAssumption
  PROVE  Spec => []AuthorityHolds
<1>1. PowerStays /\ KeysHaveOwners /\ TenantsApart /\ OthersByRight => AuthorityHolds
  BY DEF AuthorityHolds
<1> QED  BY <1>1, PowerNeverGrows, KeysStayOwned, NothingShownAcross, OthersReadByRight, PTL

-------------------------------------------------------------------------------
CONSTANTS
  Users, Procs, Sids, Tokens, UserRows, SignedIn, Ops,
  AbsoluteTtl, IdleTtl, InvitationTtl, FREE_ATTEMPTS, IP_FREE_ATTEMPTS, SKEW_STEPS,
  MaxNow, MaxEpoch

VARIABLES
  row, sess, watermark, chal, pending, fails, maint, inv, codes, lock, request, now, spent,
  rung, revoked

A == INSTANCE Accounts WITH req <- request, Rows0 <- UserRows

\* What a request of the accounts' handlers may hold, by its operation and its step.
Instants == 0 .. MaxNow
Sessions == [user : Users, created : Instants, expires : Nat, epoch : Nat, until : Int]
Typings == [kind : {"totp", "recovery", "wrong"}, val : Int]
LinkOps == {"onboard", "reset"}
OwnOps == {"password", "totp"}
Operations == {"none", "login", "factor"} \cup A!OnSession \cup A!AdminOps \cup LinkOps
Steps == {"idle", "password", "taken", "verify", "claim", "admit", "create", "commit", "check",
          "refresh", "resolve", "accepted", "destroy", "own", "mark", "kept", "restamp", "write",
          "drop", "link", "claimed"}
SetChanges == [seen : SUBSET Instants, add : SUBSET Instants]
Requested ==
  [op : Operations, pc : Steps, user : Users \cup {None}, sid : Sids \cup {None}, at : Instants,
   data : Sessions \cup {None}, mark : [Users -> Nat], epoch : Nat,
   row : A!Rows \cup {None}, stamp : Instants, write : A!Writes \cup {None},
   token : Tokens \cup {None}, codes : SetChanges, key : Procs \cup {None},
   code : Typings \cup {None}, secret : Nat]

\* The steps of an operation, and what it holds at each.
Placed(r) ==
  /\ r.op = "none" <=> r.pc = "idle"
  /\ r.op = "none" => r.codes.add = {}
  /\ r.op = "login" => r.pc = "password" /\ r.user \in Users
  /\ r.op = "factor" =>
       /\ r.pc \in {"taken", "verify", "claim", "admit", "create", "commit"}
       /\ r.user \in Users /\ r.key \in Procs /\ r.code \in Typings
       /\ r.pc \notin {"taken", "verify"} => r.row \in A!Rows
  /\ r.op \in A!OnSession =>
       /\ r.sid \in Sids /\ r.data \in Sessions
       /\ r.pc \in {"check", "refresh", "resolve", "accepted", "destroy", "own", "mark", "kept",
                    "restamp", "commit"}
       /\ r.pc \notin {"check", "refresh", "resolve", "destroy"} =>
            r.user \in Users /\ r.row \in A!Rows
       /\ r.pc \in {"own", "mark", "kept", "restamp", "commit"} => r.op \in OwnOps
  /\ r.op \in A!AdminOps =>
       /\ r.user \in Users /\ r.row \in A!Rows
       /\ r.pc \in {"write", "mark", "drop", "commit"}
  /\ r.op \in LinkOps =>
       /\ r.user \in Users /\ r.row \in A!Rows /\ r.token \in Tokens
       /\ r.pc \in {"link", "claimed", "mark", "commit"}
  /\ r.op \notin LinkOps => r.token = None

Types ==
  /\ row \in [Users -> A!Rows \cup {None}]
  /\ sess \in [Sids -> Sessions \cup {None}]
  /\ chal \in [Procs -> Users \cup {None}]
  /\ pending \in [Users -> Nat]
  /\ maint \in [closed : BOOLEAN, epoch : 0 .. MaxEpoch]
  /\ inv \in [Tokens -> A!Invitations \cup {None}]
  /\ codes \in [Users -> SUBSET Instants]
  /\ lock \in [Users -> Procs \cup {None}]
  /\ request \in [Procs -> Requested]
  /\ \A p \in Procs : Placed(request[p])
  /\ now \in 1 .. MaxNow
  /\ spent \subseteq [user : Users, secret : Nat, code : Typings, sid : Sids, born : Instants,
                      epoch : Nat]
  /\ rung \in [Tokens -> Nat]
  /\ revoked \in [Users -> Nat]

\* A link is claimed by one request at a time, of the account it was issued to, and one that
\* is open or being claimed was not used yet.
Claiming == {"claimed", "mark", "commit"}
LinkOwned(p, r) ==
  r.op \in LinkOps =>
    /\ inv[r.token] # None /\ inv[r.token].user = r.user
    /\ r.pc \in Claiming =>
         /\ rung[r.token] = 0
         /\ \A q \in Procs \ {p} : ~(request[q].pc \in Claiming /\ request[q].token = r.token)
LinksOwned ==
  /\ \A p \in Procs : LinkOwned(p, request[p])
  /\ \A t \in Tokens : inv[t] = None \/ inv[t].state = "open" => rung[t] = 0
  /\ \A t \in Tokens : rung[t] <= 1

\* A session entry, on record or read, is of one sign-in: its lifetime and its maintenance epoch
\* are that one's, whatever was refreshed or written again.
SignedBy(x, s, d) ==
  /\ x.sid = s /\ d.expires = x.born + AbsoluteTtl /\ d.epoch = x.epoch /\ x.born <= d.created
SessionOwned(S, s, d, t) == (\E x \in S : SignedBy(x, s, d)) /\ d.created <= t
CallOwned(S, r, t) ==
  r.op \in A!OnSession =>
    /\ SessionOwned(S, r.sid, r.data, t) /\ r.at <= t
    /\ r.pc \in {"refresh", "resolve", "accepted"} => r.at < r.data.expires
    /\ r.pc = "accepted" => r.row.role = "admin" \/ r.data.epoch >= r.epoch
    /\ r.pc \in {"kept", "restamp"} =>
         r.stamp <= t /\ \A x \in S : x.sid = r.sid => x.born <= r.stamp
SessionsOwned ==
  /\ \A x, y \in spent : x.sid = y.sid => x = y
  /\ \A s \in Sids : sess[s] # None => SessionOwned(spent, s, sess[s], now)
  /\ \A p \in Procs : CallOwned(spent, request[p], now)

\* A row's lock is of a request on that row, from its first statement to its commit.
LockOwned(r, u) ==
  /\ r.user = u /\ r.pc \in {"admit", "create", "mark", "kept", "restamp", "commit"}
  /\ r.op = "delete" => r.pc = "commit"
LocksOwned == \A u \in Users, p \in Procs : lock[u] = p => LockOwned(request[p], u)

\* The recovery codes on record are one set, and a request that will add one holds the row's
\* lock and has seen all there are.
SetOwned(r) ==
  r.codes.add # {} =>
    /\ r.user \in Users /\ r.pc \in {"kept", "restamp", "commit"}
    /\ codes[r.user] \subseteq r.codes.seen /\ r.codes.add \subseteq {r.stamp}
HoldsLock(r) == r.codes.add # {} \/ (r.pc = "mark" /\ r.op # "delete")
SetsOwned ==
  /\ \A u \in Users : \E x \in Instants : codes[u] \subseteq {x}
  /\ \A p \in Procs : SetOwned(request[p])
  /\ \A p \in Procs : HoldsLock(request[p]) => lock[request[p].user] = p

AccountsInv == Types /\ LinksOwned /\ SessionsOwned /\ LocksOwned /\ SetsOwned

\* A step that changes one request, locks of it, sessions of known sign-ins and columns of
\* rows keeps the invariant, if the request is as it should be afterwards.
LEMMA CallKept ==
  ASSUME A!AccountsAssumption, AccountsInv, NEW p \in Procs, NEW r \in Requested,
         request' = [request EXCEPT ![p] = r],
         Placed(r), LinkOwned(p, r), CallOwned(spent', r, now'), SetOwned(r),
         UNCHANGED <<inv, codes, rung>>,
         spent \subseteq spent',
         spent' \subseteq [user : Users, secret : Nat, code : Typings, sid : Sids, born : Instants,
                           epoch : Nat],
         \A x, y \in spent' : x.sid = y.sid => x = y,
         row' \in [Users -> A!Rows \cup {None}], sess' \in [Sids -> Sessions \cup {None}],
         chal' \in [Procs -> Users \cup {None}], pending' \in [Users -> Nat],
         maint' \in [closed : BOOLEAN, epoch : 0 .. MaxEpoch],
         lock' \in [Users -> Procs \cup {None}], revoked' \in [Users -> Nat],
         now' \in 1 .. MaxNow, now <= now',
         \A s \in Sids : sess'[s] # None => sess'[s] = sess[s] \/ SessionOwned(spent', s, sess'[s], now'),
         \A u \in Users, q \in Procs \ {p} : lock'[u] = q <=> lock[u] = q,
         \A u \in Users : lock'[u] = p => LockOwned(r, u),
         HoldsLock(r) => lock'[r.user] = p
  PROVE  AccountsInv'
<1>0. Types
  BY DEF AccountsInv
<1>1. /\ request' \in [Procs -> Requested] /\ request'[p] = r
      /\ \A q \in Procs \ {p} : request'[q] = request[q]
  BY <1>0 DEF Types
<1>2. Types'
  BY <1>0, <1>1 DEF Types, Placed
<1>3. LinksOwned'
  <2>1. LinkOwned(p, r)'
    BY <1>1 DEF LinkOwned
  <2>2. ASSUME NEW q \in Procs \ {p} PROVE LinkOwned(q, request[q])'
    <3>1. LinkOwned(q, request[q]) /\ LinkOwned(p, r)
      BY DEF AccountsInv, LinksOwned
    <3>2. r.op \notin LinkOps => r.token = None
      BY DEF Placed
    <3>3. request[q].op \in LinkOps => request[q].token \in Tokens
      BY <1>0 DEF Types, Placed
    <3>4. None \notin Tokens
      BY DEF A!AccountsAssumption
    <3> QED BY <1>1, <3>1, <3>2, <3>3, <3>4 DEF LinkOwned
  <2> QED BY <1>1, <2>1, <2>2 DEF AccountsInv, LinksOwned
<1>4. SessionsOwned'
  <2>1. now \in Nat /\ now' \in Nat /\ now <= now'
    BY <1>0, <1>2 DEF Types
  <2>2. ASSUME NEW s, NEW d, d.created \in Nat, SessionOwned(spent, s, d, now)
        PROVE  SessionOwned(spent', s, d, now')
    BY <2>1, <2>2 DEF SessionOwned
  <2>3. CallOwned(spent, request[p], now)'
    BY <1>1 DEF CallOwned, SessionOwned
  <2>4. ASSUME NEW q \in Procs \ {p} PROVE CallOwned(spent, request[q], now)'
    <3> DEFINE c == request[q]
    <3>1. /\ c \in Requested /\ Placed(c) /\ CallOwned(spent, c, now)
          /\ c.at \in Nat /\ c.stamp \in Nat
      BY <1>0 DEF Types, Requested, Instants, AccountsInv, SessionsOwned
    <3>2. c.op \in A!OnSession => c.data.created \in Nat
      BY <3>1 DEF Placed, Sessions, Instants
    <3> HIDE DEF c
    <3>3. ASSUME c.op \in A!OnSession
          PROVE  \A x \in spent' : x.sid = c.sid => x \in spent
      <4>1. PICK y \in spent : y.sid = c.sid
        BY <3>1, <3>3 DEF CallOwned, SessionOwned, SignedBy
      <4> QED BY <4>1
    <3>4. CallOwned(spent', c, now')
      BY <2>1, <2>2, <3>1, <3>2, <3>3 DEF CallOwned
    <3> QED BY <1>1, <3>4 DEF CallOwned, SessionOwned, c
  <2>5. ASSUME NEW s \in Sids, sess'[s] # None PROVE SessionOwned(spent, s, sess[s], now)'
    <3>1. SessionOwned(spent', s, sess'[s], now')
      <4>1. CASE sess'[s] = sess[s]
        <5>1. SessionOwned(spent, s, sess[s], now) /\ sess[s] \in Sessions
          BY <1>0, <2>5, <4>1 DEF AccountsInv, SessionsOwned, Types
        <5>2. sess[s].created \in Nat
          BY <5>1 DEF Sessions, Instants
        <5> QED BY <2>2, <4>1, <5>1, <5>2
      <4> QED BY <2>5, <4>1
    <3> QED BY <3>1 DEF SessionOwned
  <2> QED BY <2>3, <2>4, <2>5 DEF SessionsOwned
<1>5. LocksOwned'
  BY <1>0, <1>1 DEF AccountsInv, LocksOwned, LockOwned, Types, A!AccountsAssumption
<1>6. SetsOwned'
  <2>1. \A q \in Procs : SetOwned(request[q])'
    BY <1>1 DEF AccountsInv, SetsOwned, SetOwned
  <2>2. ASSUME NEW q \in Procs, HoldsLock(request'[q]) PROVE lock'[request'[q].user] = q
    <3>1. CASE q = p
      BY <1>1, <2>2, <3>1
    <3>2. CASE q # p
      <4>1. HoldsLock(request[q]) /\ request[q] \in Requested /\ Placed(request[q]) /\ SetOwned(request[q])
        BY <1>0, <1>1, <2>2, <3>2 DEF AccountsInv, SetsOwned, Types
      <4>2. request[q].user \in Users
        BY <4>1 DEF HoldsLock, SetOwned, Placed, Requested, Operations, LinkOps, A!OnSession, A!AdminOps
      <4>3. lock[request[q].user] = q
        BY <4>1 DEF AccountsInv, SetsOwned
      <4> QED BY <1>1, <3>2, <4>2, <4>3
    <3> QED BY <3>1, <3>2
  <2> QED BY <2>1, <2>2 DEF AccountsInv, SetsOwned
<1> QED BY <1>2, <1>3, <1>4, <1>5, <1>6 DEF AccountsInv

\* What a request that ends leaves: nothing.
LEMMA BlankCall ==
  ASSUME A!AccountsAssumption
  PROVE  /\ A!NoReq \in Requested /\ Placed(A!NoReq) /\ A!NoReq.codes.add = {}
         /\ A!NoReq.op = "none" /\ A!NoReq.token = None /\ A!NoReq.pc = "idle"
  BY DEF A!NoReq, Requested, Operations, Steps, SetChanges, Instants, Placed, A!OnSession,
         A!AdminOps, LinkOps, A!AccountsAssumption

\* A request that is at none of the steps that hold a lock holds none.
LEMMA Unlocked ==
  ASSUME AccountsInv, NEW p \in Procs,
         request[p].pc \notin {"admit", "create", "mark", "kept", "restamp", "commit"}
                \/ (request[p].op = "delete" /\ request[p].pc # "commit")
  PROVE  \A u \in Users : lock[u] # p
  BY DEF AccountsInv, LocksOwned, LockOwned

\* A request begins: it holds nothing yet.
LEMMA CallBegins ==
  ASSUME A!AccountsAssumption, AccountsInv, NEW p \in Procs, NEW r \in Requested,
         A!Begin(p, r), Placed(r), LinkOwned(p, r), CallOwned(spent, r, now), ~HoldsLock(r),
         UNCHANGED <<A!tables, A!store, maint, now, A!ghosts>>
  PROVE  AccountsInv'
<1>1. request[p].pc = "idle" /\ request' = [request EXCEPT ![p] = r]
  BY BlankCall DEF A!Begin
<1>2. \A u \in Users : lock[u] # p
  BY <1>1, Unlocked
<1>3. Types /\ SetOwned(r) /\ CallOwned(spent', r, now')
  <2>1. SetOwned(r)
    BY DEF SetOwned, HoldsLock
  <2>2. spent' = spent /\ now' = now
    BY DEF A!ghosts
  <2> QED BY <2>1, <2>2 DEF AccountsInv
<1>4. now \in 1 .. MaxNow /\ now <= now
  BY <1>3 DEF Types
<1> QED BY <1>1, <1>2, <1>3, <1>4, CallKept DEF HoldsLock, Types, A!tables, A!store, A!ghosts, AccountsInv, SessionsOwned

\* A request goes on, or ends, and writes nothing but its session, the counters and the
\* entries Redis keeps for it.
LEMMA CallGoesOn ==
  ASSUME A!AccountsAssumption, AccountsInv, NEW p \in Procs, NEW r \in Requested,
         request' = [request EXCEPT ![p] = r],
         Placed(r), LinkOwned(p, r), CallOwned(spent, r, now), SetOwned(r),
         UNCHANGED <<A!tables, spent, rung, revoked, maint, now>>,
         sess' \in [Sids -> Sessions \cup {None}],
         \A s \in Sids : sess'[s] # None => sess'[s] = sess[s] \/ SessionOwned(spent, s, sess'[s], now),
         chal' \in [Procs -> Users \cup {None}], pending' \in [Users -> Nat],
         (\A u \in Users : lock[u] # p)
           \/ /\ r.user = request[p].user /\ r.op = request[p].op
              /\ r.pc \in {"admit", "create", "mark", "kept", "restamp", "commit"}
              /\ r.op = "delete" => r.pc = "commit",
         HoldsLock(r) => lock[r.user] = p
  PROVE  AccountsInv'
<1>1. Types /\ CallOwned(spent', r, now')
  BY DEF AccountsInv
<1>2. now \in 1 .. MaxNow /\ now <= now
  BY <1>1 DEF Types
<1>3. \A u \in Users : lock[u] = p => LockOwned(r, u)
  BY DEF AccountsInv, LocksOwned, LockOwned
<1> QED BY <1>1, <1>2, <1>3, CallKept DEF HoldsLock, Types, A!tables, AccountsInv, SessionsOwned

LEMMA CallEnds ==
  ASSUME A!AccountsAssumption, AccountsInv, NEW p \in Procs, A!End(p),
         \A u \in Users : lock[u] # p,
         UNCHANGED <<A!tables, spent, rung, revoked, maint, now>>,
         sess' \in [Sids -> Sessions \cup {None}],
         \A s \in Sids : sess'[s] # None => sess'[s] = sess[s] \/ SessionOwned(spent, s, sess'[s], now),
         chal' \in [Procs -> Users \cup {None}], pending' \in [Users -> Nat]
  PROVE  AccountsInv'
<1>1. /\ LinkOwned(p, A!NoReq) /\ CallOwned(spent, A!NoReq, now) /\ SetOwned(A!NoReq)
      /\ A!NoReq \in Requested /\ Placed(A!NoReq) /\ ~HoldsLock(A!NoReq)
  BY BlankCall DEF LinkOwned, LinkOps, CallOwned, A!OnSession, SetOwned, HoldsLock
<1> QED BY <1>1, CallGoesOn DEF HoldsLock, A!End

\* Signing in.
LEMMA LoginAllowedKeeps ==
  ASSUME A!AccountsAssumption, AccountsInv, NEW p \in Procs, NEW u \in Users,
         A!LoginAllowed(p, u)
  PROVE  AccountsInv'
<1> DEFINE r == [A!NoReq EXCEPT !.op = "login", !.pc = "password", !.user = u]
<1>1. /\ r \in Requested /\ r.op = "login" /\ r.pc = "password" /\ r.user = u
      /\ r.token = None /\ r.codes.add = {}
  BY BlankCall DEF Requested, Operations, Steps
<1>2. A!Begin(p, r) /\ UNCHANGED <<A!tables, A!store, maint, now, A!ghosts>>
  BY DEF A!LoginAllowed
<1> HIDE DEF r
<1>3. Placed(r) /\ LinkOwned(p, r) /\ CallOwned(spent, r, now)
  BY <1>1 DEF Placed, LinkOwned, CallOwned, A!OnSession, LinkOps, A!AdminOps
<1> QED BY <1>1, <1>2, <1>3, CallBegins DEF HoldsLock

LEMMA VerifyPasswordKeeps ==
  ASSUME A!AccountsAssumption, AccountsInv, NEW p \in Procs, NEW good \in BOOLEAN,
         A!verify_password(p, good)
  PROVE  AccountsInv'
<1>1. Types /\ \A u \in Users : lock[u] # p
  BY Unlocked DEF AccountsInv, A!verify_password, A!At
<1>2. A!End(p) /\ UNCHANGED <<A!tables, spent, rung, revoked, maint, now, sess, pending>>
  BY DEF A!verify_password, A!ghosts
<1>3. request[p].user \in Users
  BY <1>1 DEF Types, Placed, A!verify_password, A!At
<1>4. chal' \in [Procs -> Users \cup {None}]
  BY <1>1, <1>3 DEF Types, A!verify_password, A!record_failure
<1> QED BY <1>1, <1>2, <1>4, CallEnds DEF Types

LEMMA ReadChallengeKeeps ==
  ASSUME A!AccountsAssumption, AccountsInv, NEW p \in Procs, NEW c \in Procs,
         A!ReadChallenge(p, c)
  PROVE  AccountsInv'
<1>1. Types
  BY DEF AccountsInv
<1>2. PICK code \in A!Typed(chal[c]) :
        A!Begin(p, [A!NoReq EXCEPT !.op = "factor", !.pc = "taken", !.user = chal[c],
                                   !.key = c, !.code = code])
  BY DEF A!ReadChallenge
<1> DEFINE r == [A!NoReq EXCEPT !.op = "factor", !.pc = "taken", !.user = chal[c], !.key = c,
                                !.code = code]
<1>3. chal[c] \in Users
  BY <1>1 DEF Types, A!ReadChallenge
<1>4. code \in Typings
  <2>1. codes[chal[c]] \subseteq Int /\ now \in Int
    BY <1>1, <1>3 DEF Types, Instants
  <2> QED BY <2>1 DEF A!Typed, Typings, A!AccountsAssumption
<1>5. /\ r \in Requested /\ r.op = "factor" /\ r.pc = "taken" /\ r.user = chal[c] /\ r.key = c
      /\ r.code = code /\ r.token = None /\ r.codes.add = {}
  BY <1>3, <1>4, BlankCall DEF Requested, Operations, Steps
<1> HIDE DEF r
<1>6. Placed(r) /\ LinkOwned(p, r) /\ CallOwned(spent, r, now)
  BY <1>3, <1>4, <1>5 DEF Placed, LinkOwned, CallOwned, A!OnSession, LinkOps, A!AdminOps
<1>7. UNCHANGED <<A!tables, A!store, maint, now, A!ghosts>> /\ A!Begin(p, r)
  BY <1>2 DEF A!ReadChallenge, r
<1> QED BY <1>5, <1>6, <1>7, CallBegins DEF HoldsLock

\* A request takes its next step, holding what it held.
LEMMA CallSteps ==
  ASSUME A!AccountsAssumption, AccountsInv, NEW p \in Procs, NEW pc \in Steps, A!Step(p, pc)
  PROVE  LET c == request[p]
             r == [request[p] EXCEPT !.pc = pc]
         IN  /\ request' = [request EXCEPT ![p] = r] /\ r \in Requested /\ r.pc = pc
             /\ c \in Requested /\ Placed(c)
             /\ r.op = c.op /\ r.user = c.user /\ r.sid = c.sid /\ r.at = c.at /\ r.data = c.data
             /\ r.epoch = c.epoch /\ r.row = c.row /\ r.stamp = c.stamp /\ r.token = c.token
             /\ r.codes = c.codes /\ r.key = c.key /\ r.code = c.code /\ r.write = c.write
             /\ LinkOwned(p, c) /\ CallOwned(spent, c, now) /\ SetOwned(c)
             /\ HoldsLock(c) => lock[c.user] = p
<1>1. Placed(request[p]) /\ LinkOwned(p, request[p]) /\ CallOwned(spent, request[p], now)
  BY DEF AccountsInv, Types, LinksOwned, SessionsOwned
<1>2. SetOwned(request[p]) /\ (HoldsLock(request[p]) => lock[request[p].user] = p)
  BY DEF AccountsInv, SetsOwned
<1>3. request[p] \in Requested
  BY DEF AccountsInv, Types
<1> QED BY <1>1, <1>2, <1>3 DEF AccountsInv, Types, A!Step, Requested

LEMMA DropChallengeKeeps ==
  ASSUME A!AccountsAssumption, AccountsInv, NEW p \in Procs, A!DropChallenge(p)
  PROVE  AccountsInv'
<1> DEFINE r == [request[p] EXCEPT !.pc = "verify"]
<1> DEFINE c == request[p]
<1>1. Types /\ (\A u \in Users : lock[u] # p) /\ c.op = "factor" /\ c.pc = "taken"
  BY Unlocked DEF AccountsInv, A!DropChallenge, A!At
<1>2. /\ request' = [request EXCEPT ![p] = r] /\ r \in Requested /\ r.pc = "verify"
      /\ r.op = c.op /\ r.user = c.user /\ r.token = c.token /\ r.codes = c.codes
      /\ r.key = c.key /\ r.code = c.code /\ Placed(c) /\ SetOwned(c)
  <2>1. A!Step(p, "verify") /\ "verify" \in Steps
    BY DEF A!DropChallenge, Steps
  <2> QED BY <2>1, CallSteps
<1> HIDE DEF r, c
<1>3. Placed(r) /\ LinkOwned(p, r) /\ CallOwned(spent, r, now) /\ SetOwned(r) /\ r.codes.add = {}
  BY <1>1, <1>2 DEF Placed, LinkOwned, CallOwned, SetOwned, A!OnSession, LinkOps, A!AdminOps
<1>4. chal' \in [Procs -> Users \cup {None}]
  BY <1>1 DEF Types, A!DropChallenge
<1> QED BY <1>1, <1>2, <1>3, <1>4, CallGoesOn DEF HoldsLock, A!DropChallenge, A!ghosts, Types

LEMMA VerifyCodeKeeps ==
  ASSUME A!AccountsAssumption, AccountsInv, NEW p \in Procs, A!VerifyCode(p)
  PROVE  AccountsInv'
<1> DEFINE c == request[p]
<1> DEFINE v == row[request[p].user]
<1> DEFINE r == [c EXCEPT !.row = v, !.pc = "claim"]
<1>1. Types /\ (\A u \in Users : lock[u] # p) /\ c.op = "factor" /\ c.pc = "verify"
  BY Unlocked DEF AccountsInv, A!VerifyCode, A!At
<1>2. c \in Requested /\ Placed(c) /\ SetOwned(c)
  BY <1>1 DEF Types, AccountsInv, SetsOwned
<1>3. c.user \in Users /\ row[c.user] \in A!Rows \cup {None}
  BY <1>1, <1>2 DEF Placed, Types
<1>4. CASE A!End(p)
  BY <1>1, <1>4, CallEnds DEF A!VerifyCode, A!ghosts, Types
<1>5. CASE A!require_second_step(c.user) /\ A!Reads(p, c.user, "claim")
  <2>1. row[c.user] \in A!Rows
    BY <1>3, <1>5 DEF A!require_second_step, A!Usable
  <2>2. /\ request' = [request EXCEPT ![p] = r] /\ r \in Requested /\ r.pc = "claim"
        /\ r.op = c.op /\ r.user = c.user /\ r.token = c.token /\ r.codes = c.codes
        /\ r.key = c.key /\ r.code = c.code /\ r.row = row[c.user]
    <3>1. request' = [request EXCEPT ![p] = r]
      BY <1>1, <1>5 DEF A!Reads, Types
    <3>2. c \in Requested /\ v \in A!Rows
      BY <1>2, <2>1
    <3>3. /\ r \in Requested /\ r.pc = "claim" /\ r.op = c.op /\ r.user = c.user
          /\ r.token = c.token /\ r.codes = c.codes /\ r.key = c.key /\ r.code = c.code
          /\ r.row = v
      <4> HIDE DEF c, v
      <4>1. r \in Requested
        BY <3>2 DEF Requested, Steps
      <4>2. r.row = v /\ r.pc = "claim" /\ r.op = c.op /\ r.user = c.user /\ r.token = c.token
        BY <3>2 DEF Requested
      <4>3. r.codes = c.codes /\ r.key = c.key /\ r.code = c.code
        BY <3>2 DEF Requested
      <4> QED BY <4>1, <4>2, <4>3
    <3> QED BY <3>1, <3>3
  <2> HIDE DEF r, c
  <2>3. Placed(r) /\ LinkOwned(p, r) /\ CallOwned(spent, r, now) /\ SetOwned(r) /\ r.codes.add = {}
    BY <1>1, <1>2, <2>1, <2>2 DEF Placed, LinkOwned, CallOwned, SetOwned, A!OnSession, LinkOps, A!AdminOps
  <2> QED BY <1>1, <2>2, <2>3, CallGoesOn DEF HoldsLock, A!VerifyCode, A!ghosts, Types
<1> QED BY <1>4, <1>5 DEF A!VerifyCode

LEMMA ClaimTotpKeeps ==
  ASSUME A!AccountsAssumption, AccountsInv, NEW p \in Procs, A!ClaimTotp(p)
  PROVE  AccountsInv'
<1> DEFINE c == request[p]
<1> DEFINE w == [counter |-> c.code.val]
<1> DEFINE r == [request[p] EXCEPT !.write = w, !.pc = "admit"]
<1>1. Types /\ (\A u \in Users : lock[u] # p) /\ c.op = "factor" /\ c.pc = "claim"
  BY Unlocked DEF AccountsInv, A!ClaimTotp, A!At
<1>2. c \in Requested /\ Placed(c) /\ SetOwned(c) /\ c.user \in Users /\ c.code \in Typings
  BY <1>1 DEF Types, AccountsInv, SetsOwned, Placed
<1>3. CASE A!End(p) /\ UNCHANGED lock
  BY <1>1, <1>3, CallEnds DEF A!ClaimTotp, A!tables, A!ghosts, Types
<1>4. CASE /\ lock' = [lock EXCEPT ![c.user] = p]
           /\ request' = [request EXCEPT ![p].write = w, ![p].pc = "admit"]
  <2>1. w \in A!Writes
    BY <1>2 DEF A!Writes, Typings
  <2>2. /\ request' = [request EXCEPT ![p] = r] /\ r \in Requested /\ r.pc = "admit"
        /\ r.op = c.op /\ r.user = c.user /\ r.token = c.token /\ r.codes = c.codes
        /\ r.key = c.key /\ r.code = c.code /\ r.row = c.row
    <3>1. request' = [request EXCEPT ![p] = r]
      BY <1>1, <1>4 DEF Types
    <3> HIDE DEF w
    <3>2. /\ r \in Requested /\ r.pc = "admit" /\ r.op = c.op /\ r.user = c.user
          /\ r.token = c.token /\ r.codes = c.codes /\ r.key = c.key /\ r.code = c.code
          /\ r.row = c.row
      BY <1>2, <2>1 DEF Requested, Steps
    <3> QED BY <3>1, <3>2
  <2> HIDE DEF r, c
  <2>3. Placed(r) /\ LinkOwned(p, r) /\ CallOwned(spent', r, now') /\ SetOwned(r) /\ r.codes.add = {}
    BY <1>1, <1>2, <2>2 DEF Placed, LinkOwned, CallOwned, SetOwned, A!OnSession, LinkOps, A!AdminOps
  <2>4. LockOwned(r, c.user)
    BY <1>1, <2>2 DEF LockOwned
  <2>5. /\ lock' \in [Users -> Procs \cup {None}]
        /\ \A u \in Users, q \in Procs \ {p} : lock'[u] = q <=> lock[u] = q
        /\ \A u \in Users : lock'[u] = p => LockOwned(r, u)
    <3>1. lock[c.user] \in {None, p}
      BY DEF A!ClaimTotp, A!Free, c
    <3> QED BY <1>1, <1>2, <1>4, <2>4, <3>1 DEF Types, A!AccountsAssumption
  <2>6. now \in 1 .. MaxNow /\ now <= now
    BY <1>1 DEF Types
  <2> QED BY <1>1, <2>2, <2>3, <2>5, <2>6, CallKept DEF HoldsLock, A!ClaimTotp, A!ghosts, Types, AccountsInv, SessionsOwned
<1> QED BY <1>3, <1>4 DEF A!ClaimTotp

\* What is known of any request.
LEMMA CallKnown ==
  ASSUME AccountsInv, NEW p \in Procs
  PROVE  LET c == request[p]
         IN  /\ c \in Requested /\ Placed(c) /\ LinkOwned(p, c) /\ CallOwned(spent, c, now)
             /\ SetOwned(c) /\ (HoldsLock(c) => lock[c.user] = p)
             /\ \A u \in Users : lock[u] = p => LockOwned(c, u)
<1>1. request[p] \in Requested /\ Placed(request[p]) /\ LinkOwned(p, request[p])
  BY DEF AccountsInv, Types, LinksOwned
<1>2. CallOwned(spent, request[p], now) /\ SetOwned(request[p])
  BY DEF AccountsInv, SessionsOwned, SetsOwned
<1>3. HoldsLock(request[p]) => lock[request[p].user] = p
  BY DEF AccountsInv, SetsOwned
<1>4. \A u \in Users : lock[u] = p => LockOwned(request[p], u)
  BY DEF AccountsInv, LocksOwned
<1> QED BY <1>1, <1>2, <1>3, <1>4

LEMMA ClaimRecoveryKeeps ==
  ASSUME A!AccountsAssumption, AccountsInv, NEW p \in Procs, A!ClaimRecovery(p)
  PROVE  AccountsInv'
<1> DEFINE c == request[p]
<1> DEFINE x == c.code.val
<1> DEFINE r == [c EXCEPT !.codes.seen = {x}, !.pc = "admit"]
<1>1. Types /\ (\A u \in Users : lock[u] # p) /\ c.op = "factor" /\ c.pc = "claim"
  BY Unlocked DEF AccountsInv, A!ClaimRecovery, A!At
<1>2. c \in Requested /\ Placed(c) /\ SetOwned(c) /\ c.user \in Users
  BY <1>1, CallKnown DEF Placed
<1>3. CASE A!End(p)
  BY <1>1, <1>3, CallEnds DEF A!ClaimRecovery, A!ghosts, Types
<1>4. CASE /\ A!consume_recovery_code(c.user, x)
           /\ request' = [request EXCEPT ![p].codes.seen = {x}, ![p].pc = "admit"]
  <2>1. x \in Instants
    BY <1>1, <1>2, <1>4 DEF A!consume_recovery_code, Types
  <2>2. request' = [request EXCEPT ![p] = r]
    BY <1>1, <1>4 DEF Types
  <2>3. /\ r \in Requested /\ r.pc = "admit" /\ r.op = c.op /\ r.user = c.user
        /\ r.token = c.token /\ r.codes.add = c.codes.add
        /\ r.key = c.key /\ r.code = c.code /\ r.row = c.row
    <3> HIDE DEF c, x
    <3>1. c.codes \in SetChanges
      BY <1>2 DEF Requested
    <3>2. [c.codes EXCEPT !.seen = {x}] \in SetChanges /\ [c.codes EXCEPT !.seen = {x}].add = c.codes.add
      BY <3>1, <2>1 DEF SetChanges
    <3> DEFINE k == [c.codes EXCEPT !.seen = {x}]
    <3>3. r = [c EXCEPT !.codes = k, !.pc = "admit"]
      BY <1>2 DEF Requested, SetChanges
    <3> HIDE DEF k, r
    <3>4. k \in SetChanges /\ k.add = c.codes.add
      BY <3>2 DEF k
    <3>5. r \in Requested
      BY <1>2, <3>3, <3>4 DEF Requested, Steps
    <3>6. r.pc = "admit" /\ r.op = c.op /\ r.user = c.user /\ r.token = c.token /\ r.codes = k
      BY <1>2, <3>3, <3>4 DEF Requested
    <3>7. r.key = c.key /\ r.code = c.code /\ r.row = c.row
      BY <1>2, <3>3, <3>4 DEF Requested
    <3> QED BY <3>4, <3>5, <3>6, <3>7
  <2> HIDE DEF r, c
  <2>4. /\ Placed(r) /\ LinkOwned(p, r) /\ CallOwned(spent, r, now) /\ SetOwned(r)
        /\ r.codes.add = {}
    BY <1>1, <1>2, <2>3 DEF Placed, LinkOwned, CallOwned, SetOwned, A!OnSession, LinkOps, A!AdminOps
  <2> QED BY <1>1, <2>2, <2>3, <2>4, CallGoesOn DEF HoldsLock, A!ClaimRecovery, A!ghosts, Types
<1> QED BY <1>3, <1>4 DEF A!ClaimRecovery

\* A request that fails undoes its statements and lets its locks go.
LEMMA CallAborts ==
  ASSUME A!AccountsAssumption, AccountsInv, NEW p \in Procs, A!Abort(p),
         UNCHANGED <<A!store, maint, now, A!ghosts>>
  PROVE  AccountsInv'
<1>1. /\ LinkOwned(p, A!NoReq) /\ CallOwned(spent', A!NoReq, now') /\ SetOwned(A!NoReq)
      /\ A!NoReq \in Requested /\ Placed(A!NoReq) /\ ~HoldsLock(A!NoReq)
  BY BlankCall DEF LinkOwned, LinkOps, CallOwned, A!OnSession, SetOwned, HoldsLock
<1>2. Types /\ \A x, y \in spent : x.sid = y.sid => x = y
  BY DEF AccountsInv, SessionsOwned
<1>3. /\ lock' \in [Users -> Procs \cup {None}]
      /\ \A u \in Users, q \in Procs \ {p} : lock'[u] = q <=> lock[u] = q
      /\ \A u \in Users : lock'[u] # p
  BY <1>2 DEF Types, A!Abort, A!Unlock, A!AccountsAssumption
<1>4. now \in 1 .. MaxNow /\ now <= now
  BY <1>2 DEF Types
<1> QED BY <1>1, <1>2, <1>3, <1>4, CallKept DEF HoldsLock, Types, A!Abort, A!End, A!store, A!ghosts

LEMMA AdmitKeeps ==
  ASSUME A!AccountsAssumption, AccountsInv, NEW p \in Procs, A!Admit(p)
  PROVE  AccountsInv'
<1> DEFINE c == request[p]
<1> DEFINE e == maint.epoch
<1> DEFINE r == [c EXCEPT !.epoch = e, !.pc = "create"]
<1>1. Types /\ c.op = "factor" /\ c.pc = "admit"
  BY DEF AccountsInv, A!Admit, A!At
<1>2. c \in Requested /\ Placed(c) /\ SetOwned(c) /\ c.user \in Users /\ e \in Nat
  BY <1>1, CallKnown DEF Placed, Types
<1>3. CASE A!Abort(p)
  BY <1>3, CallAborts DEF A!Admit
<1>4. CASE /\ request' = [request EXCEPT ![p].epoch = maint.epoch, ![p].pc = "create"]
           /\ UNCHANGED A!tables
  <2>1. request' = [request EXCEPT ![p] = r]
    BY <1>1, <1>4 DEF Types
  <2>2. r \in Requested /\ r.pc = "create" /\ r.op = c.op /\ r.user = c.user /\ r.token = c.token
        /\ r.codes = c.codes /\ r.key = c.key /\ r.code = c.code /\ r.row = c.row
    <3> HIDE DEF c, e
    <3>1. r \in Requested
      BY <1>2 DEF Requested, Steps
    <3>2. r.pc = "create" /\ r.op = c.op /\ r.user = c.user /\ r.token = c.token
      BY <1>2 DEF Requested
    <3>3. r.codes = c.codes /\ r.key = c.key /\ r.code = c.code /\ r.row = c.row
      BY <1>2 DEF Requested
    <3> QED BY <3>1, <3>2, <3>3
  <2> HIDE DEF r, c
  <2>3. /\ Placed(r) /\ LinkOwned(p, r) /\ CallOwned(spent, r, now) /\ SetOwned(r)
        /\ r.codes.add = {}
    BY <1>1, <1>2, <2>2 DEF Placed, LinkOwned, CallOwned, SetOwned, A!OnSession, LinkOps, A!AdminOps
  <2>4. r.user = request[p].user /\ r.op = request[p].op /\ r.op # "delete"
    BY <1>1, <2>2 DEF c
  <2> QED BY <1>1, <1>4, <2>1, <2>2, <2>3, <2>4, CallGoesOn DEF HoldsLock, A!Admit, A!store, A!ghosts, Types
<1> QED BY <1>3, <1>4 DEF A!Admit

LEMMA CreateKeeps ==
  ASSUME A!AccountsAssumption, AccountsInv, NEW p \in Procs, NEW s \in Sids, A!create(p, s)
  PROVE  AccountsInv'
<1> DEFINE c == request[p]
<1> DEFINE r == [request[p] EXCEPT !.pc = "commit"]
<1> DEFINE d == [user |-> c.user, created |-> now + 1, expires |-> now + 1 + AbsoluteTtl,
                 epoch |-> c.epoch, until |-> now + 1 + IdleTtl]
<1> DEFINE x == [user |-> c.user, secret |-> c.row.secret, code |-> c.code, sid |-> s,
                 born |-> now + 1, epoch |-> c.epoch]
<1>1. Types /\ c.op = "factor" /\ c.pc = "create"
  BY DEF AccountsInv, A!create, A!At
<1>2. A!Step(p, "commit") /\ "commit" \in Steps
  BY DEF A!create, Steps
<1>3. /\ request' = [request EXCEPT ![p] = r] /\ r \in Requested /\ r.pc = "commit"
      /\ r.op = c.op /\ r.user = c.user /\ r.token = c.token /\ r.codes = c.codes
      /\ r.key = c.key /\ r.code = c.code /\ r.row = c.row
      /\ c \in Requested /\ Placed(c) /\ SetOwned(c)
  BY <1>2, CallSteps
<1>4. /\ c.user \in Users /\ c.row \in A!Rows /\ c.code \in Typings /\ c.epoch \in Nat
      /\ c.codes.add = {}
  BY <1>1, <1>3 DEF Placed, Requested, SetOwned
<1>5. now \in Nat /\ now + 1 \in Instants /\ now' = now + 1 /\ AbsoluteTtl \in Nat /\ IdleTtl \in Nat
  BY <1>1 DEF Types, A!create, A!Advance, Instants, A!AccountsAssumption
<1>6. d \in Sessions /\ sess' = [sess EXCEPT ![s] = d]
  BY <1>4, <1>5 DEF Sessions, A!create, A!CreateEpoch
<1>7. /\ x \in [user : Users, secret : Nat, code : Typings, sid : Sids, born : Instants, epoch : Nat]
      /\ spent' = spent \cup {x}
  <2>1. c.row.secret \in Nat
    BY <1>4 DEF A!Rows
  <2>2. spent' = spent \cup {x}
    BY DEF A!create
  <2> QED BY <2>1, <2>2, <1>4, <1>5
<1>8. SignedBy(x, s, d) /\ d.created = now'
  BY <1>5 DEF SignedBy
<1>9. /\ UNCHANGED <<A!tables, watermark, chal, pending, fails, maint, rung, revoked>>
      /\ \A y \in spent : y.sid # s
  BY DEF A!create
<1>10. x.sid = s
  OBVIOUS
<1> HIDE DEF r, c, d, x
<1>11. /\ Placed(r) /\ LinkOwned(p, r) /\ CallOwned(spent', r, now') /\ SetOwned(r)
       /\ r.codes.add = {}
  BY <1>1, <1>3, <1>4 DEF Placed, LinkOwned, CallOwned, SetOwned, A!OnSession, LinkOps, A!AdminOps
<1>12. SessionOwned(spent', s, d, now')
  BY <1>5, <1>7, <1>8 DEF SessionOwned
<1>13. /\ sess' \in [Sids -> Sessions \cup {None}]
       /\ \A q \in Sids : sess'[q] # None => sess'[q] = sess[q] \/ SessionOwned(spent', q, sess'[q], now')
  BY <1>1, <1>6, <1>12 DEF Types
<1>14. /\ spent \subseteq spent' /\ \A y, z \in spent' : y.sid = z.sid => y = z
       /\ spent' \subseteq [user : Users, secret : Nat, code : Typings, sid : Sids,
                            born : Instants, epoch : Nat]
  BY <1>1, <1>7, <1>9, <1>10 DEF Types, AccountsInv, SessionsOwned
<1>15. \A u \in Users : lock[u] = p => LockOwned(r, u)
  BY <1>1, <1>3 DEF AccountsInv, LocksOwned, LockOwned, c
<1>16. now' \in 1 .. MaxNow /\ now <= now'
  BY <1>5 DEF Instants
<1> QED
  BY <1>1, <1>3, <1>9, <1>11, <1>13, <1>14, <1>15, <1>16, CallKept DEF HoldsLock, Types, A!tables

\* A request on a session.
LEMMA ReadSessionKeeps ==
  ASSUME A!AccountsAssumption, AccountsInv, NEW p \in Procs, NEW s \in Sids,
         NEW op \in A!OnSession, A!ReadSession(p, s, op)
  PROVE  AccountsInv'
<1> DEFINE d == sess[s]
<1> DEFINE r == [A!NoReq EXCEPT !.op = op, !.pc = "check", !.sid = s, !.at = now, !.data = d,
                                !.mark = revoked]
<1>1. Types
  BY DEF AccountsInv
<1>2. d \in Sessions /\ d # None /\ SessionOwned(spent, s, d, now)
  BY <1>1 DEF Types, A!ReadSession, A!Live, AccountsInv, SessionsOwned
<1>3. now \in Instants /\ now <= now /\ revoked \in [Users -> Nat] /\ op \in Operations
  BY <1>1 DEF Types, Instants, Operations
<1>4. A!Begin(p, r) /\ UNCHANGED <<A!tables, A!store, maint, now, A!ghosts>>
  BY DEF A!ReadSession
<1> HIDE DEF d
<1>5. r \in Requested
  BY <1>2, <1>3, BlankCall DEF Requested, Steps
<1>6. /\ r.op = op /\ r.pc = "check" /\ r.sid = s /\ r.at = now /\ r.data = d /\ r.token = None
      /\ r.codes.add = {}
  BY <1>2, <1>3, BlankCall DEF Requested
<1> HIDE DEF r
<1>7. Placed(r) /\ LinkOwned(p, r) /\ CallOwned(spent, r, now)
  BY <1>2, <1>3, <1>6 DEF Placed, LinkOwned, CallOwned, A!OnSession, LinkOps, A!AdminOps
<1> QED BY <1>4, <1>5, <1>6, <1>7, CallBegins DEF HoldsLock

LEMMA CheckSessionKeeps ==
  ASSUME A!AccountsAssumption, AccountsInv, NEW p \in Procs, A!CheckSession(p)
  PROVE  AccountsInv'
<1> DEFINE c == request[p]
<1>1. Types /\ (\A u \in Users : lock[u] # p) /\ c.op \in A!OnSession /\ c.pc = "check"
  BY Unlocked DEF AccountsInv, A!CheckSession, A!At
<1>2. /\ sess' \in [Sids -> Sessions \cup {None}]
      /\ \A s \in Sids : sess'[s] # None => sess'[s] = sess[s]
  BY <1>1 DEF Types, A!CheckSession
<1>3. UNCHANGED <<A!tables, watermark, chal, pending, fails, maint, now, spent, rung, revoked>>
  BY DEF A!CheckSession, A!ghosts
<1>4. CASE A!End(p)
  BY <1>1, <1>2, <1>3, <1>4, CallEnds DEF Types
<1>5. ASSUME NEW pc \in {"destroy", "refresh"}, A!Step(p, pc),
             pc = "refresh" => ~(c.at >= c.data.expires)
      PROVE  AccountsInv'
  <2> DEFINE r == [request[p] EXCEPT !.pc = pc]
  <2>1. pc \in Steps
    BY DEF Steps
  <2>2. /\ request' = [request EXCEPT ![p] = r] /\ r \in Requested /\ r.pc = pc
        /\ r.op = c.op /\ r.sid = c.sid /\ r.at = c.at /\ r.data = c.data /\ r.token = c.token
        /\ r.codes = c.codes /\ r.user = c.user
        /\ c \in Requested /\ Placed(c) /\ SetOwned(c) /\ CallOwned(spent, c, now)
    BY <1>5, <2>1, CallSteps
  <2>3. c.at \in Nat /\ c.data.expires \in Nat
    BY <1>1, <2>2 DEF Placed, Requested, Instants, Sessions
  <2> HIDE DEF r, c
  <2>4. /\ Placed(r) /\ LinkOwned(p, r) /\ CallOwned(spent, r, now) /\ SetOwned(r)
        /\ r.codes.add = {}
    BY <1>1, <1>5, <2>2, <2>3 DEF Placed, LinkOwned, CallOwned, SetOwned, A!OnSession, LinkOps, A!AdminOps
  <2> QED BY <1>1, <1>2, <1>3, <2>2, <2>4, CallGoesOn DEF HoldsLock, Types
<1> QED BY <1>4, <1>5 DEF A!CheckSession, A!Unread

\* What a request writes of a session is of the sign-in it read.
LEMMA WriteKept ==
  ASSUME A!AccountsAssumption, AccountsInv, NEW s \in Sids, NEW d \in Sessions, NEW at \in Nat,
         SessionOwned(spent, s, d, now), A!_write(s, d, at)
  PROVE  /\ sess' \in [Sids -> Sessions \cup {None}]
         /\ \A q \in Sids : sess'[q] # None => sess'[q] = sess[q] \/ SessionOwned(spent, q, sess'[q], now)
<1> DEFINE ttl == A!Min({IdleTtl, d.expires - at})
<1>1. ttl \in Int
  <2>1. IdleTtl \in Int /\ d.expires - at \in Int
    BY DEF A!AccountsAssumption, Sessions
  <2> QED BY <2>1 DEF A!Min
<1> HIDE DEF ttl
<1> DEFINE e == [d EXCEPT !.until = now + ttl]
<1>2. now \in Int
  BY DEF AccountsInv, Types
<1>3. /\ e \in Sessions /\ e.expires = d.expires /\ e.epoch = d.epoch /\ e.created = d.created
  BY <1>1, <1>2 DEF Sessions
<1>4. sess' = [sess EXCEPT ![s] = IF ttl <= 0 THEN None ELSE e]
  BY DEF A!_write, ttl
<1> HIDE DEF e
<1>5. SessionOwned(spent, s, e, now)
  BY <1>3 DEF SessionOwned, SignedBy
<1> QED BY <1>3, <1>4, <1>5 DEF AccountsInv, Types

LEMMA RefreshSessionKeeps ==
  ASSUME A!AccountsAssumption, AccountsInv, NEW p \in Procs, A!RefreshSession(p)
  PROVE  AccountsInv'
<1> DEFINE c == request[p]
<1>1. Types /\ (\A u \in Users : lock[u] # p) /\ c.op \in A!OnSession /\ c.pc = "refresh"
  BY Unlocked DEF AccountsInv, A!RefreshSession, A!At
<1>2. PICK pc \in {"destroy", "resolve"} : A!Step(p, pc)
  BY DEF A!RefreshSession
<1> DEFINE r == [request[p] EXCEPT !.pc = pc]
<1>3. pc \in Steps
  BY DEF Steps
<1>4. /\ request' = [request EXCEPT ![p] = r] /\ r \in Requested /\ r.pc = pc
      /\ r.op = c.op /\ r.sid = c.sid /\ r.at = c.at /\ r.data = c.data /\ r.token = c.token
      /\ r.codes = c.codes /\ r.user = c.user
      /\ c \in Requested /\ Placed(c) /\ SetOwned(c) /\ CallOwned(spent, c, now)
  BY <1>2, <1>3, CallSteps
<1>5. /\ UNCHANGED <<A!tables, watermark, chal, pending, fails, maint, now, spent, rung, revoked>>
      /\ A!_write(c.sid, c.data, c.at)
  BY DEF A!RefreshSession, A!ghosts
<1> HIDE DEF r, c
<1>6. c.sid \in Sids /\ c.data \in Sessions /\ c.at \in Nat /\ SessionOwned(spent, c.sid, c.data, now)
  BY <1>1, <1>4 DEF Placed, Requested, Instants, CallOwned
<1>7. /\ Placed(r) /\ LinkOwned(p, r) /\ CallOwned(spent, r, now) /\ SetOwned(r)
      /\ r.codes.add = {}
  BY <1>1, <1>4 DEF Placed, LinkOwned, CallOwned, SetOwned, A!OnSession, LinkOps, A!AdminOps
<1>8. /\ sess' \in [Sids -> Sessions \cup {None}]
      /\ \A q \in Sids : sess'[q] # None => sess'[q] = sess[q] \/ SessionOwned(spent, q, sess'[q], now)
  BY <1>5, <1>6, WriteKept
<1> QED BY <1>1, <1>4, <1>5, <1>7, <1>8, CallGoesOn DEF HoldsLock, Types

LEMMA SignOutKeeps ==
  ASSUME A!AccountsAssumption, AccountsInv, NEW p \in Procs, A!SignOut(p)
  PROVE  AccountsInv'
<1>1. Types /\ \A u \in Users : lock[u] # p
  BY Unlocked DEF AccountsInv, A!SignOut, A!At
<1>2. /\ sess' \in [Sids -> Sessions \cup {None}]
      /\ \A s \in Sids : sess'[s] # None => sess'[s] = sess[s]
  BY <1>1 DEF Types, A!SignOut
<1> QED BY <1>1, <1>2, CallEnds DEF A!SignOut, Types

LEMMA RespondKeeps ==
  ASSUME A!AccountsAssumption, AccountsInv, NEW p \in Procs, A!Respond(p)
  PROVE  AccountsInv'
<1>1. Types /\ \A u \in Users : lock[u] # p
  BY Unlocked DEF AccountsInv, A!Respond, A!At
<1> QED BY <1>1, CallEnds DEF A!Respond, A!store, A!ghosts, Types

LEMMA ResolveActorKeeps ==
  ASSUME A!AccountsAssumption, AccountsInv, NEW p \in Procs, A!ResolveActor(p)
  PROVE  AccountsInv'
<1> DEFINE c == request[p]
<1> DEFINE u == c.data.user
<1> DEFINE v == row[u]
<1> DEFINE e == maint.epoch
<1> DEFINE r == [c EXCEPT !.row = v, !.user = u, !.epoch = e, !.pc = "accepted"]
<1>1. Types /\ (\A w \in Users : lock[w] # p) /\ c.op \in A!OnSession /\ c.pc = "resolve"
  BY Unlocked DEF AccountsInv, A!ResolveActor, A!At
<1>2. c \in Requested /\ Placed(c) /\ SetOwned(c) /\ CallOwned(spent, c, now)
  BY CallKnown
<1>3. /\ sess' \in [Sids -> Sessions \cup {None}]
      /\ \A s \in Sids : sess'[s] # None => sess'[s] = sess[s]
  BY <1>1 DEF Types, A!ResolveActor
<1>4. UNCHANGED <<A!tables, watermark, chal, pending, fails, maint, now, spent, rung, revoked>>
  BY DEF A!ResolveActor, A!ghosts
<1>5. CASE A!End(p)
  BY <1>1, <1>3, <1>4, <1>5, CallEnds DEF Types
<1>6. CASE /\ A!Usable(v) /\ A!session_valid(c.data.epoch, v # None /\ v.role = "admin")
           /\ request' = [request EXCEPT ![p].row = v, ![p].user = u, ![p].epoch = maint.epoch,
                                         ![p].pc = "accepted"]
  <2>1. c.data \in Sessions /\ c.sid \in Sids
    BY <1>1, <1>2 DEF Placed
  <2>2. u \in Users /\ e \in Nat
    BY <1>1, <2>1 DEF Sessions, Types
  <2>3. v \in A!Rows
    BY <1>1, <1>6, <2>2 DEF Types, A!Usable
  <2>4. request' = [request EXCEPT ![p] = r]
    BY <1>1, <1>6 DEF Types
  <2>5. v.role = "admin" \/ c.data.epoch >= e
    BY <1>6 DEF A!session_valid
  <2>6. c.token = None /\ c.codes.add = {} /\ c.data = c.data
    BY <1>1, <1>2 DEF Placed, SetOwned, A!OnSession, LinkOps
  <2> HIDE DEF e, u, v
  <2>7. r \in Requested
    <3> HIDE DEF c
    <3> QED BY <1>2, <2>2, <2>3 DEF Requested, Steps
  <2>8. r.pc = "accepted" /\ r.op = c.op /\ r.sid = c.sid /\ r.at = c.at /\ r.data = c.data
    <3> HIDE DEF c
    <3> QED BY <1>2, <2>2, <2>3 DEF Requested
  <2>9. r.user = u /\ r.row = v /\ r.epoch = e /\ r.token = c.token /\ r.codes = c.codes
    <3> HIDE DEF c
    <3> QED BY <1>2, <2>2, <2>3 DEF Requested
  <2> HIDE DEF r, c
  <2>10. /\ Placed(r) /\ LinkOwned(p, r) /\ SetOwned(r) /\ r.codes.add = {}
    BY <1>1, <2>1, <2>2, <2>3, <2>6, <2>8, <2>9
       DEF Placed, LinkOwned, SetOwned, A!OnSession, LinkOps, A!AdminOps
  <2>11. CallOwned(spent, r, now)
    BY <1>1, <1>2, <2>5, <2>8, <2>9 DEF CallOwned
  <2> QED BY <1>1, <1>3, <1>4, <2>4, <2>7, <2>8, <2>10, <2>11, CallGoesOn DEF HoldsLock, Types
<1> QED BY <1>5, <1>6 DEF A!ResolveActor

LEMMA BeginReenrolmentKeeps ==
  ASSUME A!AccountsAssumption, AccountsInv, NEW p \in Procs, A!BeginReenrolment(p)
  PROVE  AccountsInv'
<1> DEFINE u == request[p].user
<1> DEFINE n == row[u].secret + 1
<1>1. Types /\ (\A w \in Users : lock[w] # p) /\ u \in Users
  BY Unlocked, CallKnown DEF AccountsInv, A!BeginReenrolment, A!At, Placed, A!OnSession
<1>2. n \in Nat
  <2>1. row[u] \in A!Rows
    BY <1>1 DEF Types, A!BeginReenrolment
  <2> QED BY <2>1 DEF A!Rows
<1>3. pending' = [pending EXCEPT ![u] = n]
  BY DEF A!BeginReenrolment
<1> HIDE DEF n, u
<1>4. pending' \in [Users -> Nat]
  BY <1>1, <1>2, <1>3 DEF Types
<1> QED BY <1>1, <1>4, CallEnds DEF A!BeginReenrolment, A!ghosts, Types

LEMMA OwnReadKeeps ==
  ASSUME A!AccountsAssumption, AccountsInv, NEW p \in Procs, A!OwnRead(p)
  PROVE  AccountsInv'
<1> DEFINE c == request[p]
<1> DEFINE v == row[c.user]
<1> DEFINE r == [c EXCEPT !.row = v, !.pc = "own"]
<1>1. Types /\ (\A w \in Users : lock[w] # p) /\ c.op \in OwnOps /\ c.pc = "accepted"
  BY Unlocked DEF AccountsInv, A!OwnRead, A!At, OwnOps
<1>2. c \in Requested /\ Placed(c) /\ SetOwned(c) /\ CallOwned(spent, c, now)
  BY CallKnown
<1>3. UNCHANGED <<A!tables, A!store, maint, now, A!ghosts>>
  BY DEF A!OwnRead
<1>4. CASE A!End(p)
  BY <1>1, <1>3, <1>4, CallEnds DEF A!store, A!ghosts, Types
<1>5. CASE A!Usable(v) /\ A!Reads(p, c.user, "own")
  <2>1. c.user \in Users /\ c.data \in Sessions /\ c.sid \in Sids
    BY <1>1, <1>2 DEF Placed, A!OnSession, OwnOps
  <2>2. v \in A!Rows
    BY <1>1, <1>5, <2>1 DEF Types, A!Usable
  <2>3. request' = [request EXCEPT ![p] = r]
    BY <1>1, <1>5 DEF A!Reads, Types
  <2>4. c.token = None /\ c.codes.add = {}
    BY <1>1, <1>2 DEF Placed, SetOwned, OwnOps, LinkOps
  <2> HIDE DEF v, c
  <2>5. r \in Requested
    BY <1>2, <2>2 DEF Requested, Steps
  <2>6. r.pc = "own" /\ r.op = c.op /\ r.sid = c.sid /\ r.at = c.at /\ r.data = c.data
    BY <1>2, <2>2 DEF Requested
  <2>7. r.user = c.user /\ r.row = v /\ r.token = c.token /\ r.codes = c.codes
    BY <1>2, <2>2 DEF Requested
  <2> HIDE DEF r
  <2>8. /\ Placed(r) /\ LinkOwned(p, r) /\ SetOwned(r) /\ r.codes.add = {}
    BY <1>1, <2>1, <2>2, <2>4, <2>6, <2>7
       DEF Placed, LinkOwned, SetOwned, A!OnSession, OwnOps, LinkOps, A!AdminOps
  <2>9. CallOwned(spent, r, now)
    BY <1>1, <1>2, <2>6, <2>7 DEF CallOwned
  <2> QED BY <1>1, <1>3, <2>3, <2>5, <2>6, <2>8, <2>9, CallGoesOn DEF HoldsLock, A!store, A!ghosts, Types
<1> QED BY <1>4, <1>5 DEF A!OwnRead

\* A statement writes columns of a row: the request has the row's lock from then on.
LEMMA UpdateKeeps ==
  ASSUME A!AccountsAssumption, AccountsInv, NEW p \in Procs, NEW w \in A!Writes,
         A!Update(p, request[p].user, w), request[p].user \in Users,
         request[p].op \in OwnOps \cup (A!AdminOps \ {"delete"}) \cup LinkOps,
         request[p].op \in LinkOps => request[p].pc = "claimed",
         request[p].op \in OwnOps => request[p].pc = "own",
         request[p].codes.add = {}, \A u \in Users : lock[u] # p,
         UNCHANGED <<row, inv, codes, sess, chal, maint, now, A!ghosts>>,
         pending' \in [Users -> Nat]
  PROVE  AccountsInv'
<1> DEFINE c == request[p]
<1> DEFINE r == [c EXCEPT !.write = w, !.pc = "mark"]
<1>1. Types /\ \A x, y \in spent : x.sid = y.sid => x = y
  BY DEF AccountsInv, SessionsOwned
<1>2. c \in Requested /\ Placed(c) /\ LinkOwned(p, c) /\ CallOwned(spent, c, now) /\ SetOwned(c)
  BY CallKnown
<1>3. request' = [request EXCEPT ![p] = r] /\ lock' = [lock EXCEPT ![c.user] = p]
  BY <1>1 DEF A!Update, Types
<1>4. lock[c.user] \in {None, p}
  BY DEF A!Update, A!Free
<1>5. c.op \in OwnOps \cup (A!AdminOps \ {"delete"}) \cup LinkOps /\ c.user \in Users
      /\ (c.op \in LinkOps => c.pc = "claimed") /\ (c.op \in OwnOps => c.pc = "own")
      /\ c.codes.add = {}
  OBVIOUS
<1> HIDE DEF c
<1>6. r \in Requested
  BY <1>2 DEF Requested, Steps
<1>7. r.pc = "mark" /\ r.op = c.op /\ r.sid = c.sid /\ r.at = c.at /\ r.data = c.data
  BY <1>2 DEF Requested
<1>8. r.user = c.user /\ r.row = c.row /\ r.token = c.token /\ r.codes = c.codes
  BY <1>2 DEF Requested
<1> HIDE DEF r
<1>9. Placed(r) /\ r.op # "delete"
  BY <1>2, <1>5, <1>7, <1>8 DEF Placed, A!OnSession, OwnOps, LinkOps, A!AdminOps
<1>10. LinkOwned(p, r) /\ SetOwned(r)
  BY <1>2, <1>5, <1>7, <1>8 DEF LinkOwned, SetOwned, Claiming
<1>11. CallOwned(spent', r, now')
  BY <1>2, <1>7 DEF CallOwned, A!ghosts
<1>12. LockOwned(r, c.user)
  BY <1>7, <1>8, <1>9 DEF LockOwned
<1>13. /\ lock' \in [Users -> Procs \cup {None}]
       /\ \A u \in Users, q \in Procs \ {p} : lock'[u] = q <=> lock[u] = q
       /\ \A u \in Users : lock'[u] = p => LockOwned(r, u)
  BY <1>1, <1>3, <1>4, <1>5, <1>12 DEF Types, A!AccountsAssumption
<1>14. now \in 1 .. MaxNow /\ now <= now
  BY <1>1 DEF Types
<1> QED
  BY <1>1, <1>3, <1>5, <1>6, <1>8, <1>9, <1>10, <1>11, <1>13, <1>14, CallKept DEF HoldsLock, Types, A!ghosts

LEMMA OwnSaveKeeps ==
  ASSUME A!AccountsAssumption, AccountsInv, NEW p \in Procs, A!OwnSave(p)
  PROVE  AccountsInv'
<1> DEFINE c == request[p]
<1> DEFINE v == c.row
<1> DEFINE w == IF c.op = "password" THEN [v EXCEPT !.pw = @ + 1]
                ELSE [v EXCEPT !.secret = @ + 1, !.counter = now]
<1>1. Types /\ (\A u \in Users : lock[u] # p) /\ c.op \in OwnOps /\ c.pc = "own"
  BY Unlocked DEF AccountsInv, A!OwnSave, A!At, OwnOps
<1>2. c \in Requested /\ Placed(c) /\ SetOwned(c) /\ CallOwned(spent, c, now)
  BY CallKnown
<1>3. c.user \in Users /\ v \in A!Rows /\ c.codes.add = {} /\ now \in Int
  BY <1>1, <1>2 DEF Placed, SetOwned, OwnOps, A!OnSession, Types
<1>4. A!Update(p, c.user, w)
  BY DEF A!OwnSave, A!save
<1>5. w \in A!Writes
  <2>1. v.pw \in Nat /\ v.secret \in Nat
    BY <1>3 DEF A!Rows
  <2> HIDE DEF v, c
  <2>2. [v EXCEPT !.pw = @ + 1] \in A!Rows
    BY <1>3, <2>1 DEF A!Rows
  <2>3. [v EXCEPT !.secret = @ + 1, !.counter = now] \in A!Rows
    <3> DEFINE n == v.secret + 1
    <3> DEFINE k == now
    <3>1. n \in Nat /\ k \in Int
      BY <1>3, <2>1
    <3> HIDE DEF n, k
    <3>2. [v EXCEPT !.secret = n, !.counter = k] \in A!Rows
      BY <1>3, <3>1 DEF A!Rows
    <3> QED BY <3>2 DEF n, k
  <2> QED BY <2>2, <2>3 DEF A!Writes
<1>6. pending' \in [Users -> Nat]
  BY <1>1, <1>3 DEF A!OwnSave, Types
<1>7. UNCHANGED <<row, inv, codes, sess, chal, maint, now, A!ghosts>>
  BY DEF A!OwnSave
<1>8. c.op \notin LinkOps
  BY <1>1 DEF OwnOps, LinkOps
<1> HIDE DEF w
<1> QED BY <1>1, <1>3, <1>4, <1>5, <1>6, <1>7, <1>8, UpdateKeeps

LEMMA OwnMarkKeeps ==
  ASSUME A!AccountsAssumption, AccountsInv, NEW p \in Procs, A!OwnMark(p)
  PROVE  AccountsInv'
<1> DEFINE c == request[p]
<1> DEFINE at == now + 1
<1> DEFINE k == IF c.op = "totp" THEN [seen |-> codes[c.user], add |-> {at}] ELSE c.codes
<1> DEFINE r == [c EXCEPT !.stamp = at, !.pc = "kept", !.codes = k]
<1>1. Types /\ c.op \in OwnOps /\ c.pc = "mark"
  BY DEF AccountsInv, A!OwnMark, A!At, OwnOps
<1>2. /\ c \in Requested /\ Placed(c) /\ SetOwned(c) /\ CallOwned(spent, c, now)
      /\ (HoldsLock(c) => lock[c.user] = p)
      /\ \A u \in Users : lock[u] = p => LockOwned(c, u)
  BY CallKnown
<1>3. /\ c.user \in Users /\ c.sid \in Sids /\ c.data \in Sessions /\ c.row \in A!Rows
      /\ c.codes.add = {} /\ c.codes \in SetChanges /\ lock[c.user] = p
  BY <1>1, <1>2 DEF Placed, SetOwned, OwnOps, A!OnSession, A!AdminOps, HoldsLock, Requested
<1>4. now \in Nat /\ at \in Instants /\ at \in Nat /\ now' = at /\ at > now
  BY <1>1 DEF Types, A!OwnMark, A!Advance, Instants, A!AccountsAssumption
<1>5. k \in SetChanges /\ (k.add # {} => codes[c.user] \subseteq k.seen /\ k.add \subseteq {at})
  <2>1. codes[c.user] \in SUBSET Instants
    BY <1>1, <1>3 DEF Types
  <2> QED BY <1>3, <1>4, <2>1 DEF SetChanges
<1>6. request' = [request EXCEPT ![p] = r]
  BY <1>1 DEF A!OwnMark, A!reissue_recovery_codes, Types
<1>7. revoked' \in [Users -> Nat]
  BY <1>1, <1>3, <1>4 DEF A!OwnMark, A!Revokes, Types
<1>8. UNCHANGED <<A!tables, sess, chal, pending, fails, maint, spent, rung>>
  BY DEF A!OwnMark
<1>9. \A x \in spent : x.sid = c.sid => x.born <= at
  <2> SUFFICES ASSUME NEW x \in spent, x.sid = c.sid PROVE x.born <= at
    OBVIOUS
  <2>1. PICK y \in spent : SignedBy(y, c.sid, c.data)
    BY <1>1, <1>2 DEF CallOwned, SessionOwned, OwnOps, A!OnSession
  <2>2. x = y
    BY <2>1 DEF SignedBy, AccountsInv, SessionsOwned
  <2>3. x.born <= c.data.created /\ c.data.created <= now
    BY <1>1, <1>2, <2>1, <2>2 DEF SignedBy, CallOwned, SessionOwned, OwnOps, A!OnSession
  <2>4. x.born \in Nat /\ c.data.created \in Nat
    BY <1>1, <1>3 DEF Types, Instants, Sessions
  <2> QED BY <1>4, <2>3, <2>4
<1> HIDE DEF at, k, c
<1>10. r \in Requested
  BY <1>2, <1>4, <1>5 DEF Requested, Steps
<1>11. r.pc = "kept" /\ r.op = c.op /\ r.sid = c.sid /\ r.at = c.at /\ r.data = c.data
  BY <1>2 DEF Requested
<1>12. r.user = c.user /\ r.row = c.row /\ r.token = c.token /\ r.codes = k /\ r.stamp = at
  BY <1>2 DEF Requested
<1> HIDE DEF r
<1>13. Placed(r) /\ LinkOwned(p, r) /\ r.op # "delete"
  BY <1>1, <1>2, <1>3, <1>11, <1>12
     DEF Placed, LinkOwned, A!OnSession, OwnOps, LinkOps, A!AdminOps
<1>14. SetOwned(r)
  BY <1>3, <1>5, <1>11, <1>12 DEF SetOwned
<1>15. CallOwned(spent, r, at)
  <2>1. c.op \in A!OnSession
    BY <1>1 DEF OwnOps, A!OnSession
  <2>2. SessionOwned(spent, c.sid, c.data, now) /\ c.at <= now
    BY <1>2, <2>1 DEF CallOwned
  <2>3. c.at \in Nat /\ c.data.created \in Nat
    BY <1>2, <1>3 DEF Requested, Instants, Sessions
  <2>4. SessionOwned(spent, r.sid, r.data, at) /\ r.at <= at
    BY <1>4, <1>11, <2>2, <2>3 DEF SessionOwned
  <2> QED BY <1>4, <1>9, <1>11, <1>12, <2>4 DEF CallOwned
<1>16. \A u \in Users : lock[u] = p => LockOwned(r, u)
  BY <1>2, <1>11, <1>12, <1>13 DEF LockOwned
<1>17. CallOwned(spent', r, now') /\ \A x, y \in spent : x.sid = y.sid => x = y
  BY <1>4, <1>8, <1>15 DEF AccountsInv, SessionsOwned
<1>18. now' \in 1 .. MaxNow /\ now <= now'
  BY <1>4 DEF Instants
<1> QED
  BY <1>1, <1>3, <1>6, <1>7, <1>8, <1>10, <1>12, <1>13, <1>14, <1>16, <1>17, <1>18, CallKept
     DEF Types, A!tables

LEMMA ReadKeptKeeps ==
  ASSUME A!AccountsAssumption, AccountsInv, NEW p \in Procs, A!ReadKept(p)
  PROVE  AccountsInv'
<1> DEFINE c == request[p]
<1> DEFINE e == sess[c.sid]
<1> DEFINE r == [c EXCEPT !.data = e, !.pc = "restamp"]
<1> DEFINE r2 == [c EXCEPT !.pc = "commit"]
<1>1. Types /\ c.op \in OwnOps /\ c.pc = "kept"
  BY DEF AccountsInv, A!ReadKept, A!At, OwnOps
<1>2. /\ c \in Requested /\ Placed(c) /\ SetOwned(c) /\ CallOwned(spent, c, now)
      /\ (HoldsLock(c) => lock[c.user] = p)
  BY CallKnown
<1>3. /\ c.user \in Users /\ c.sid \in Sids /\ c.data \in Sessions /\ c.row \in A!Rows
      /\ c.token = None
  BY <1>1, <1>2 DEF Placed, OwnOps, A!OnSession, LinkOps
<1>4. UNCHANGED <<A!tables, A!store, maint, now, A!ghosts>>
  BY DEF A!ReadKept
<1>5. CASE A!Live(e) /\ request' = [request EXCEPT ![p].data = e, ![p].pc = "restamp"]
  <2>1. e \in Sessions /\ SessionOwned(spent, c.sid, e, now)
    BY <1>1, <1>3, <1>5 DEF Types, A!Live, AccountsInv, SessionsOwned
  <2>2. request' = [request EXCEPT ![p] = r]
    BY <1>1, <1>5 DEF Types
  <2> HIDE DEF e, c
  <2>3. r \in Requested
    BY <1>2, <2>1 DEF Requested, Steps
  <2>4. r.pc = "restamp" /\ r.op = c.op /\ r.sid = c.sid /\ r.at = c.at /\ r.data = e
    BY <1>2, <2>1 DEF Requested
  <2>5. r.user = c.user /\ r.row = c.row /\ r.token = c.token /\ r.codes = c.codes
        /\ r.stamp = c.stamp
    BY <1>2, <2>1 DEF Requested
  <2> HIDE DEF r
  <2>6. Placed(r) /\ LinkOwned(p, r) /\ r.op # "delete"
    BY <1>1, <1>3, <2>1, <2>4, <2>5
       DEF Placed, LinkOwned, A!OnSession, OwnOps, LinkOps, A!AdminOps
  <2>7. SetOwned(r) /\ (HoldsLock(r) => lock[r.user] = p)
    BY <1>1, <1>2, <2>4, <2>5 DEF SetOwned, HoldsLock
  <2>8. CallOwned(spent, r, now)
    BY <1>1, <1>2, <2>1, <2>4, <2>5 DEF CallOwned
  <2>9. r.user = request[p].user /\ r.op = request[p].op
    BY <2>4, <2>5 DEF c
  <2> QED BY <1>1, <1>4, <2>2, <2>3, <2>4, <2>6, <2>7, <2>8, <2>9, CallGoesOn DEF A!store, A!ghosts, Types
<1>6. CASE request' = [request EXCEPT ![p].pc = "commit"]
  <2>2. request' = [request EXCEPT ![p] = r2]
    BY <1>1, <1>6 DEF Types
  <2> HIDE DEF e, c
  <2>3. r2 \in Requested
    BY <1>2 DEF Requested, Steps
  <2>4. r2.pc = "commit" /\ r2.op = c.op /\ r2.sid = c.sid /\ r2.at = c.at /\ r2.data = c.data
    BY <1>2 DEF Requested
  <2>5. r2.user = c.user /\ r2.row = c.row /\ r2.token = c.token /\ r2.codes = c.codes
        /\ r2.stamp = c.stamp
    BY <1>2 DEF Requested
  <2> HIDE DEF r2
  <2>6. Placed(r2) /\ LinkOwned(p, r2) /\ r2.op # "delete"
    BY <1>1, <1>3, <2>4, <2>5
       DEF Placed, LinkOwned, A!OnSession, OwnOps, LinkOps, A!AdminOps
  <2>7. SetOwned(r2) /\ (HoldsLock(r2) => lock[r2.user] = p)
    BY <1>1, <1>2, <2>4, <2>5 DEF SetOwned, HoldsLock
  <2>8. CallOwned(spent, r2, now)
    BY <1>1, <1>2, <2>4, <2>5 DEF CallOwned
  <2>9. r2.user = request[p].user /\ r2.op = request[p].op
    BY <2>4, <2>5 DEF c
  <2> QED BY <1>1, <1>4, <2>2, <2>3, <2>4, <2>6, <2>7, <2>8, <2>9, CallGoesOn DEF A!store, A!ghosts, Types
<1> QED BY <1>5, <1>6 DEF A!ReadKept

LEMMA RestampKeeps ==
  ASSUME A!AccountsAssumption, AccountsInv, NEW p \in Procs, A!Restamp(p)
  PROVE  AccountsInv'
<1> DEFINE c == request[p]
<1> DEFINE r == [request[p] EXCEPT !.pc = "commit"]
<1> DEFINE d == [c.data EXCEPT !.created = c.stamp]
<1>1. Types /\ c.op \in OwnOps /\ c.pc = "restamp"
  BY DEF AccountsInv, A!Restamp, A!At, OwnOps
<1>2. A!Step(p, "commit") /\ "commit" \in Steps
  BY DEF A!Restamp, Steps
<1>3. /\ request' = [request EXCEPT ![p] = r] /\ r \in Requested /\ r.pc = "commit"
      /\ r.op = c.op /\ r.user = c.user /\ r.sid = c.sid /\ r.at = c.at /\ r.data = c.data
      /\ r.row = c.row /\ r.stamp = c.stamp /\ r.token = c.token /\ r.codes = c.codes
      /\ c \in Requested /\ Placed(c) /\ CallOwned(spent, c, now) /\ SetOwned(c)
      /\ (HoldsLock(c) => lock[c.user] = p)
  BY <1>2, CallSteps
<1>4. /\ c.user \in Users /\ c.sid \in Sids /\ c.data \in Sessions /\ c.row \in A!Rows
      /\ c.token = None /\ c.stamp \in Instants
  BY <1>1, <1>3 DEF Placed, OwnOps, A!OnSession, LinkOps, Requested
<1>5. A!_write(c.sid, d, c.stamp) /\ UNCHANGED <<A!tables, watermark, chal, pending, fails, maint, now, spent, rung, revoked>>
  BY DEF A!Restamp, A!Restamped
<1>6. PICK x \in spent : SignedBy(x, c.sid, c.data)
  BY <1>1, <1>3 DEF CallOwned, SessionOwned, OwnOps, A!OnSession
<1>7. x.born <= c.stamp /\ c.stamp <= now
  BY <1>1, <1>3, <1>6 DEF CallOwned, SignedBy, OwnOps, A!OnSession
<1> HIDE DEF r, c
<1>8. d \in Sessions /\ d.created = c.stamp /\ d.expires = c.data.expires /\ d.epoch = c.data.epoch
  BY <1>4 DEF Sessions
<1> HIDE DEF d
<1>9. SessionOwned(spent, c.sid, d, now)
  BY <1>6, <1>7, <1>8 DEF SessionOwned, SignedBy
<1>10. /\ sess' \in [Sids -> Sessions \cup {None}]
       /\ \A q \in Sids : sess'[q] # None => sess'[q] = sess[q] \/ SessionOwned(spent, q, sess'[q], now)
  <2>1. c.stamp \in Nat
    BY <1>4 DEF Instants
  <2> QED BY <1>4, <1>5, <1>8, <1>9, <2>1, WriteKept
<1>11. Placed(r) /\ LinkOwned(p, r) /\ r.op # "delete"
  BY <1>1, <1>3, <1>4 DEF Placed, LinkOwned, A!OnSession, OwnOps, LinkOps, A!AdminOps
<1>12. SetOwned(r) /\ (HoldsLock(r) => lock[r.user] = p)
  BY <1>1, <1>3 DEF SetOwned, HoldsLock
<1>13. CallOwned(spent, r, now)
  BY <1>1, <1>3 DEF CallOwned
<1>14. r.user = request[p].user /\ r.op = request[p].op
  BY <1>3 DEF c
<1> QED BY <1>1, <1>3, <1>5, <1>10, <1>11, <1>12, <1>13, <1>14, CallGoesOn DEF Types

\* Administration.
LEMMA AdminReadKeeps ==
  ASSUME A!AccountsAssumption, AccountsInv, NEW p \in Procs, NEW a \in Users, NEW u \in Users,
         NEW op \in A!AdminOps, A!AdminRead(p, a, u, op)
  PROVE  AccountsInv'
<1> DEFINE v == row[u]
<1> DEFINE r == [A!NoReq EXCEPT !.op = op, !.pc = "write", !.user = u, !.row = v]
<1>1. v \in A!Rows
  BY DEF AccountsInv, Types, A!AdminRead
<1>2. A!Begin(p, r) /\ UNCHANGED <<A!tables, A!store, maint, now, A!ghosts>>
  BY DEF A!AdminRead
<1> HIDE DEF v
<1>3. r \in Requested /\ r.op = op /\ r.pc = "write" /\ r.user = u /\ r.row = v /\ r.token = None
      /\ r.codes.add = {}
  <2>1. op \in Operations
    BY DEF Operations
  <2>2. r \in Requested
    BY <1>1, <2>1, BlankCall DEF Requested, Steps
  <2>3. r.op = op /\ r.pc = "write" /\ r.user = u /\ r.row = v
    BY BlankCall DEF Requested
  <2>4. r.token = None /\ r.codes.add = {}
    BY BlankCall DEF Requested
  <2> QED BY <2>2, <2>3, <2>4
<1> HIDE DEF r
<1>4. Placed(r) /\ LinkOwned(p, r) /\ CallOwned(spent, r, now)
  BY <1>1, <1>3 DEF Placed, LinkOwned, CallOwned, A!OnSession, LinkOps, A!AdminOps
<1> QED BY <1>2, <1>3, <1>4, CallBegins DEF HoldsLock

\* Time passes, and watermarks and instants move on, for a request that holds its locks.
LEMMA TimeMovesOn ==
  ASSUME A!AccountsAssumption, AccountsInv, NEW p \in Procs, NEW r \in Requested,
         request' = [request EXCEPT ![p] = r],
         Placed(r), LinkOwned(p, r), r.op \notin A!OnSession, SetOwned(r),
         UNCHANGED <<A!tables, sess, chal, maint, spent, rung>>,
         now' \in 1 .. MaxNow, now <= now',
         revoked' \in [Users -> Nat], pending' \in [Users -> Nat],
         \A u \in Users : lock[u] = p => LockOwned(r, u),
         HoldsLock(r) => lock[r.user] = p
  PROVE  AccountsInv'
<1>1. Types /\ \A x, y \in spent : x.sid = y.sid => x = y
  BY DEF AccountsInv, SessionsOwned
<1>2. CallOwned(spent', r, now')
  BY DEF CallOwned
<1> QED BY <1>1, <1>2, CallKept DEF Types, A!tables

LEMMA StampKeeps ==
  ASSUME A!AccountsAssumption, AccountsInv, NEW p \in Procs, A!Stamp(p)
  PROVE  AccountsInv'
<1> DEFINE c == request[p]
<1> DEFINE at == now + 1
<1> DEFINE pc == IF c.op = "delete" THEN "mark" ELSE "write"
<1> DEFINE r == [c EXCEPT !.stamp = at, !.pc = pc]
<1>1. Types /\ c.op \in {"disable", "delete"} /\ c.pc = "write" /\ \A u \in Users : lock[u] # p
  BY Unlocked DEF AccountsInv, A!Stamp, A!At
<1>2. c \in Requested /\ Placed(c) /\ SetOwned(c)
  BY CallKnown
<1>3. request' = [request EXCEPT ![p] = r]
  BY <1>1 DEF A!Stamp, Types
<1>4. now \in Nat /\ at \in Instants /\ now' = at /\ at > now
  BY <1>1 DEF Types, A!Stamp, A!Advance, Instants, A!AccountsAssumption
<1>5. UNCHANGED <<A!tables, A!store, maint, A!ghosts>>
  BY DEF A!Stamp
<1>6. pc \in {"mark", "write"} /\ (pc = "mark" <=> c.op = "delete")
  OBVIOUS
<1> HIDE DEF c, at, pc
<1>7. r \in Requested
  BY <1>2, <1>4, <1>6 DEF Requested, Steps
<1>8. r.pc = pc /\ r.op = c.op /\ r.user = c.user /\ r.row = c.row
  BY <1>2 DEF Requested
<1>9. r.token = c.token /\ r.codes = c.codes
  BY <1>2 DEF Requested
<1> HIDE DEF r
<1>10. /\ Placed(r) /\ LinkOwned(p, r) /\ SetOwned(r) /\ ~HoldsLock(r)
       /\ r.op \notin A!OnSession
  BY <1>1, <1>2, <1>6, <1>8, <1>9
     DEF Placed, LinkOwned, SetOwned, HoldsLock, A!OnSession, LinkOps, A!AdminOps
<1>11. now' \in 1 .. MaxNow /\ now <= now'
  BY <1>4 DEF Instants
<1> QED BY <1>1, <1>3, <1>5, <1>7, <1>10, <1>11, TimeMovesOn DEF Types, A!store, A!ghosts

LEMMA AdminWriteKeeps ==
  ASSUME A!AccountsAssumption, AccountsInv, NEW p \in Procs, A!AdminWrite(p)
  PROVE  AccountsInv'
<1> DEFINE c == request[p]
<1> DEFINE w == A!EditedColumns(c.op, c.row)
<1>1. Types /\ (\A u \in Users : lock[u] # p) /\ c.op \in A!AdminOps \ {"delete"} /\ c.pc = "write"
  BY Unlocked DEF AccountsInv, A!AdminWrite, A!At
<1>2. Placed(c) /\ SetOwned(c)
  BY CallKnown
<1>3. c.user \in Users /\ c.codes.add = {}
  BY <1>1, <1>2 DEF Placed, SetOwned
<1>4. w \in A!Writes
  BY DEF A!EditedColumns, A!Writes
<1>5. c.op \notin LinkOps \cup OwnOps
  BY <1>1 DEF A!AdminOps, LinkOps, OwnOps
<1>6. A!Update(p, c.user, w) /\ UNCHANGED <<row, inv, codes, A!store, maint, now, A!ghosts>>
  BY DEF A!AdminWrite
<1> HIDE DEF w
<1> QED BY <1>1, <1>3, <1>4, <1>5, <1>6, UpdateKeeps DEF A!store, Types

LEMMA InvalidateKeeps ==
  ASSUME A!AccountsAssumption, AccountsInv, NEW p \in Procs, A!Invalidate(p)
  PROVE  AccountsInv'
<1> DEFINE c == request[p]
<1> DEFINE at == IF c.stamp = 0 THEN now + 1 ELSE c.stamp
<1>1. Types /\ c.op \in A!AdminOps /\ c.pc = "mark"
  BY DEF AccountsInv, A!Invalidate, A!At
<1>2. PICK pc \in {"drop", "commit"} : A!Step(p, pc) /\ (pc = "drop" <=> c.op = "delete")
  BY DEF A!Invalidate
<1> DEFINE r == [request[p] EXCEPT !.pc = pc]
<1>3. pc \in Steps
  BY DEF Steps
<1>4. /\ request' = [request EXCEPT ![p] = r] /\ r \in Requested /\ r.pc = pc
      /\ r.op = c.op /\ r.user = c.user /\ r.row = c.row /\ r.stamp = c.stamp
      /\ r.token = c.token /\ r.codes = c.codes
      /\ c \in Requested /\ Placed(c) /\ SetOwned(c)
  BY <1>2, <1>3, CallSteps
<1>5. \A u \in Users : lock[u] = p => LockOwned(c, u)
  BY CallKnown
<1>6. c.user \in Users /\ c.stamp \in Nat /\ now \in Nat /\ at \in Nat
  BY <1>1, <1>4 DEF Placed, Requested, Instants, Types
<1>7. now' \in 1 .. MaxNow /\ now <= now'
  BY <1>1, <1>6 DEF Types, A!Invalidate, A!Advance, A!AccountsAssumption
<1>8. revoked' \in [Users -> Nat]
  <2>1. revoked' = revoked \/ revoked' = [revoked EXCEPT ![c.user] = at]
    BY DEF A!Invalidate, A!Revokes
  <2> HIDE DEF at, c
  <2> QED BY <1>1, <1>6, <2>1 DEF Types
<1>9. UNCHANGED <<A!tables, sess, chal, pending, fails, maint, spent, rung>>
  BY DEF A!Invalidate
<1> HIDE DEF c, r
<1>10. /\ Placed(r) /\ LinkOwned(p, r) /\ SetOwned(r) /\ ~HoldsLock(r)
       /\ r.op \notin A!OnSession
  BY <1>1, <1>2, <1>4
     DEF Placed, LinkOwned, SetOwned, HoldsLock, A!OnSession, LinkOps, A!AdminOps
<1>11. \A u \in Users : lock[u] = p => LockOwned(r, u)
  BY <1>1, <1>2, <1>4, <1>5 DEF LockOwned
<1> QED BY <1>1, <1>4, <1>7, <1>8, <1>9, <1>10, <1>11, TimeMovesOn DEF Types

LEMMA DeleteRowKeeps ==
  ASSUME A!AccountsAssumption, AccountsInv, NEW p \in Procs, A!DeleteRow(p)
  PROVE  AccountsInv'
<1> DEFINE c == request[p]
<1> DEFINE r == [request[p] EXCEPT !.pc = "commit"]
<1>1. Types /\ c.op = "delete" /\ c.pc = "drop" /\ \A u \in Users : lock[u] # p
  BY Unlocked DEF AccountsInv, A!DeleteRow, A!At
<1>2. A!Step(p, "commit") /\ "commit" \in Steps
  BY DEF A!DeleteRow, Steps
<1>3. /\ request' = [request EXCEPT ![p] = r] /\ r \in Requested /\ r.pc = "commit"
      /\ r.op = c.op /\ r.user = c.user /\ r.row = c.row
      /\ r.token = c.token /\ r.codes = c.codes
      /\ c \in Requested /\ Placed(c) /\ SetOwned(c)
  BY <1>2, CallSteps
<1>4. c.user \in Users /\ lock[c.user] \in {None, p} /\ lock' = [lock EXCEPT ![c.user] = p]
  BY <1>1, <1>3 DEF Placed, A!AdminOps, A!DeleteRow, A!Free
<1>5. UNCHANGED <<row, inv, codes, A!store, maint, now, A!ghosts>>
  BY DEF A!DeleteRow
<1> HIDE DEF c, r
<1>6. /\ Placed(r) /\ LinkOwned(p, r) /\ SetOwned(r) /\ ~HoldsLock(r)
      /\ CallOwned(spent', r, now')
  BY <1>1, <1>3
     DEF Placed, LinkOwned, SetOwned, HoldsLock, CallOwned, A!OnSession, LinkOps, A!AdminOps
<1>7. LockOwned(r, c.user)
  BY <1>3 DEF LockOwned
<1>8. /\ lock' \in [Users -> Procs \cup {None}]
      /\ \A u \in Users, q \in Procs \ {p} : lock'[u] = q <=> lock[u] = q
      /\ \A u \in Users : lock'[u] = p => LockOwned(r, u)
  BY <1>1, <1>4, <1>7 DEF Types, A!AccountsAssumption
<1>9. now \in 1 .. MaxNow /\ now <= now /\ \A x, y \in spent : x.sid = y.sid => x = y
  BY <1>1 DEF Types, AccountsInv, SessionsOwned
<1> QED BY <1>1, <1>3, <1>5, <1>6, <1>8, <1>9, CallKept DEF Types, A!store, A!ghosts

\* Redeeming a link.
LEMMA RedeemReadKeeps ==
  ASSUME A!AccountsAssumption, AccountsInv, NEW p \in Procs, NEW t \in Tokens,
         NEW op \in LinkOps, A!RedeemRead(p, t, op)
  PROVE  AccountsInv'
<1> DEFINE u == inv[t].user
<1> DEFINE v == row[u]
<1> DEFINE z == pending[u]
<1> DEFINE r == [A!NoReq EXCEPT !.op = op, !.pc = "link", !.user = u, !.token = t, !.row = v,
                                !.secret = z]
<1>1. Types /\ inv[t] # None
  BY DEF AccountsInv, A!RedeemRead, A!_require_invitation
<1>2. u \in Users
  BY <1>1 DEF Types, A!Invitations
<1>3. v \in A!Rows /\ z \in Nat
  BY <1>1, <1>2 DEF Types, A!RedeemRead, A!Usable
<1>4. A!Begin(p, r) /\ UNCHANGED <<A!tables, A!store, maint, now, A!ghosts>>
  BY DEF A!RedeemRead
<1>5. inv[t] # None /\ inv[t].user = u
  BY <1>1
<1> HIDE DEF v, u, z
<1>6. r \in Requested /\ r.op = op /\ r.pc = "link" /\ r.user = u /\ r.row = v /\ r.token = t
      /\ r.codes.add = {}
  <2>1. op \in Operations
    BY DEF Operations
  <2>2. r \in Requested
    BY <1>2, <1>3, <2>1, BlankCall DEF Requested, Steps
  <2>3. r.op = op /\ r.pc = "link" /\ r.user = u /\ r.row = v
    BY BlankCall DEF Requested
  <2>4. r.token = t /\ r.codes.add = {}
    BY BlankCall DEF Requested
  <2> QED BY <2>2, <2>3, <2>4
<1> HIDE DEF r
<1>7. Placed(r) /\ LinkOwned(p, r) /\ CallOwned(spent, r, now)
  BY <1>2, <1>3, <1>5, <1>6
     DEF Placed, LinkOwned, CallOwned, A!OnSession, LinkOps, A!AdminOps, Claiming
<1> QED BY <1>4, <1>6, <1>7, CallBegins DEF HoldsLock

LEMMA ClaimLinkKeeps ==
  ASSUME A!AccountsAssumption, AccountsInv, NEW p \in Procs, A!ClaimLink(p)
  PROVE  AccountsInv'
<1> DEFINE c == request[p]
<1> DEFINE at == now + 1
<1> DEFINE r == [c EXCEPT !.stamp = at, !.pc = "claimed"]
<1>1. Types /\ c.op \in LinkOps /\ c.pc = "link" /\ \A u \in Users : lock[u] # p
  BY Unlocked DEF AccountsInv, A!ClaimLink, A!At, LinkOps
<1>2. c \in Requested /\ Placed(c) /\ SetOwned(c) /\ LinkOwned(p, c)
  BY CallKnown
<1>3. UNCHANGED <<A!tables, A!store, maint, A!ghosts>>
  BY DEF A!ClaimLink
<1>4. CASE A!End(p) /\ UNCHANGED now
  BY <1>1, <1>3, <1>4, CallEnds DEF A!store, A!ghosts, Types
<1>5. CASE /\ A!consume(p, c.token) /\ A!Advance
           /\ request' = [request EXCEPT ![p].stamp = now + 1, ![p].pc = "claimed"]
  <2>1. now \in Nat /\ at \in Instants /\ now' = at /\ at > now
    BY <1>1, <1>5 DEF Types, A!Advance, Instants, A!AccountsAssumption
  <2>2. request' = [request EXCEPT ![p] = r]
    BY <1>1, <1>5 DEF Types
  <2>3. /\ c.token \in Tokens /\ c.token # None /\ rung[c.token] = 0
        /\ \A q \in Procs \ {p} : ~(request[q].pc \in Claiming /\ request[q].token = c.token)
    BY <1>1, <1>2, <1>5
       DEF Placed, A!consume, A!ClaimLink, A!Claiming, Claiming, AccountsInv, LinksOwned,
           A!AccountsAssumption
  <2> HIDE DEF c, at
  <2>4. r \in Requested
    BY <1>2, <2>1 DEF Requested, Steps
  <2>5. r.pc = "claimed" /\ r.op = c.op /\ r.user = c.user /\ r.row = c.row
    BY <1>2 DEF Requested
  <2>6. r.token = c.token /\ r.codes = c.codes
    BY <1>2 DEF Requested
  <2> HIDE DEF r
  <2>7. Placed(r) /\ SetOwned(r) /\ ~HoldsLock(r) /\ r.op \notin A!OnSession
    BY <1>1, <1>2, <2>5, <2>6
       DEF Placed, SetOwned, HoldsLock, A!OnSession, LinkOps, A!AdminOps
  <2>8. LinkOwned(p, r)
    BY <1>1, <1>2, <2>3, <2>5, <2>6 DEF LinkOwned
  <2>9. now' \in 1 .. MaxNow /\ now <= now'
    BY <2>1 DEF Instants
  <2> QED BY <1>1, <1>3, <2>2, <2>4, <2>7, <2>8, <2>9, TimeMovesOn DEF Types, A!store, A!ghosts
<1> QED BY <1>4, <1>5 DEF A!ClaimLink

LEMMA RedeemSaveKeeps ==
  ASSUME A!AccountsAssumption, AccountsInv, NEW p \in Procs, A!RedeemSave(p)
  PROVE  AccountsInv'
<1> DEFINE c == request[p]
<1> DEFINE v == c.row
<1> DEFINE z == c.secret
<1> DEFINE w == A!Redeemed(c.op, v, z)
<1>1. Types /\ (\A u \in Users : lock[u] # p) /\ c.op \in LinkOps /\ c.pc = "claimed"
  BY Unlocked DEF AccountsInv, A!RedeemSave, A!At, LinkOps
<1>2. c \in Requested /\ Placed(c) /\ SetOwned(c)
  BY CallKnown
<1>3. c.user \in Users /\ c.codes.add = {} /\ v \in A!Rows /\ z \in Nat
  BY <1>1, <1>2 DEF Placed, SetOwned, Requested
<1>4. w \in A!Writes
  <2>1. v.pw \in Nat /\ now \in Int
    BY <1>1, <1>3 DEF A!Rows, Types
  <2> DEFINE n == v.pw + 1
  <2> DEFINE k == now
  <2>2. n \in Nat /\ k \in Int
    BY <2>1
  <2>3. w = IF c.op = "reset" THEN [v EXCEPT !.pw = n]
            ELSE [v EXCEPT !.pw = 1, !.secret = z, !.counter = k]
    BY <1>3 DEF A!Redeemed, A!Rows
  <2> HIDE DEF c, v, z, w, n, k
  <2>4. [v EXCEPT !.pw = n] \in A!Rows
    BY <1>3, <2>2 DEF A!Rows
  <2>5. [v EXCEPT !.pw = 1, !.secret = z, !.counter = k] \in A!Rows
    BY <1>3, <2>2 DEF A!Rows
  <2> QED BY <2>3, <2>4, <2>5 DEF A!Writes
<1>5. c.op \notin A!AdminOps \cup OwnOps
  BY <1>1 DEF A!AdminOps, LinkOps, OwnOps
<1>6. A!Update(p, c.user, w) /\ UNCHANGED <<row, inv, codes, A!store, maint, now, A!ghosts>>
  BY DEF A!RedeemSave, A!save
<1> HIDE DEF w
<1> QED BY <1>1, <1>3, <1>4, <1>5, <1>6, UpdateKeeps DEF A!store, Types

LEMMA RedeemMarkKeeps ==
  ASSUME A!AccountsAssumption, AccountsInv, NEW p \in Procs, A!RedeemMark(p)
  PROVE  AccountsInv'
<1> DEFINE c == request[p]
<1> DEFINE k == IF c.op = "reset" THEN c.codes ELSE [seen |-> codes[c.user], add |-> {c.stamp}]
<1> DEFINE r == [c EXCEPT !.codes = k, !.pc = "commit"]
<1>1. Types /\ c.op \in LinkOps /\ c.pc = "mark"
  BY DEF AccountsInv, A!RedeemMark, A!At, LinkOps
<1>2. /\ c \in Requested /\ Placed(c) /\ SetOwned(c) /\ LinkOwned(p, c)
      /\ (HoldsLock(c) => lock[c.user] = p)
      /\ \A u \in Users : lock[u] = p => LockOwned(c, u)
  BY CallKnown
<1>3. /\ c.user \in Users /\ c.codes.add = {} /\ c.codes \in SetChanges /\ lock[c.user] = p
      /\ c.stamp \in Instants /\ c.stamp \in Nat
  BY <1>1, <1>2 DEF Placed, SetOwned, Requested, HoldsLock, LinkOps, Instants
<1>4. k \in SetChanges /\ (k.add # {} => codes[c.user] \subseteq k.seen /\ k.add \subseteq {c.stamp})
  <2>1. codes[c.user] \in SUBSET Instants
    BY <1>1, <1>3 DEF Types
  <2> QED BY <1>3, <2>1 DEF SetChanges
<1>5. request' = [request EXCEPT ![p] = r]
  <2>1. CASE c.op = "reset"
    <3>1. request' = [request EXCEPT ![p].pc = "commit"]
      BY <2>1 DEF A!RedeemMark, A!Step
    <3>2. request' = [request EXCEPT ![p] = [c EXCEPT !.pc = "commit"]]
      BY <1>1, <3>1 DEF Types
    <3>3. [c EXCEPT !.pc = "commit"] = r
      <4> HIDE DEF c
      <4>1. k = c.codes
        BY <2>1
      <4> HIDE DEF k
      <4> QED BY <1>2, <4>1 DEF Requested
    <3> QED BY <3>2, <3>3
  <2>2. CASE c.op # "reset"
    <3>1. k = [seen |-> codes[c.user], add |-> {c.stamp}]
      BY <2>2
    <3>2. request' = [request EXCEPT ![p].codes = k, ![p].pc = "commit"]
      BY <2>2, <3>1 DEF A!RedeemMark, A!reissue_recovery_codes
    <3> HIDE DEF k
    <3> QED BY <1>1, <3>2 DEF Types
  <2> QED BY <2>1, <2>2
<1>6. revoked' \in [Users -> Nat] /\ pending' \in [Users -> Nat]
  <2>1. revoked' = revoked \/ revoked' = [revoked EXCEPT ![c.user] = c.stamp]
    BY DEF A!RedeemMark, A!Revokes
  <2>2. pending' = pending \/ pending' = [pending EXCEPT ![c.user] = 0]
    BY DEF A!RedeemMark
  <2> HIDE DEF c
  <2> QED BY <1>1, <1>3, <2>1, <2>2 DEF Types
<1>7. UNCHANGED <<A!tables, sess, chal, fails, maint, now, spent, rung>>
  BY DEF A!RedeemMark
<1> HIDE DEF c, k
<1>8. r \in Requested
  BY <1>2, <1>4 DEF Requested, Steps
<1>9. r.pc = "commit" /\ r.op = c.op /\ r.user = c.user /\ r.row = c.row
  BY <1>2 DEF Requested
<1>10. r.token = c.token /\ r.codes = k /\ r.stamp = c.stamp
  BY <1>2 DEF Requested
<1> HIDE DEF r
<1>11. Placed(r) /\ r.op \notin A!OnSession /\ r.op # "delete"
  BY <1>1, <1>2, <1>9, <1>10 DEF Placed, A!OnSession, LinkOps, A!AdminOps
<1>12. LinkOwned(p, r) /\ SetOwned(r)
  BY <1>1, <1>2, <1>3, <1>4, <1>9, <1>10 DEF LinkOwned, SetOwned, Claiming
<1>13. \A u \in Users : lock[u] = p => LockOwned(r, u)
  BY <1>2, <1>9, <1>11 DEF LockOwned
<1>14. now' \in 1 .. MaxNow /\ now <= now'
  BY <1>1, <1>7 DEF Types
<1> QED
  BY <1>1, <1>3, <1>5, <1>6, <1>7, <1>8, <1>9, <1>11, <1>12, <1>13, <1>14, TimeMovesOn
     DEF Types

\* What no request is part of: rows, links and pending secrets are made, maintenance comes and
\* goes and time passes, and no link is opened again or changes hands.
LEMMA OthersAct ==
  ASSUME A!AccountsAssumption, AccountsInv,
         UNCHANGED <<sess, chal, codes, lock, request, spent, rung, revoked>>,
         row' \in [Users -> A!Rows \cup {None}], pending' \in [Users -> Nat],
         maint' \in [closed : BOOLEAN, epoch : 0 .. MaxEpoch],
         inv' \in [Tokens -> A!Invitations \cup {None}],
         \A t \in Tokens : inv[t] # None => inv'[t] # None /\ inv'[t].user = inv[t].user,
         \A t \in Tokens : inv'[t] = None \/ inv'[t].state = "open" =>
                             inv[t] = None \/ inv[t].state = "open",
         now' \in 1 .. MaxNow, now <= now'
  PROVE  AccountsInv'
<1>0. Types
  BY DEF AccountsInv
<1>1. Types'
  BY <1>0 DEF Types
<1>2. LinksOwned'
  <2>1. ASSUME NEW p \in Procs PROVE LinkOwned(p, request[p])'
    <3>1. LinkOwned(p, request[p]) /\ Placed(request[p])
      BY CallKnown
    <3> QED BY <3>1 DEF LinkOwned, Placed
  <2> QED BY <2>1 DEF AccountsInv, LinksOwned
<1>3. SessionsOwned'
  <2>1. now \in Nat /\ now' \in Nat
    BY <1>0, <1>1 DEF Types
  <2>2. ASSUME NEW s \in Sids, sess[s] # None PROVE SessionOwned(spent, s, sess[s], now)'
    <3>1. SessionOwned(spent, s, sess[s], now) /\ sess[s] \in Sessions
      BY <1>0, <2>2 DEF AccountsInv, SessionsOwned, Types
    <3>2. sess[s].created \in Nat
      BY <3>1 DEF Sessions, Instants
    <3>3. SessionOwned(spent, s, sess[s], now')
      BY <2>1, <3>1, <3>2 DEF SessionOwned
    <3> QED BY <3>3 DEF SessionOwned
  <2>3. ASSUME NEW p \in Procs PROVE CallOwned(spent, request[p], now)'
    <3> DEFINE c == request[p]
    <3>1. c \in Requested /\ Placed(c) /\ CallOwned(spent, c, now)
      BY CallKnown
    <3>2. c.at \in Nat /\ c.stamp \in Nat /\ (c.op \in A!OnSession => c.data.created \in Nat)
      BY <3>1 DEF Requested, Instants, Placed, Sessions
    <3> HIDE DEF c
    <3>3. CallOwned(spent, c, now')
      BY <2>1, <3>1, <3>2 DEF CallOwned, SessionOwned
    <3> QED BY <3>3 DEF CallOwned, SessionOwned, c
  <2> QED BY <2>2, <2>3 DEF AccountsInv, SessionsOwned
<1>4. LocksOwned'
  BY DEF AccountsInv, LocksOwned, LockOwned
<1>5. SetsOwned'
  BY DEF AccountsInv, SetsOwned, SetOwned
<1> QED BY <1>1, <1>2, <1>3, <1>4, <1>5 DEF AccountsInv

LEMMA FreshRow == ASSUME NEW role \in {"admin", "user"} PROVE A!Fresh(role) \in A!Rows
  BY DEF A!Fresh, A!Rows

LEMMA BootstrapClaimKeeps ==
  ASSUME A!AccountsAssumption, AccountsInv, NEW u \in Users, A!BootstrapClaim(u)
  PROVE  AccountsInv'
<1>1. Types /\ row' = [row EXCEPT ![u] = A!Fresh("admin")] /\ A!Fresh("admin") \in A!Rows
  BY FreshRow DEF AccountsInv, A!BootstrapClaim
<1>2. row' \in [Users -> A!Rows \cup {None}]
  BY <1>1 DEF Types
<1>3. now \in 1 .. MaxNow /\ now <= now
  BY <1>1 DEF Types
<1> QED BY <1>1, <1>2, <1>3, OthersAct DEF A!BootstrapClaim, Types, A!store, A!ghosts

\* A link is issued: the ones of its kind that were open are gone, the rest are as they were.
LEMMA LinkIssued ==
  ASSUME A!AccountsAssumption, AccountsInv, NEW u \in Users, NEW t \in Tokens,
         NEW kind \in {"onboard", "reset"}, inv[t] = None, A!Issued(u, t, kind)
  PROVE  /\ inv' \in [Tokens -> A!Invitations \cup {None}]
         /\ \A x \in Tokens : inv[x] # None => inv'[x] # None /\ inv'[x].user = inv[x].user
                                                /\ inv'[x].kind = inv[x].kind
         /\ inv'[t] # None /\ inv'[t].user = u /\ inv'[t].kind = kind
         /\ \A x \in Tokens : x # t /\ inv[x] = None => inv'[x] = None
         /\ \A x \in Tokens : inv'[x] = None \/ inv'[x].state = "open" =>
                                inv[x] = None \/ inv[x].state = "open"
<1> DEFINE new == [user |-> u, kind |-> kind, state |-> "open", until |-> now + InvitationTtl]
<1> DEFINE gone(x) == [inv[x] EXCEPT !.state = "gone"]
<1>1. now \in Nat /\ InvitationTtl \in Nat /\ inv \in [Tokens -> A!Invitations \cup {None}]
  BY DEF AccountsInv, Types, A!AccountsAssumption
<1>2. new \in A!Invitations /\ new.user = u /\ new.kind = kind
  BY <1>1 DEF A!Invitations
<1>3. None \notin A!Invitations
  BY DEF A!AccountsAssumption
<1>4. ASSUME NEW x \in Tokens, inv[x] # None
      PROVE  /\ gone(x) \in A!Invitations /\ gone(x).state = "gone" /\ gone(x).user = inv[x].user
             /\ gone(x).kind = inv[x].kind /\ gone(x) # None
  <2>1. inv[x] \in A!Invitations
    BY <1>1, <1>4
  <2>2. /\ gone(x) \in A!Invitations /\ gone(x).state = "gone" /\ gone(x).user = inv[x].user
        /\ gone(x).kind = inv[x].kind
    BY <2>1 DEF A!Invitations
  <2> QED BY <1>3, <2>2
<1>5. inv' = [x \in Tokens |->
               IF x = t THEN new
               ELSE IF inv[x] # None /\ inv[x].user = u /\ inv[x].kind = kind /\ inv[x].state = "open"
                    THEN gone(x) ELSE inv[x]]
  BY DEF A!Issued
<1> HIDE DEF new, gone
<1>6. inv' \in [Tokens -> A!Invitations \cup {None}]
  BY <1>1, <1>2, <1>4, <1>5
<1>7. ASSUME NEW x \in Tokens, inv[x] # None
      PROVE  inv'[x] # None /\ inv'[x].user = inv[x].user /\ inv'[x].kind = inv[x].kind
  BY <1>4, <1>5, <1>7
<1>8. ASSUME NEW x \in Tokens, inv'[x] = None \/ inv'[x].state = "open"
      PROVE  inv[x] = None \/ inv[x].state = "open"
  BY <1>4, <1>5, <1>8
<1>9. inv'[t] # None /\ inv'[t].user = u /\ inv'[t].kind = kind
  BY <1>2, <1>3, <1>5
<1>10. \A x \in Tokens : x # t /\ inv[x] = None => inv'[x] = None
  BY <1>5
<1> QED BY <1>6, <1>7, <1>8, <1>9, <1>10

LEMMA CreateAccountKeeps ==
  ASSUME A!AccountsAssumption, AccountsInv, NEW a \in Users, NEW u \in Users, NEW t \in Tokens,
         A!create_account(a, u, t)
  PROVE  AccountsInv'
<1>1. Types /\ row' = [row EXCEPT ![u] = A!Fresh("user")] /\ A!Fresh("user") \in A!Rows
  BY FreshRow DEF AccountsInv, A!create_account
<1>2. row' \in [Users -> A!Rows \cup {None}]
  BY <1>1 DEF Types
<1>3. now \in 1 .. MaxNow /\ now <= now
  BY <1>1 DEF Types
<1>4. inv[t] = None /\ A!Issued(u, t, "onboard")
  BY DEF A!create_account
<1>5. UNCHANGED <<codes, lock, A!store, maint, request, now, A!ghosts>>
  BY DEF A!create_account
<1> QED BY <1>1, <1>2, <1>3, <1>4, <1>5, LinkIssued, OthersAct DEF Types, A!store, A!ghosts

LEMMA ReissueKeeps ==
  ASSUME A!AccountsAssumption, AccountsInv, NEW a \in Users, NEW u \in Users, NEW t \in Tokens,
         A!Reissue(a, u, t)
  PROVE  AccountsInv'
<1>1. Types
  BY DEF AccountsInv
<1>2. PICK kind \in {"onboard", "reset"} : A!Issued(u, t, kind)
  BY DEF A!Reissue
<1>3. now \in 1 .. MaxNow /\ now <= now
  BY <1>1 DEF Types
<1>4. inv[t] = None /\ UNCHANGED <<row, codes, lock, A!store, maint, request, now, A!ghosts>>
  BY DEF A!Reissue
<1> QED BY <1>1, <1>2, <1>3, <1>4, LinkIssued, OthersAct DEF Types, A!store, A!ghosts

LEMMA ElsewhereKeeps ==
  ASSUME A!AccountsAssumption, AccountsInv,
         \/ \E t \in Tokens : A!BeginEnrolment(t)
         \/ A!EnterMaintenance \/ A!LeaveMaintenance \/ A!WindowEnds \/ A!Tick
  PROVE  AccountsInv'
<1>1. Types
  BY DEF AccountsInv
<1>2. now \in 1 .. MaxNow /\ now <= now
  BY <1>1 DEF Types
<1>3. ASSUME NEW t \in Tokens, A!BeginEnrolment(t) PROVE AccountsInv'
  <2>1. inv[t].user \in Users
    BY <1>1, <1>3 DEF Types, A!BeginEnrolment, A!_require_invitation, A!Invitations
  <2>2. pending' \in [Users -> Nat]
    BY <1>1, <1>3, <2>1 DEF A!BeginEnrolment, Types
  <2> QED BY <1>1, <1>2, <1>3, <2>2, OthersAct DEF A!BeginEnrolment, A!tables, A!ghosts, Types
<1>4. CASE A!EnterMaintenance
  <2>1. maint' \in [closed : BOOLEAN, epoch : 0 .. MaxEpoch]
    BY <1>1, <1>4 DEF Types, A!EnterMaintenance, A!AccountsAssumption
  <2> QED BY <1>1, <1>2, <1>4, <2>1, OthersAct DEF A!EnterMaintenance, A!tables, A!store, A!ghosts, Types
<1>5. CASE A!LeaveMaintenance
  <2>1. maint' \in [closed : BOOLEAN, epoch : 0 .. MaxEpoch]
    BY <1>1, <1>5 DEF Types, A!LeaveMaintenance
  <2> QED BY <1>1, <1>2, <1>5, <2>1, OthersAct DEF A!LeaveMaintenance, A!tables, A!store, A!ghosts, Types
<1>6. CASE A!WindowEnds
  BY <1>1, <1>2, <1>6, OthersAct DEF A!WindowEnds, A!tables, A!ghosts, Types
<1>7. CASE A!Tick
  <2>1. now' \in 1 .. MaxNow /\ now <= now'
    BY <1>1, <1>7 DEF Types, A!Tick, A!Advance, A!AccountsAssumption
  <2> QED BY <1>1, <1>7, <2>1, OthersAct DEF A!Tick, A!tables, A!store, A!ghosts, Types
<1> QED BY <1>3, <1>4, <1>5, <1>6, <1>7

\* Committing.  The columns a statement wrote make a whole row of the one that is there, and a
\* row that is gone comes back only from a statement that wrote every column.
LEMMA MergedRow ==
  ASSUME NEW w \in A!Writes, NEW r \in A!Rows
  PROVE  A!Merged(w, r) \in A!Rows
<1>1. /\ "role" \in DOMAIN w => w.role \in {"admin", "user"}
      /\ "off" \in DOMAIN w => w.off \in BOOLEAN
      /\ "pw" \in DOMAIN w => w.pw \in Nat
      /\ "secret" \in DOMAIN w => w.secret \in Nat
      /\ "counter" \in DOMAIN w => w.counter \in Int
  <2>1. CASE w \in A!Rows
    BY <2>1 DEF A!Rows
  <2>2. CASE w \in [off : BOOLEAN]
    BY <2>2
  <2>3. CASE w \in [role : {"admin", "user"}]
    BY <2>3
  <2>4. CASE w \in [counter : Int]
    BY <2>4
  <2> QED BY <2>1, <2>2, <2>3, <2>4 DEF A!Writes
<1>2. /\ r.role \in {"admin", "user"} /\ r.off \in BOOLEAN /\ r.pw \in Nat /\ r.secret \in Nat
      /\ r.counter \in Int
  BY DEF A!Rows
<1> QED BY <1>1, <1>2 DEF A!Merged, A!Rows

LEMMA WholeWrite ==
  ASSUME NEW w \in A!Writes, DOMAIN w = A!Columns
  PROVE  w \in A!Rows
<1>1. "role" \in DOMAIN w /\ "off" \in DOMAIN w
  BY DEF A!Columns
<1>2. w \notin [off : BOOLEAN] /\ w \notin [role : {"admin", "user"}] /\ w \notin [counter : Int]
  BY <1>1
<1> QED BY <1>2 DEF A!Writes

LEMMA CommittedRow ==
  ASSUME A!AccountsAssumption, AccountsInv, NEW p \in Procs, NEW u \in Users
  PROVE  A!Committed(p, u) \in A!Rows \cup {None}
<1>1. row[u] \in A!Rows \cup {None} /\ request[p].write \in A!Writes \cup {None}
  BY DEF AccountsInv, Types, Requested
<1> DEFINE w == request[p].write
<1>2. CASE w # None /\ row[u] # None
  BY <1>1, <1>2, MergedRow DEF A!Committed
<1>3. CASE w # None /\ row[u] = None
  BY <1>1, <1>3, WholeWrite DEF A!Committed
<1>4. CASE w = None
  BY <1>1, <1>4 DEF A!Committed
<1> QED BY <1>2, <1>3, <1>4

LEMMA CommitKeeps ==
  ASSUME A!AccountsAssumption, AccountsInv, NEW p \in Procs, A!Commit(p)
  PROVE  AccountsInv'
<1> DEFINE c == request[p]
<1> DEFINE kept == codes[c.user] \ c.codes.seen
<1> DEFINE k == IF c.op = "delete" THEN {} ELSE kept \cup c.codes.add
<1> DEFINE gone(t) == [inv[t] EXCEPT !.state = "gone"]
<1> DEFINE used(t) == [inv[t] EXCEPT !.state = "used"]
<1>1. Types /\ c.pc = "commit"
  BY DEF AccountsInv, A!Commit
<1>2. /\ c \in Requested /\ Placed(c) /\ SetOwned(c) /\ LinkOwned(p, c)
      /\ (HoldsLock(c) => lock[c.user] = p)
  BY CallKnown
<1>3. c.user \in Users /\ c.codes \in SetChanges
  BY <1>1, <1>2
     DEF Placed, Requested, Operations, LinkOps, A!OnSession, A!AdminOps
<1>4. UNCHANGED <<A!store, maint, now, spent, revoked>>
  BY DEF A!Commit
<1>5. row' \in [Users -> A!Rows \cup {None}]
  <2>1. row' = [row EXCEPT ![c.user] = A!Committed(p, c.user)]
    BY DEF A!Commit
  <2>2. A!Committed(p, c.user) \in A!Rows \cup {None}
    BY <1>3, CommittedRow
  <2> HIDE DEF c
  <2> QED BY <1>1, <1>3, <2>1, <2>2 DEF Types
<1>6. codes' = [codes EXCEPT ![c.user] = k]
  BY DEF A!Commit
<1>7. /\ request' \in [Procs -> Requested] /\ request'[p] = A!NoReq
      /\ \A q \in Procs \ {p} : request'[q] = request[q]
  BY <1>1, BlankCall DEF A!Commit, A!End, Types
<1>8. /\ lock' \in [Users -> Procs \cup {None}]
      /\ \A u \in Users, q \in Procs \ {p} : lock'[u] = q <=> lock[u] = q
      /\ \A u \in Users : lock'[u] # p
  BY <1>1 DEF Types, A!Commit, A!Unlock, A!AccountsAssumption
<1>9. /\ k \in SUBSET Instants /\ \E x \in Instants : k \subseteq {x}
      /\ (c.codes.add = {} => k \subseteq codes[c.user])
  <2>1. PICK x \in Instants : codes[c.user] \subseteq {x}
    BY <1>3 DEF AccountsInv, SetsOwned
  <2>2. CASE c.codes.add = {}
    BY <2>1, <2>2
  <2>3. CASE c.codes.add # {}
    <3>1. kept = {} /\ c.codes.add \subseteq {c.stamp} /\ c.stamp \in Instants
      BY <1>2, <2>3 DEF SetOwned, Requested
    <3> QED BY <2>1, <2>3, <3>1
  <2> QED BY <2>2, <2>3
<1>10. inv' = [t \in Tokens |->
                 IF inv[t] = None \/ inv[t].user # c.user THEN inv[t]
                 ELSE IF c.op = "delete" THEN gone(t)
                 ELSE IF t = c.token THEN used(t) ELSE inv[t]]
  BY DEF A!Commit
<1>11. ASSUME NEW t \in Tokens, inv[t] # None
       PROVE  /\ gone(t) \in A!Invitations /\ gone(t).state = "gone" /\ gone(t).user = inv[t].user
              /\ used(t) \in A!Invitations /\ used(t).state = "used" /\ used(t).user = inv[t].user
              /\ gone(t) # None /\ used(t) # None
  <2>1. inv[t] \in A!Invitations /\ None \notin A!Invitations
    BY <1>1, <1>11 DEF Types, A!AccountsAssumption
  <2>2. gone(t) \in A!Invitations /\ gone(t).state = "gone" /\ gone(t).user = inv[t].user
    BY <2>1 DEF A!Invitations
  <2>3. used(t) \in A!Invitations /\ used(t).state = "used" /\ used(t).user = inv[t].user
    BY <2>1 DEF A!Invitations
  <2> QED BY <2>1, <2>2, <2>3
<1>12. rung' = [t \in Tokens |-> IF t = c.token THEN rung[t] + 1 ELSE rung[t]]
  BY DEF A!Commit
<1>13. ASSUME NEW t \in Tokens, t = c.token
       PROVE  /\ c.op \in LinkOps /\ inv[t] # None /\ inv[t].user = c.user /\ rung[t] = 0
              /\ \A q \in Procs \ {p} : ~(request[q].pc \in Claiming /\ request[q].token = t)
  <2>1. c.op \in LinkOps
    BY <1>2, <1>13 DEF Placed, A!AccountsAssumption
  <2> QED BY <1>1, <1>2, <1>13, <2>1 DEF LinkOwned, Claiming
<1> HIDE DEF c, k, gone, used
<1>14. inv' \in [Tokens -> A!Invitations \cup {None}]
  BY <1>1, <1>10, <1>11 DEF Types
<1>15. \A t \in Tokens : inv[t] # None => inv'[t] # None /\ inv'[t].user = inv[t].user
  BY <1>10, <1>11
<1>16. Types'
  <2>1. codes' \in [Users -> SUBSET Instants]
    BY <1>1, <1>3, <1>6, <1>9 DEF Types
  <2>2. rung' \in [Tokens -> Nat]
    BY <1>1, <1>12 DEF Types
  <2>3. \A q \in Procs : Placed(request'[q])
    BY <1>1, <1>7, BlankCall DEF Types
  <2> QED BY <1>1, <1>4, <1>5, <1>7, <1>8, <1>14, <2>1, <2>2, <2>3 DEF Types, A!store, Placed
<1>17. LinksOwned'
  <2>1. ASSUME NEW q \in Procs PROVE LinkOwned(q, request[q])'
    <3>1. CASE q = p
      BY <1>7, <3>1, BlankCall DEF LinkOwned, LinkOps
    <3>2. CASE q # p
      <4> DEFINE d == request[q]
      <4>1. LinkOwned(q, d) /\ Placed(d) /\ d = request'[q]
        BY <1>7, <3>2, CallKnown
      <4>2. ASSUME d.op \in LinkOps
            PROVE  inv'[d.token] # None /\ inv'[d.token].user = d.user
        BY <1>15, <4>1, <4>2 DEF LinkOwned, Placed
      <4>3. ASSUME d.op \in LinkOps, d.pc \in Claiming
            PROVE  /\ rung'[d.token] = 0
                   /\ \A o \in Procs \ {q} : ~(request'[o].pc \in Claiming /\ request'[o].token = d.token)
        <5>1. d.token \in Tokens /\ d.token # None
          BY <4>1, <4>3 DEF Placed, A!AccountsAssumption
        <5>2. d.token # c.token
          BY <1>13, <3>2, <4>3, <5>1
        <5>3. rung[d.token] = 0
              /\ \A o \in Procs \ {q} : ~(request[o].pc \in Claiming /\ request[o].token = d.token)
          BY <4>1, <4>3 DEF LinkOwned
        <5> HIDE DEF d
        <5>4. rung'[d.token] = 0
          BY <1>12, <5>1, <5>2, <5>3
        <5> QED BY <1>7, <5>1, <5>3, <5>4, BlankCall
      <4> QED BY <4>1, <4>2, <4>3 DEF LinkOwned
    <3> QED BY <3>1, <3>2
  <2>2. ASSUME NEW t \in Tokens, inv'[t] = None \/ inv'[t].state = "open" PROVE rung'[t] = 0
    <3>1. inv[t] = None \/ inv[t].state = "open"
      BY <1>10, <1>11, <2>2
    <3>2. rung[t] = 0
      BY <3>1 DEF AccountsInv, LinksOwned
    <3>3. t # c.token
      <4> SUFFICES ASSUME t = c.token PROVE FALSE
        OBVIOUS
      <4>1. c.op \in LinkOps /\ inv[t] # None /\ inv[t].user = c.user
        BY <1>13
      <4>2. inv'[t] = used(t)
        BY <1>10, <4>1 DEF LinkOps
      <4> QED BY <1>11, <2>2, <4>1, <4>2
    <3> QED BY <1>12, <3>2, <3>3
  <2>3. ASSUME NEW t \in Tokens PROVE rung'[t] <= 1
    <3>1. rung[t] \in Nat /\ rung[t] <= 1
      BY <1>1 DEF Types, AccountsInv, LinksOwned
    <3> QED BY <1>12, <1>13, <3>1
  <2> QED BY <2>1, <2>2, <2>3 DEF LinksOwned
<1>18. SessionsOwned'
  <2>1. ASSUME NEW q \in Procs PROVE CallOwned(spent, request[q], now)'
    <3>1. CASE q = p
      BY <1>7, <3>1, BlankCall DEF CallOwned, A!OnSession
    <3>2. CASE q # p
      <4>1. CallOwned(spent, request[q], now)
        BY CallKnown
      <4> QED BY <1>4, <1>7, <3>2, <4>1 DEF CallOwned, SessionOwned
    <3> QED BY <3>1, <3>2
  <2>2. ASSUME NEW s \in Sids, sess'[s] # None PROVE SessionOwned(spent, s, sess[s], now)'
    BY <1>4, <2>2 DEF AccountsInv, SessionsOwned, SessionOwned, A!store
  <2> QED BY <1>4, <2>1, <2>2 DEF AccountsInv, SessionsOwned
<1>19. LocksOwned'
  BY <1>7, <1>8 DEF AccountsInv, LocksOwned, LockOwned
<1>20. SetsOwned'
  <2>1. \A u \in Users : \E x \in Instants : codes'[u] \subseteq {x}
    BY <1>1, <1>6, <1>9 DEF Types, AccountsInv, SetsOwned
  <2>2. ASSUME NEW q \in Procs
        PROVE  SetOwned(request[q])' /\ (HoldsLock(request'[q]) => lock'[request'[q].user] = q)
    <3>1. CASE q = p
      BY <1>7, <3>1, BlankCall DEF SetOwned, HoldsLock
    <3>2. CASE q # p
      <4> DEFINE d == request[q]
      <4>1. d \in Requested /\ Placed(d) /\ SetOwned(d) /\ (HoldsLock(d) => lock[d.user] = q)
        BY CallKnown
      <4>2. d = request'[q]
        BY <1>7, <3>2
      <4> HIDE DEF d
      <4>3. HoldsLock(d) => d.user \in Users /\ lock'[d.user] = q
        <5>1. HoldsLock(d) => d.user \in Users
          BY <4>1 DEF HoldsLock, SetOwned, Placed, Requested, Operations, LinkOps, A!OnSession, A!AdminOps
        <5> QED BY <1>8, <3>2, <4>1, <5>1
      <4>4. d.codes.add # {} => codes'[d.user] \subseteq codes[d.user]
        <5> SUFFICES ASSUME d.codes.add # {} PROVE codes'[d.user] \subseteq codes[d.user]
          OBVIOUS
        <5>1. lock[d.user] = q /\ d.user \in Users
          BY <4>1, <4>3 DEF HoldsLock
        <5>2. CASE d.user = c.user
          <6>1. c.codes.add = {}
            BY <1>2, <3>2, <5>1, <5>2 DEF HoldsLock
          <6> QED BY <1>1, <1>3, <1>6, <1>9, <5>2, <6>1 DEF Types
        <5>3. CASE d.user # c.user
          BY <1>1, <1>6, <5>1, <5>3 DEF Types
        <5> QED BY <5>2, <5>3
      <4>5. SetOwned(d)'
        <5>1. d.codes.add # {} => codes'[d.user] \subseteq d.codes.seen
          BY <4>1, <4>4 DEF SetOwned
        <5>2. d = d'
          BY <4>2 DEF d
        <5> QED BY <4>1, <5>1, <5>2 DEF SetOwned
      <4> QED BY <4>2, <4>3, <4>5 DEF SetOwned, d
    <3> QED BY <3>1, <3>2
  <2> QED BY <2>1, <2>2 DEF SetsOwned
<1> QED BY <1>16, <1>17, <1>18, <1>19, <1>20 DEF AccountsInv

LEMMA AccountsBegin ==
  ASSUME A!AccountsAssumption, A!Init
  PROVE  AccountsInv
<1> USE DEF A!Init
<1>1. /\ AbsoluteTtl \in Nat /\ IdleTtl \in Nat /\ MaxNow \in Nat \ {0} /\ MaxEpoch \in Nat
      /\ UserRows \in [Users -> A!Rows \cup {None}]
      /\ DOMAIN SignedIn \subseteq Sids /\ \A s \in DOMAIN SignedIn : SignedIn[s] \in Users
      /\ None \notin Procs /\ None \notin Tokens /\ None \notin A!Invitations
  BY DEF A!AccountsAssumption
<1>2. now = 1 /\ 0 \in Instants /\ 1 \in Instants
  BY <1>1 DEF Instants
<1> DEFINE x(s) == [user |-> SignedIn[s], secret |-> 1, code |-> [kind |-> "totp", val |-> 0],
                    sid |-> s, born |-> 1, epoch |-> 0]
<1> DEFINE d(s) == [user |-> SignedIn[s], created |-> 1, expires |-> 1 + AbsoluteTtl,
                    epoch |-> 0, until |-> 1 + IdleTtl]
<1>3. /\ spent = {x(s) : s \in DOMAIN SignedIn}
      /\ sess = [s \in Sids |-> IF s \notin DOMAIN SignedIn THEN None ELSE d(s)]
  OBVIOUS
<1>4. ASSUME NEW s \in DOMAIN SignedIn
      PROVE  /\ x(s) \in [user : Users, secret : Nat, code : Typings, sid : Sids, born : Instants,
                          epoch : Nat]
             /\ d(s) \in Sessions
             /\ x(s).sid = s /\ SignedBy(x(s), s, d(s)) /\ d(s).created = 1
  <2>1. SignedIn[s] \in Users /\ s \in Sids
    BY <1>1
  <2>2. [kind |-> "totp", val |-> 0] \in Typings
    BY DEF Typings
  <2>3. d(s) \in Sessions
    BY <1>1, <1>2, <2>1 DEF Sessions
  <2> QED BY <1>1, <1>2, <2>1, <2>2, <2>3 DEF SignedBy
<1>5. codes \in [Users -> SUBSET Instants] /\ \A u \in Users : codes[u] \subseteq {0}
  BY <1>2
<1>6. /\ A!NoReq \in Requested /\ Placed(A!NoReq) /\ A!NoReq.codes.add = {}
      /\ A!NoReq.op = "none" /\ A!NoReq.pc = "idle"
      /\ request = [p \in Procs |-> A!NoReq]
  BY BlankCall
<1> HIDE DEF x, d
<1>7. Types
  <2>1. sess \in [Sids -> Sessions \cup {None}]
    BY <1>3, <1>4
  <2>2. spent \subseteq [user : Users, secret : Nat, code : Typings, sid : Sids, born : Instants,
                         epoch : Nat]
    BY <1>3, <1>4
  <2> QED BY <1>1, <1>2, <1>5, <1>6, <2>1, <2>2 DEF Types
<1>8. LinksOwned
  BY <1>6 DEF LinksOwned, LinkOwned, LinkOps
<1>9. SessionsOwned
  <2>1. \A y, z \in spent : y.sid = z.sid => y = z
    BY <1>3, <1>4
  <2>2. ASSUME NEW s \in Sids, sess[s] # None PROVE SessionOwned(spent, s, sess[s], now)
    <3>1. s \in DOMAIN SignedIn /\ sess[s] = d(s) /\ x(s) \in spent
      BY <1>3, <2>2
    <3> QED BY <1>2, <1>4, <3>1 DEF SessionOwned
  <2>3. \A p \in Procs : CallOwned(spent, request[p], now)
    BY <1>6 DEF CallOwned, A!OnSession
  <2> QED BY <2>1, <2>2, <2>3 DEF SessionsOwned
<1>10. LocksOwned
  BY <1>1 DEF LocksOwned
<1>11. SetsOwned
  BY <1>2, <1>5, <1>6 DEF SetsOwned, SetOwned, HoldsLock
<1> QED BY <1>7, <1>8, <1>9, <1>10, <1>11 DEF AccountsInv

LEMMA AccountsStep ==
  ASSUME A!AccountsAssumption, AccountsInv, [A!Next]_(A!vars)
  PROVE  AccountsInv'
<1>1. CASE UNCHANGED A!vars
  BY <1>1 DEF A!vars, AccountsInv, Types, LinksOwned, LinkOwned, SessionsOwned, SessionOwned,
              CallOwned, LocksOwned, SetsOwned, SetOwned
<1>2. ASSUME NEW p \in Procs, A!Sign(p) PROVE AccountsInv'
  BY <1>2, LoginAllowedKeeps, VerifyPasswordKeeps, ReadChallengeKeeps, DropChallengeKeeps,
     VerifyCodeKeeps, ClaimTotpKeeps, ClaimRecoveryKeeps, AdmitKeeps, CreateKeeps DEF A!Sign
<1>3. ASSUME NEW p \in Procs, A!OnOwn(p) PROVE AccountsInv'
  BY <1>3, ReadSessionKeeps, CheckSessionKeeps, RefreshSessionKeeps, ResolveActorKeeps,
     RespondKeeps, SignOutKeeps, BeginReenrolmentKeeps, OwnReadKeeps, OwnSaveKeeps, OwnMarkKeeps,
     ReadKeptKeeps, RestampKeeps DEF A!OnOwn
<1>4. ASSUME NEW p \in Procs, A!Administer(p) PROVE AccountsInv'
  BY <1>4, AdminReadKeeps, StampKeeps, AdminWriteKeeps, InvalidateKeeps, DeleteRowKeeps
     DEF A!Administer
<1>5. ASSUME NEW p \in Procs, A!Redeem(p) PROVE AccountsInv'
  BY <1>5, RedeemReadKeeps, ClaimLinkKeeps, RedeemSaveKeeps, RedeemMarkKeeps DEF A!Redeem, LinkOps
<1>6. CASE A!Invite
  BY <1>6, BootstrapClaimKeeps, CreateAccountKeeps, ReissueKeeps, ElsewhereKeeps DEF A!Invite
<1> QED BY <1>1, <1>2, <1>3, <1>4, <1>5, <1>6, CommitKeeps, ElsewhereKeeps DEF A!Next

THEOREM AccountsHeld ==
  ASSUME A!AccountsAssumption
  PROVE  A!Spec => []AccountsInv
<1>1. A!Init => AccountsInv
  BY AccountsBegin
<1>2. AccountsInv /\ [A!Next]_(A!vars) => AccountsInv'
  BY AccountsStep
<1> QED BY <1>1, <1>2, PTL DEF A!Spec

\* The types of the tables and of what Redis keeps: no session outlasts its lifetime from the
\* moment it was created, and a request that has ended holds no row.
THEOREM AccountsTypes ==
  ASSUME A!AccountsAssumption
  PROVE  A!Spec => []A!TypeOK
<1>1. ASSUME AccountsInv PROVE A!TypeOK
  <2>1. Types
    BY <1>1 DEF AccountsInv
  <2>2. ASSUME NEW s \in Sids, sess[s] # None
        PROVE  /\ sess[s].user \in Users /\ sess[s].created <= now
               /\ sess[s].expires <= sess[s].created + AbsoluteTtl
    <3>1. SessionOwned(spent, s, sess[s], now) /\ sess[s] \in Sessions
      BY <1>1, <2>1, <2>2 DEF AccountsInv, SessionsOwned, Types
    <3>2. PICK x \in spent : SignedBy(x, s, sess[s])
      BY <3>1 DEF SessionOwned
    <3>3. x.born \in Nat /\ sess[s].created \in Nat /\ AbsoluteTtl \in Nat
      BY <1>1, <2>1, <3>1 DEF Types, Instants, Sessions, A!AccountsAssumption
    <3> QED BY <3>1, <3>2, <3>3 DEF SessionOwned, SignedBy, Sessions
  <2>3. \A p \in Procs : request[p].pc = "idle" => \A u \in Users : lock[u] # p
    BY <1>1 DEF AccountsInv, LocksOwned, LockOwned
  <2> QED BY <2>1, <2>2, <2>3 DEF A!TypeOK, Types, Instants
<1> QED BY <1>1, AccountsHeld, PTL

\* A link replaces a password or makes an account once, whatever else is redeemed, issued,
\* deleted or signed in with at the same time: `consume` and the row's lock are enough.
THEOREM LinksRedeemOnce ==
  ASSUME A!AccountsAssumption
  PROVE  A!Spec => []A!LinkOnce
<1>1. AccountsInv => A!LinkOnce
  BY DEF AccountsInv, LinksOwned, A!LinkOnce
<1> QED BY <1>1, AccountsHeld, PTL

\* The sign-in of a session is the one it was signed in by.
LEMMA LoginOf ==
  ASSUME AccountsInv, NEW p \in Procs, A!Accepted(p)
  PROVE  /\ A!Login(request[p].sid) \in spent
         /\ SignedBy(A!Login(request[p].sid), request[p].sid, request[p].data)
         /\ request[p].at < request[p].data.expires
         /\ request[p].row.role = "admin" \/ request[p].data.epoch >= request[p].epoch
<1> DEFINE c == request[p]
<1>1. c.op \in A!OnSession /\ c.pc = "accepted" /\ CallOwned(spent, c, now)
  BY CallKnown DEF A!Accepted, A!At
<1>2. PICK x \in spent : SignedBy(x, c.sid, c.data)
  BY <1>1 DEF CallOwned, SessionOwned
<1>3. \A y \in spent : y.sid = c.sid => y = x
  BY <1>2 DEF SignedBy, AccountsInv, SessionsOwned
<1>4. A!Login(c.sid) = x
  BY <1>2, <1>3 DEF A!Login, SignedBy
<1> QED BY <1>1, <1>2, <1>4 DEF CallOwned

\* However often a session is refreshed, or written again as if it were new after its owner's
\* password changed, nothing is accepted on it past the lifetime of the sign-in.
THEOREM SignInsExpire ==
  ASSUME A!AccountsAssumption
  PROVE  A!Spec => []A!LifetimeHolds
<1>1. AccountsInv => A!LifetimeHolds
  BY LoginOf DEF A!LifetimeHolds, SignedBy
<1> QED BY <1>1, AccountsHeld, PTL

\* A sign-in that read the maintenance epoch before an entry to maintenance, and wrote its
\* session after, is refused with the rest: its session carries the epoch it read.
THEOREM EntrySweepsAll ==
  ASSUME A!AccountsAssumption
  PROVE  A!Spec => []A!MaintenanceSweeps
<1>1. AccountsInv => A!MaintenanceSweeps
  BY LoginOf DEF A!MaintenanceSweeps, SignedBy
<1> QED BY <1>1, AccountsHeld, PTL

\* The recovery codes on record are one set, though the old set is deleted and the new one
\* added from what was read: the row's lock is held from before the read to the commit.
LEMMA SameCount == \A S : A!Cardinality(S) = Cardinality(S)
  BY DEF A!Cardinality, Cardinality

THEOREM OneSetOfCodes ==
  ASSUME A!AccountsAssumption
  PROVE  A!Spec => []A!OneRecoverySet
<1>1. ASSUME AccountsInv PROVE A!OneRecoverySet
  <2>1. ASSUME NEW u \in Users PROVE Cardinality(codes[u]) <= 1
    <3>1. PICK x \in Instants : codes[u] \subseteq {x}
      BY <1>1 DEF AccountsInv, SetsOwned
    <3>2. codes[u] = {} \/ codes[u] = {x}
      BY <3>1
    <3>3. Cardinality({}) = 0 /\ Cardinality({x}) = 1
      BY FS_EmptySet, FS_Singleton
    <3> QED BY <3>2, <3>3
  <2> QED BY <2>1, SameCount DEF A!OneRecoverySet
<1> QED BY <1>1, AccountsHeld, PTL

\* What each step leaves of the request that takes it, and that it leaves the others alone.
LEMMA LoginAllowedMoves ==
  ASSUME A!AccountsAssumption, AccountsInv, NEW p \in Procs, NEW u \in Users,
         A!LoginAllowed(p, u)
  PROVE  LET c == request[p]
             r == request'[p]
         IN  /\ \A q \in Procs \ {p} : request'[q] = request[q]
             /\ r.op = "login" /\ r.pc = "password" /\ r.user = u
             /\ r.data = A!NoReq.data /\ r.row = A!NoReq.row /\ r.write = A!NoReq.write
             /\ r.secret = A!NoReq.secret /\ r.codes = A!NoReq.codes /\ r.code = A!NoReq.code
<1> DEFINE c == request[p]
<1> DEFINE r == [A!NoReq EXCEPT !.op = "login", !.pc = "password", !.user = u]
<1>1. c \in Requested /\ request \in [Procs -> Requested]
  BY DEF AccountsInv, Types
<1>2. request' = [request EXCEPT ![p] = r]
  BY <1>1 DEF A!LoginAllowed, A!Begin
<1>3. request'[p] = r /\ \A q \in Procs \ {p} : request'[q] = request[q]
  BY <1>1, <1>2
<1> HIDE DEF c
<1>4. r.op = "login" /\ r.pc = "password" /\ r.user = u
  BY <1>1, BlankCall DEF Requested
<1>5. r.data = A!NoReq.data /\ r.row = A!NoReq.row /\ r.write = A!NoReq.write
  BY <1>1, BlankCall DEF Requested
<1>6. r.secret = A!NoReq.secret /\ r.codes = A!NoReq.codes /\ r.code = A!NoReq.code
  BY <1>1, BlankCall DEF Requested
<1> HIDE DEF r
<1> QED BY <1>3, <1>4, <1>5, <1>6 DEF c

LEMMA ReadSessionMoves ==
  ASSUME A!AccountsAssumption, AccountsInv, NEW p \in Procs, NEW s \in Sids, NEW op \in A!OnSession,
         A!ReadSession(p, s, op)
  PROVE  LET c == request[p]
             r == request'[p]
             d == sess[s]
         IN  /\ \A q \in Procs \ {p} : request'[q] = request[q]
             /\ r.op = op /\ r.pc = "check" /\ r.user = A!NoReq.user
             /\ r.data = d /\ r.row = A!NoReq.row /\ r.write = A!NoReq.write
             /\ r.secret = A!NoReq.secret /\ r.codes = A!NoReq.codes /\ r.code = A!NoReq.code
<1> DEFINE c == request[p]
<1> DEFINE d == sess[s]
<1> DEFINE r == [A!NoReq EXCEPT !.op = op, !.pc = "check", !.sid = s, !.at = now, !.data = d, !.mark = revoked]
<1>1. c \in Requested /\ request \in [Procs -> Requested]
  BY DEF AccountsInv, Types
<1>2. request' = [request EXCEPT ![p] = r]
  BY <1>1 DEF A!ReadSession, A!Begin
<1>3. request'[p] = r /\ \A q \in Procs \ {p} : request'[q] = request[q]
  BY <1>1, <1>2
<1> HIDE DEF c, d
<1>4. r.op = op /\ r.pc = "check" /\ r.user = A!NoReq.user
  BY <1>1, BlankCall DEF Requested
<1>5. r.data = d /\ r.row = A!NoReq.row /\ r.write = A!NoReq.write
  BY <1>1, BlankCall DEF Requested
<1>6. r.secret = A!NoReq.secret /\ r.codes = A!NoReq.codes /\ r.code = A!NoReq.code
  BY <1>1, BlankCall DEF Requested
<1> HIDE DEF r
<1> QED BY <1>3, <1>4, <1>5, <1>6 DEF c, d

LEMMA AdminReadMoves ==
  ASSUME A!AccountsAssumption, AccountsInv, NEW p \in Procs, NEW a \in Users, NEW u \in Users, NEW op \in A!AdminOps,
         A!AdminRead(p, a, u, op)
  PROVE  LET c == request[p]
             r == request'[p]
             v == row[u]
         IN  /\ \A q \in Procs \ {p} : request'[q] = request[q]
             /\ r.op = op /\ r.pc = "write" /\ r.user = u
             /\ r.data = A!NoReq.data /\ r.row = v /\ r.write = A!NoReq.write
             /\ r.secret = A!NoReq.secret /\ r.codes = A!NoReq.codes /\ r.code = A!NoReq.code
<1> DEFINE c == request[p]
<1> DEFINE v == row[u]
<1> DEFINE r == [A!NoReq EXCEPT !.op = op, !.pc = "write", !.user = u, !.row = v]
<1>1. c \in Requested /\ request \in [Procs -> Requested]
  BY DEF AccountsInv, Types
<1>2. request' = [request EXCEPT ![p] = r]
  BY <1>1 DEF A!AdminRead, A!Begin
<1>3. request'[p] = r /\ \A q \in Procs \ {p} : request'[q] = request[q]
  BY <1>1, <1>2
<1> HIDE DEF c, v
<1>4. r.op = op /\ r.pc = "write" /\ r.user = u
  BY <1>1, BlankCall DEF Requested
<1>5. r.data = A!NoReq.data /\ r.row = v /\ r.write = A!NoReq.write
  BY <1>1, BlankCall DEF Requested
<1>6. r.secret = A!NoReq.secret /\ r.codes = A!NoReq.codes /\ r.code = A!NoReq.code
  BY <1>1, BlankCall DEF Requested
<1> HIDE DEF r
<1> QED BY <1>3, <1>4, <1>5, <1>6 DEF c, v

LEMMA RedeemReadMoves ==
  ASSUME A!AccountsAssumption, AccountsInv, NEW p \in Procs, NEW t \in Tokens, NEW op \in LinkOps,
         A!RedeemRead(p, t, op)
  PROVE  LET c == request[p]
             r == request'[p]
             u == inv[t].user
             v == row[u]
             z == pending[u]
         IN  /\ \A q \in Procs \ {p} : request'[q] = request[q]
             /\ r.op = op /\ r.pc = "link" /\ r.user = u
             /\ r.data = A!NoReq.data /\ r.row = v /\ r.write = A!NoReq.write
             /\ r.secret = z /\ r.codes = A!NoReq.codes /\ r.code = A!NoReq.code
<1> DEFINE c == request[p]
<1> DEFINE u == inv[t].user
<1> DEFINE v == row[u]
<1> DEFINE z == pending[u]
<1> DEFINE r == [A!NoReq EXCEPT !.op = op, !.pc = "link", !.user = u, !.token = t, !.row = v, !.secret = z]
<1>1. c \in Requested /\ request \in [Procs -> Requested]
  BY DEF AccountsInv, Types
<1>2. request' = [request EXCEPT ![p] = r]
  BY <1>1 DEF A!RedeemRead, A!Begin
<1>3. request'[p] = r /\ \A q \in Procs \ {p} : request'[q] = request[q]
  BY <1>1, <1>2
<1> HIDE DEF c, u, v, z
<1>4. r.op = op /\ r.pc = "link" /\ r.user = u
  BY <1>1, BlankCall DEF Requested
<1>5. r.data = A!NoReq.data /\ r.row = v /\ r.write = A!NoReq.write
  BY <1>1, BlankCall DEF Requested
<1>6. r.secret = z /\ r.codes = A!NoReq.codes /\ r.code = A!NoReq.code
  BY <1>1, BlankCall DEF Requested
<1> HIDE DEF r
<1> QED BY <1>3, <1>4, <1>5, <1>6 DEF c, u, v, z

LEMMA VerifyCodeMoves ==
  ASSUME A!AccountsAssumption, AccountsInv, NEW p \in Procs,
         A!VerifyCode(p)
  PROVE  LET c == request[p]
             r == request'[p]
             v == row[c.user]
         IN  /\ \A q \in Procs \ {p} : request'[q] = request[q]
             /\ r = A!NoReq \/ (/\ r.op = c.op /\ r.pc = "claim" /\ r.user = c.user
                                 /\ r.data = c.data /\ r.row = v /\ r.write = c.write
                                 /\ r.secret = c.secret /\ r.codes = c.codes /\ r.code = c.code)
<1> DEFINE c == request[p]
<1> DEFINE v == row[c.user]
<1> DEFINE r == [c EXCEPT !.row = v, !.pc = "claim"]
<1>1. c \in Requested /\ request \in [Procs -> Requested]
  BY DEF AccountsInv, Types
<1>2. A!End(p) \/ request' = [request EXCEPT ![p] = r]
  BY <1>1 DEF A!VerifyCode, A!Reads
<1>3. CASE A!End(p)
  BY <1>1, <1>3 DEF A!End
<1>4. CASE request' = [request EXCEPT ![p] = r]
  <2>1. request'[p] = r /\ \A q \in Procs \ {p} : request'[q] = request[q]
    BY <1>1, <1>4
  <2> HIDE DEF c, v
  <2>2. r.op = c.op /\ r.pc = "claim" /\ r.user = c.user
    BY <1>1 DEF Requested
  <2>3. r.data = c.data /\ r.row = v /\ r.write = c.write
    BY <1>1 DEF Requested
  <2>4. r.secret = c.secret /\ r.codes = c.codes /\ r.code = c.code
    BY <1>1 DEF Requested
  <2> HIDE DEF r
  <2> QED BY <2>1, <2>2, <2>3, <2>4 DEF c, v
<1> QED BY <1>2, <1>3, <1>4

LEMMA ClaimTotpMoves ==
  ASSUME A!AccountsAssumption, AccountsInv, NEW p \in Procs,
         A!ClaimTotp(p)
  PROVE  LET c == request[p]
             r == request'[p]
             w == [counter |-> c.code.val]
         IN  /\ \A q \in Procs \ {p} : request'[q] = request[q]
             /\ r = A!NoReq \/ (/\ r.op = c.op /\ r.pc = "admit" /\ r.user = c.user
                                 /\ r.data = c.data /\ r.row = c.row /\ r.write = w
                                 /\ r.secret = c.secret /\ r.codes = c.codes /\ r.code = c.code)
<1> DEFINE c == request[p]
<1> DEFINE w == [counter |-> c.code.val]
<1> DEFINE r == [c EXCEPT !.write = w, !.pc = "admit"]
<1>1. c \in Requested /\ request \in [Procs -> Requested]
  BY DEF AccountsInv, Types
<1>2. A!End(p) \/ request' = [request EXCEPT ![p] = r]
  BY <1>1 DEF A!ClaimTotp
<1>3. CASE A!End(p)
  BY <1>1, <1>3 DEF A!End
<1>4. CASE request' = [request EXCEPT ![p] = r]
  <2>1. request'[p] = r /\ \A q \in Procs \ {p} : request'[q] = request[q]
    BY <1>1, <1>4
  <2> HIDE DEF c, w
  <2>2. r.op = c.op /\ r.pc = "admit" /\ r.user = c.user
    BY <1>1 DEF Requested
  <2>3. r.data = c.data /\ r.row = c.row /\ r.write = w
    BY <1>1 DEF Requested
  <2>4. r.secret = c.secret /\ r.codes = c.codes /\ r.code = c.code
    BY <1>1 DEF Requested
  <2> HIDE DEF r
  <2> QED BY <2>1, <2>2, <2>3, <2>4 DEF c, w
<1> QED BY <1>2, <1>3, <1>4

LEMMA ClaimRecoveryMoves ==
  ASSUME A!AccountsAssumption, AccountsInv, NEW p \in Procs,
         A!ClaimRecovery(p)
  PROVE  LET c == request[p]
             r == request'[p]
             z == {c.code.val}
         IN  /\ \A q \in Procs \ {p} : request'[q] = request[q]
             /\ r = A!NoReq \/ (/\ r.op = c.op /\ r.pc = "admit" /\ r.user = c.user
                                 /\ r.data = c.data /\ r.row = c.row /\ r.write = c.write
                                 /\ r.secret = c.secret /\ r.codes.add = c.codes.add /\ r.codes.seen = z /\ r.code = c.code)
<1> DEFINE c == request[p]
<1> DEFINE z == {c.code.val}
<1> DEFINE r == [c EXCEPT !.codes.seen = z, !.pc = "admit"]
<1>1. c \in Requested /\ request \in [Procs -> Requested]
  BY DEF AccountsInv, Types
<1>2. A!End(p) \/ request' = [request EXCEPT ![p] = r]
  BY <1>1 DEF A!ClaimRecovery
<1>3. CASE A!End(p)
  BY <1>1, <1>3 DEF A!End
<1>4. CASE request' = [request EXCEPT ![p] = r]
  <2>1. request'[p] = r /\ \A q \in Procs \ {p} : request'[q] = request[q]
    BY <1>1, <1>4
  <2> HIDE DEF c, z
  <2>2. r.op = c.op /\ r.pc = "admit" /\ r.user = c.user
    BY <1>1 DEF Requested
  <2>3. r.data = c.data /\ r.row = c.row /\ r.write = c.write
    BY <1>1 DEF Requested
  <2>4. r.secret = c.secret /\ r.codes.add = c.codes.add /\ r.codes.seen = z /\ r.code = c.code
    BY <1>1 DEF Requested, SetChanges
  <2> HIDE DEF r
  <2> QED BY <2>1, <2>2, <2>3, <2>4 DEF c, z
<1> QED BY <1>2, <1>3, <1>4

LEMMA AdmitMoves ==
  ASSUME A!AccountsAssumption, AccountsInv, NEW p \in Procs,
         A!Admit(p)
  PROVE  LET c == request[p]
             r == request'[p]
             e == maint.epoch
         IN  /\ \A q \in Procs \ {p} : request'[q] = request[q]
             /\ r = A!NoReq \/ (/\ r.op = c.op /\ r.pc = "create" /\ r.user = c.user
                                 /\ r.data = c.data /\ r.row = c.row /\ r.write = c.write
                                 /\ r.secret = c.secret /\ r.codes = c.codes /\ r.code = c.code)
<1> DEFINE c == request[p]
<1> DEFINE e == maint.epoch
<1> DEFINE r == [c EXCEPT !.epoch = e, !.pc = "create"]
<1>1. c \in Requested /\ request \in [Procs -> Requested]
  BY DEF AccountsInv, Types
<1>2. A!End(p) \/ request' = [request EXCEPT ![p] = r]
  BY <1>1 DEF A!Admit, A!Abort
<1>3. CASE A!End(p)
  BY <1>1, <1>3 DEF A!End
<1>4. CASE request' = [request EXCEPT ![p] = r]
  <2>1. request'[p] = r /\ \A q \in Procs \ {p} : request'[q] = request[q]
    BY <1>1, <1>4
  <2> HIDE DEF c, e
  <2>2. r.op = c.op /\ r.pc = "create" /\ r.user = c.user
    BY <1>1 DEF Requested
  <2>3. r.data = c.data /\ r.row = c.row /\ r.write = c.write
    BY <1>1 DEF Requested
  <2>4. r.secret = c.secret /\ r.codes = c.codes /\ r.code = c.code
    BY <1>1 DEF Requested
  <2> HIDE DEF r
  <2> QED BY <2>1, <2>2, <2>3, <2>4 DEF c, e
<1> QED BY <1>2, <1>3, <1>4

LEMMA ResolveActorMoves ==
  ASSUME A!AccountsAssumption, AccountsInv, NEW p \in Procs,
         A!ResolveActor(p)
  PROVE  LET c == request[p]
             r == request'[p]
             u == c.data.user
             v == row[u]
             e == maint.epoch
         IN  /\ \A q \in Procs \ {p} : request'[q] = request[q]
             /\ r = A!NoReq \/ (/\ r.op = c.op /\ r.pc = "accepted" /\ r.user = u
                                 /\ r.data = c.data /\ r.row = v /\ r.write = c.write
                                 /\ r.secret = c.secret /\ r.codes = c.codes /\ r.code = c.code)
<1> DEFINE c == request[p]
<1> DEFINE u == c.data.user
<1> DEFINE v == row[u]
<1> DEFINE e == maint.epoch
<1> DEFINE r == [c EXCEPT !.row = v, !.user = u, !.epoch = e, !.pc = "accepted"]
<1>1. c \in Requested /\ request \in [Procs -> Requested]
  BY DEF AccountsInv, Types
<1>2. A!End(p) \/ request' = [request EXCEPT ![p] = r]
  BY <1>1 DEF A!ResolveActor
<1>3. CASE A!End(p)
  BY <1>1, <1>3 DEF A!End
<1>4. CASE request' = [request EXCEPT ![p] = r]
  <2>1. request'[p] = r /\ \A q \in Procs \ {p} : request'[q] = request[q]
    BY <1>1, <1>4
  <2> HIDE DEF c, u, v, e
  <2>2. r.op = c.op /\ r.pc = "accepted" /\ r.user = u
    BY <1>1 DEF Requested
  <2>3. r.data = c.data /\ r.row = v /\ r.write = c.write
    BY <1>1 DEF Requested
  <2>4. r.secret = c.secret /\ r.codes = c.codes /\ r.code = c.code
    BY <1>1 DEF Requested
  <2> HIDE DEF r
  <2> QED BY <2>1, <2>2, <2>3, <2>4 DEF c, u, v, e
<1> QED BY <1>2, <1>3, <1>4

LEMMA OwnReadMoves ==
  ASSUME A!AccountsAssumption, AccountsInv, NEW p \in Procs,
         A!OwnRead(p)
  PROVE  LET c == request[p]
             r == request'[p]
             v == row[c.user]
         IN  /\ \A q \in Procs \ {p} : request'[q] = request[q]
             /\ r = A!NoReq \/ (/\ r.op = c.op /\ r.pc = "own" /\ r.user = c.user
                                 /\ r.data = c.data /\ r.row = v /\ r.write = c.write
                                 /\ r.secret = c.secret /\ r.codes = c.codes /\ r.code = c.code)
<1> DEFINE c == request[p]
<1> DEFINE v == row[c.user]
<1> DEFINE r == [c EXCEPT !.row = v, !.pc = "own"]
<1>1. c \in Requested /\ request \in [Procs -> Requested]
  BY DEF AccountsInv, Types
<1>2. A!End(p) \/ request' = [request EXCEPT ![p] = r]
  BY <1>1 DEF A!OwnRead, A!Reads
<1>3. CASE A!End(p)
  BY <1>1, <1>3 DEF A!End
<1>4. CASE request' = [request EXCEPT ![p] = r]
  <2>1. request'[p] = r /\ \A q \in Procs \ {p} : request'[q] = request[q]
    BY <1>1, <1>4
  <2> HIDE DEF c, v
  <2>2. r.op = c.op /\ r.pc = "own" /\ r.user = c.user
    BY <1>1 DEF Requested
  <2>3. r.data = c.data /\ r.row = v /\ r.write = c.write
    BY <1>1 DEF Requested
  <2>4. r.secret = c.secret /\ r.codes = c.codes /\ r.code = c.code
    BY <1>1 DEF Requested
  <2> HIDE DEF r
  <2> QED BY <2>1, <2>2, <2>3, <2>4 DEF c, v
<1> QED BY <1>2, <1>3, <1>4

LEMMA StampMoves ==
  ASSUME A!AccountsAssumption, AccountsInv, NEW p \in Procs,
         A!Stamp(p)
  PROVE  LET c == request[p]
             r == request'[p]
             n == now + 1
             z == IF c.op = "delete" THEN "mark" ELSE "write"
         IN  /\ \A q \in Procs \ {p} : request'[q] = request[q]
             /\ r.op = c.op /\ r.pc = z /\ r.user = c.user
             /\ r.data = c.data /\ r.row = c.row /\ r.write = c.write
             /\ r.secret = c.secret /\ r.codes = c.codes /\ r.code = c.code
<1> DEFINE c == request[p]
<1> DEFINE n == now + 1
<1> DEFINE z == IF c.op = "delete" THEN "mark" ELSE "write"
<1> DEFINE r == [c EXCEPT !.stamp = n, !.pc = z]
<1>1. c \in Requested /\ request \in [Procs -> Requested]
  BY DEF AccountsInv, Types
<1>2. request' = [request EXCEPT ![p] = r]
  BY <1>1 DEF A!Stamp
<1>3. request'[p] = r /\ \A q \in Procs \ {p} : request'[q] = request[q]
  BY <1>1, <1>2
<1> HIDE DEF c, n, z
<1>4. r.op = c.op /\ r.pc = z /\ r.user = c.user
  BY <1>1 DEF Requested
<1>5. r.data = c.data /\ r.row = c.row /\ r.write = c.write
  BY <1>1 DEF Requested
<1>6. r.secret = c.secret /\ r.codes = c.codes /\ r.code = c.code
  BY <1>1 DEF Requested
<1> HIDE DEF r
<1> QED BY <1>3, <1>4, <1>5, <1>6 DEF c, n, z

LEMMA ClaimLinkMoves ==
  ASSUME A!AccountsAssumption, AccountsInv, NEW p \in Procs,
         A!ClaimLink(p)
  PROVE  LET c == request[p]
             r == request'[p]
             n == now + 1
         IN  /\ \A q \in Procs \ {p} : request'[q] = request[q]
             /\ r = A!NoReq \/ (/\ r.op = c.op /\ r.pc = "claimed" /\ r.user = c.user
                                 /\ r.data = c.data /\ r.row = c.row /\ r.write = c.write
                                 /\ r.secret = c.secret /\ r.codes = c.codes /\ r.code = c.code)
<1> DEFINE c == request[p]
<1> DEFINE n == now + 1
<1> DEFINE r == [c EXCEPT !.stamp = n, !.pc = "claimed"]
<1>1. c \in Requested /\ request \in [Procs -> Requested]
  BY DEF AccountsInv, Types
<1>2. A!End(p) \/ request' = [request EXCEPT ![p] = r]
  BY <1>1 DEF A!ClaimLink
<1>3. CASE A!End(p)
  BY <1>1, <1>3 DEF A!End
<1>4. CASE request' = [request EXCEPT ![p] = r]
  <2>1. request'[p] = r /\ \A q \in Procs \ {p} : request'[q] = request[q]
    BY <1>1, <1>4
  <2> HIDE DEF c, n
  <2>2. r.op = c.op /\ r.pc = "claimed" /\ r.user = c.user
    BY <1>1 DEF Requested
  <2>3. r.data = c.data /\ r.row = c.row /\ r.write = c.write
    BY <1>1 DEF Requested
  <2>4. r.secret = c.secret /\ r.codes = c.codes /\ r.code = c.code
    BY <1>1 DEF Requested
  <2> HIDE DEF r
  <2> QED BY <2>1, <2>2, <2>3, <2>4 DEF c, n
<1> QED BY <1>2, <1>3, <1>4

LEMMA OwnMarkMoves ==
  ASSUME A!AccountsAssumption, AccountsInv, NEW p \in Procs,
         A!OwnMark(p)
  PROVE  LET c == request[p]
             r == request'[p]
             n == now + 1
             k == IF c.op = "totp" THEN [seen |-> codes[c.user], add |-> {n}] ELSE c.codes
         IN  /\ \A q \in Procs \ {p} : request'[q] = request[q]
             /\ r.op = c.op /\ r.pc = "kept" /\ r.user = c.user
             /\ r.data = c.data /\ r.row = c.row /\ r.write = c.write
             /\ r.secret = c.secret /\ r.codes = k /\ r.code = c.code
<1> DEFINE c == request[p]
<1> DEFINE n == now + 1
<1> DEFINE k == IF c.op = "totp" THEN [seen |-> codes[c.user], add |-> {n}] ELSE c.codes
<1> DEFINE r == [c EXCEPT !.stamp = n, !.pc = "kept", !.codes = k]
<1>1. c \in Requested /\ request \in [Procs -> Requested]
  BY DEF AccountsInv, Types
<1>2. request' = [request EXCEPT ![p] = r]
  BY <1>1 DEF A!OwnMark, A!reissue_recovery_codes
<1>3. request'[p] = r /\ \A q \in Procs \ {p} : request'[q] = request[q]
  BY <1>1, <1>2
<1> HIDE DEF c, n, k
<1>4. r.op = c.op /\ r.pc = "kept" /\ r.user = c.user
  BY <1>1 DEF Requested
<1>5. r.data = c.data /\ r.row = c.row /\ r.write = c.write
  BY <1>1 DEF Requested
<1>6. r.secret = c.secret /\ r.codes = k /\ r.code = c.code
  BY <1>1 DEF Requested
<1> HIDE DEF r
<1> QED BY <1>3, <1>4, <1>5, <1>6 DEF c, n, k


LEMMA StepMoves ==
  ASSUME A!AccountsAssumption, AccountsInv, NEW p \in Procs, NEW pc,
         A!Step(p, pc)
  PROVE  LET c == request[p]
             r == request'[p]
         IN  /\ \A q \in Procs \ {p} : request'[q] = request[q]
             /\ r.op = c.op /\ r.pc = pc /\ r.user = c.user
             /\ r.data = c.data /\ r.row = c.row /\ r.write = c.write
             /\ r.secret = c.secret /\ r.codes = c.codes /\ r.code = c.code
<1> DEFINE c == request[p]
<1> DEFINE r == [c EXCEPT !.pc = pc]
<1>1. c \in Requested /\ request \in [Procs -> Requested]
  BY DEF AccountsInv, Types
<1>2. request' = [request EXCEPT ![p] = r]
  BY <1>1 DEF A!Step
<1>3. request'[p] = r /\ \A q \in Procs \ {p} : request'[q] = request[q]
  BY <1>1, <1>2
<1> HIDE DEF c
<1>4. r.op = c.op /\ r.pc = pc /\ r.user = c.user
  BY <1>1 DEF Requested
<1>5. r.data = c.data /\ r.row = c.row /\ r.write = c.write
  BY <1>1 DEF Requested
<1>6. r.secret = c.secret /\ r.codes = c.codes /\ r.code = c.code
  BY <1>1 DEF Requested
<1> HIDE DEF r
<1> QED BY <1>3, <1>4, <1>5, <1>6 DEF c

LEMMA UpdateMoves ==
  ASSUME A!AccountsAssumption, AccountsInv, NEW p \in Procs, NEW u, NEW w,
         A!Update(p, u, w)
  PROVE  LET c == request[p]
             r == request'[p]
         IN  /\ \A q \in Procs \ {p} : request'[q] = request[q]
             /\ r.op = c.op /\ r.pc = "mark" /\ r.user = c.user
             /\ r.data = c.data /\ r.row = c.row /\ r.write = w
             /\ r.secret = c.secret /\ r.codes = c.codes /\ r.code = c.code
<1> DEFINE c == request[p]
<1> DEFINE r == [c EXCEPT !.write = w, !.pc = "mark"]
<1>1. c \in Requested /\ request \in [Procs -> Requested]
  BY DEF AccountsInv, Types
<1>2. request' = [request EXCEPT ![p] = r]
  BY <1>1 DEF A!Update
<1>3. request'[p] = r /\ \A q \in Procs \ {p} : request'[q] = request[q]
  BY <1>1, <1>2
<1> HIDE DEF c
<1>4. r.op = c.op /\ r.pc = "mark" /\ r.user = c.user
  BY <1>1 DEF Requested
<1>5. r.data = c.data /\ r.row = c.row /\ r.write = w
  BY <1>1 DEF Requested
<1>6. r.secret = c.secret /\ r.codes = c.codes /\ r.code = c.code
  BY <1>1 DEF Requested
<1> HIDE DEF r
<1> QED BY <1>3, <1>4, <1>5, <1>6 DEF c

LEMMA ReadChallengeMoves ==
  ASSUME A!AccountsAssumption, AccountsInv, NEW p \in Procs, NEW o, NEW z,
         A!Begin(p, [A!NoReq EXCEPT !.op = "factor", !.pc = "taken", !.user = chal[o],
                                    !.key = o, !.code = z])
  PROVE  LET c == request[p]
             r == request'[p]
             u == chal[o]
         IN  /\ \A q \in Procs \ {p} : request'[q] = request[q]
             /\ r.op = "factor" /\ r.pc = "taken" /\ r.user = u
             /\ r.data = A!NoReq.data /\ r.row = A!NoReq.row /\ r.write = A!NoReq.write
             /\ r.secret = A!NoReq.secret /\ r.codes = A!NoReq.codes /\ r.code = z
<1> DEFINE c == request[p]
<1> DEFINE u == chal[o]
<1> DEFINE r == [A!NoReq EXCEPT !.op = "factor", !.pc = "taken", !.user = u, !.key = o, !.code = z]
<1>1. c \in Requested /\ request \in [Procs -> Requested]
  BY DEF AccountsInv, Types
<1>2. request' = [request EXCEPT ![p] = r]
  BY <1>1 DEF A!Begin
<1>3. request'[p] = r /\ \A q \in Procs \ {p} : request'[q] = request[q]
  BY <1>1, <1>2
<1> HIDE DEF c, u
<1>4. r.op = "factor" /\ r.pc = "taken" /\ r.user = u
  BY <1>1, BlankCall DEF Requested
<1>5. r.data = A!NoReq.data /\ r.row = A!NoReq.row /\ r.write = A!NoReq.write
  BY <1>1, BlankCall DEF Requested
<1>6. r.secret = A!NoReq.secret /\ r.codes = A!NoReq.codes /\ r.code = z
  BY <1>1, BlankCall DEF Requested
<1> HIDE DEF r
<1> QED BY <1>3, <1>4, <1>5, <1>6 DEF c, u

LEMMA RereadMoves ==
  ASSUME A!AccountsAssumption, AccountsInv, NEW p \in Procs,
         request' = [request EXCEPT ![p].data = sess[request[p].sid], ![p].pc = "restamp"]
  PROVE  LET c == request[p]
             r == request'[p]
             e == sess[c.sid]
         IN  /\ \A q \in Procs \ {p} : request'[q] = request[q]
             /\ r.op = c.op /\ r.pc = "restamp" /\ r.user = c.user
             /\ r.data = e /\ r.row = c.row /\ r.write = c.write
             /\ r.secret = c.secret /\ r.codes = c.codes /\ r.code = c.code
<1> DEFINE c == request[p]
<1> DEFINE e == sess[c.sid]
<1> DEFINE r == [c EXCEPT !.data = e, !.pc = "restamp"]
<1>1. c \in Requested /\ request \in [Procs -> Requested]
  BY DEF AccountsInv, Types
<1>2. request' = [request EXCEPT ![p] = r]
  BY <1>1
<1>3. request'[p] = r /\ \A q \in Procs \ {p} : request'[q] = request[q]
  BY <1>1, <1>2
<1> HIDE DEF c, e
<1>4. r.op = c.op /\ r.pc = "restamp" /\ r.user = c.user
  BY <1>1 DEF Requested
<1>5. r.data = e /\ r.row = c.row /\ r.write = c.write
  BY <1>1 DEF Requested
<1>6. r.secret = c.secret /\ r.codes = c.codes /\ r.code = c.code
  BY <1>1 DEF Requested
<1> HIDE DEF r
<1> QED BY <1>3, <1>4, <1>5, <1>6 DEF c, e

LEMMA UnreadMoves ==
  ASSUME A!AccountsAssumption, AccountsInv, NEW p \in Procs,
         request' = [request EXCEPT ![p].pc = "commit"]
  PROVE  LET c == request[p]
             r == request'[p]
         IN  /\ \A q \in Procs \ {p} : request'[q] = request[q]
             /\ r.op = c.op /\ r.pc = "commit" /\ r.user = c.user
             /\ r.data = c.data /\ r.row = c.row /\ r.write = c.write
             /\ r.secret = c.secret /\ r.codes = c.codes /\ r.code = c.code
<1> DEFINE c == request[p]
<1> DEFINE r == [c EXCEPT !.pc = "commit"]
<1>1. c \in Requested /\ request \in [Procs -> Requested]
  BY DEF AccountsInv, Types
<1>2. request' = [request EXCEPT ![p] = r]
  BY <1>1
<1>3. request'[p] = r /\ \A q \in Procs \ {p} : request'[q] = request[q]
  BY <1>1, <1>2
<1> HIDE DEF c
<1>4. r.op = c.op /\ r.pc = "commit" /\ r.user = c.user
  BY <1>1 DEF Requested
<1>5. r.data = c.data /\ r.row = c.row /\ r.write = c.write
  BY <1>1 DEF Requested
<1>6. r.secret = c.secret /\ r.codes = c.codes /\ r.code = c.code
  BY <1>1 DEF Requested
<1> HIDE DEF r
<1> QED BY <1>3, <1>4, <1>5, <1>6 DEF c

LEMMA ReissueMoves ==
  ASSUME A!AccountsAssumption, AccountsInv, NEW p \in Procs,
         request' = [request EXCEPT ![p].codes = A!reissue_recovery_codes(p, request[p].user, request[p].stamp),
                                    ![p].pc = "commit"]
  PROVE  LET c == request[p]
             r == request'[p]
             k == [seen |-> codes[c.user], add |-> {c.stamp}]
         IN  /\ \A q \in Procs \ {p} : request'[q] = request[q]
             /\ r.op = c.op /\ r.pc = "commit" /\ r.user = c.user
             /\ r.data = c.data /\ r.row = c.row /\ r.write = c.write
             /\ r.secret = c.secret /\ r.codes = k /\ r.code = c.code
<1> DEFINE c == request[p]
<1> DEFINE k == [seen |-> codes[c.user], add |-> {c.stamp}]
<1> DEFINE r == [c EXCEPT !.codes = k, !.pc = "commit"]
<1>1. c \in Requested /\ request \in [Procs -> Requested]
  BY DEF AccountsInv, Types
<1>2. request' = [request EXCEPT ![p] = r]
  BY <1>1 DEF A!reissue_recovery_codes
<1>3. request'[p] = r /\ \A q \in Procs \ {p} : request'[q] = request[q]
  BY <1>1, <1>2
<1> HIDE DEF c, k
<1>4. r.op = c.op /\ r.pc = "commit" /\ r.user = c.user
  BY <1>1 DEF Requested
<1>5. r.data = c.data /\ r.row = c.row /\ r.write = c.write
  BY <1>1 DEF Requested
<1>6. r.secret = c.secret /\ r.codes = k /\ r.code = c.code
  BY <1>1 DEF Requested
<1> HIDE DEF r
<1> QED BY <1>3, <1>4, <1>5, <1>6 DEF c, k

LEMMA EndMoves ==
  ASSUME A!AccountsAssumption, AccountsInv, NEW p \in Procs, A!End(p)
  PROVE  request'[p] = A!NoReq /\ \A q \in Procs \ {p} : request'[q] = request[q]
  BY DEF AccountsInv, Types, A!End

\* The failures of an account or an address and the requests past its check, together, never
\* pass the ceiling and the number of requests.
Trying(r) == r.op = "login" \/ (r.op = "factor" /\ r.pc = "claim")
PastCheck(u) == {p \in Procs : Trying(request[p]) /\ request[p].user = u}
AllPastCheck == {p \in Procs : Trying(request[p])}
FailuresInv ==
  /\ fails \in [pair : [Users -> Nat], ip : Nat]
  /\ \A u \in Users : fails.pair[u] + Cardinality(PastCheck(u)) <= FREE_ATTEMPTS + Cardinality(Procs)
  /\ fails.ip + Cardinality(AllPastCheck) <= IP_FREE_ATTEMPTS + Cardinality(Procs)

LEMMA SameFinite == \A S : A!IsFiniteSet(S) = IsFiniteSet(S)
  BY DEF A!IsFiniteSet, IsFiniteSet

\* A counter goes up by one that was past its check, or while it is within the ceiling.
LEMMA Room ==
  ASSUME NEW P, IsFiniteSet(P), NEW S \in SUBSET P, NEW T \in SUBSET P,
         NEW n \in Nat, NEW m \in Nat, NEW k \in Nat, n + Cardinality(S) <= k + Cardinality(P),
         \/ m <= n /\ T \subseteq S
         \/ m <= k
         \/ m <= k + 1 /\ T # P
         \/ m <= n + 1 /\ T \subseteq S /\ T # S
  PROVE  m + Cardinality(T) <= k + Cardinality(P)
<1>1. IsFiniteSet(S) /\ IsFiniteSet(T)
  BY FS_Subset
<1>2. Cardinality(P) \in Nat /\ Cardinality(S) \in Nat /\ Cardinality(T) \in Nat
  BY <1>1, FS_CardinalityType
<1>3. Cardinality(T) <= Cardinality(P) /\ (T # P => Cardinality(T) # Cardinality(P))
  BY FS_Subset
<1>4. T \subseteq S => Cardinality(T) <= Cardinality(S) /\ (T # S => Cardinality(T) # Cardinality(S))
  BY <1>1, FS_Subset
<1> QED BY <1>2, <1>3, <1>4

LEMMA CountsKept ==
  ASSUME A!AccountsAssumption, FailuresInv, NEW p \in Procs,
         \A q \in Procs \ {p} : request'[q] = request[q],
         fails' \in [pair : [Users -> Nat], ip : Nat],
         \A u \in Users :
           \/ /\ fails'.pair[u] <= fails.pair[u]
              /\ Trying(request'[p]) /\ request'[p].user = u => Trying(request[p]) /\ request[p].user = u
           \/ fails'.pair[u] <= FREE_ATTEMPTS
           \/ fails'.pair[u] <= FREE_ATTEMPTS + 1 /\ ~Trying(request'[p])
           \/ /\ fails'.pair[u] <= fails.pair[u] + 1
              /\ ~Trying(request'[p]) /\ Trying(request[p]) /\ request[p].user = u,
         \/ fails'.ip <= fails.ip /\ (Trying(request'[p]) => Trying(request[p]))
         \/ fails'.ip <= IP_FREE_ATTEMPTS
         \/ fails'.ip <= IP_FREE_ATTEMPTS + 1 /\ ~Trying(request'[p])
         \/ fails'.ip <= fails.ip + 1 /\ ~Trying(request'[p]) /\ Trying(request[p])
  PROVE  FailuresInv'
<1>1. IsFiniteSet(Procs) /\ FREE_ATTEMPTS \in Nat /\ IP_FREE_ATTEMPTS \in Nat
  BY SameFinite DEF A!AccountsAssumption
<1>2. ASSUME NEW u \in Users
      PROVE  fails'.pair[u] + Cardinality(PastCheck(u)') <= FREE_ATTEMPTS + Cardinality(Procs)
  <2> DEFINE S == PastCheck(u)
  <2> DEFINE T == PastCheck(u)'
  <2>1. S \in SUBSET Procs /\ T \in SUBSET Procs
    BY DEF PastCheck
  <2>2. fails.pair[u] \in Nat /\ fails'.pair[u] \in Nat
        /\ fails.pair[u] + Cardinality(S) <= FREE_ATTEMPTS + Cardinality(Procs)
    BY DEF FailuresInv
  <2>3. \/ fails'.pair[u] <= fails.pair[u] /\ T \subseteq S
        \/ fails'.pair[u] <= FREE_ATTEMPTS
        \/ fails'.pair[u] <= FREE_ATTEMPTS + 1 /\ T # Procs
        \/ fails'.pair[u] <= fails.pair[u] + 1 /\ T \subseteq S /\ T # S
    BY DEF PastCheck
  <2> HIDE DEF S, T
  <2> QED BY <1>1, <2>1, <2>2, <2>3, Room DEF T
<1>3. fails'.ip + Cardinality(AllPastCheck') <= IP_FREE_ATTEMPTS + Cardinality(Procs)
  <2> DEFINE S == AllPastCheck
  <2> DEFINE T == AllPastCheck'
  <2>1. S \in SUBSET Procs /\ T \in SUBSET Procs
    BY DEF AllPastCheck
  <2>2. fails.ip \in Nat /\ fails'.ip \in Nat
        /\ fails.ip + Cardinality(S) <= IP_FREE_ATTEMPTS + Cardinality(Procs)
    BY DEF FailuresInv
  <2>3. \/ fails'.ip <= fails.ip /\ T \subseteq S
        \/ fails'.ip <= IP_FREE_ATTEMPTS
        \/ fails'.ip <= IP_FREE_ATTEMPTS + 1 /\ T # Procs
        \/ fails'.ip <= fails.ip + 1 /\ T \subseteq S /\ T # S
    BY DEF AllPastCheck
  <2> HIDE DEF S, T
  <2> QED BY <1>1, <2>1, <2>2, <2>3, Room DEF T
<1> QED BY <1>2, <1>3 DEF FailuresInv, PastCheck

\* A step that counts nothing and leaves its request past no check.
LEMMA CountsNothing ==
  ASSUME A!AccountsAssumption, FailuresInv, NEW p \in Procs,
         \A q \in Procs \ {p} : request'[q] = request[q], ~Trying(request'[p]), fails' = fails
  PROVE  FailuresInv'
<1>1. fails \in [pair : [Users -> Nat], ip : Nat]
  BY DEF FailuresInv
<1> QED BY <1>1, CountsKept

LEMMA EndsUntried == ~Trying(A!NoReq)
  BY DEF Trying, A!NoReq

\* The step of a request that tried and failed, and of one that tried and succeeded.
LEMMA FailureCounted ==
  ASSUME A!AccountsAssumption, FailuresInv, NEW p \in Procs,
         \A q \in Procs \ {p} : request'[q] = request[q],
         Trying(request[p]) \/ A!assert_allowed(request[p].user), ~Trying(request'[p]),
         request[p].user \in Users, A!record_failure(request[p].user)
  PROVE  FailuresInv'
<1> DEFINE u == request[p].user
<1>1. fails \in [pair : [Users -> Nat], ip : Nat] /\ fails' = [fails EXCEPT !.ip = @ + 1, !.pair[u] = @ + 1]
  BY DEF FailuresInv, A!record_failure
<1>2. (fails.pair[u] <= FREE_ATTEMPTS /\ fails.ip <= IP_FREE_ATTEMPTS) \/ Trying(request[p])
  BY DEF A!assert_allowed
<1>3. FREE_ATTEMPTS \in Nat /\ IP_FREE_ATTEMPTS \in Nat
  BY DEF A!AccountsAssumption
<1>4. u \in Users /\ u = request[p].user
  OBVIOUS
<1> HIDE DEF u
<1>5. /\ fails' \in [pair : [Users -> Nat], ip : Nat] /\ fails'.ip = fails.ip + 1
      /\ fails'.pair[u] = fails.pair[u] + 1
      /\ \A v \in Users \ {u} : fails'.pair[v] = fails.pair[v]
  <2> DEFINE n == fails.ip + 1
  <2> DEFINE g == [fails.pair EXCEPT ![u] = @ + 1]
  <2>1. n \in Nat /\ g \in [Users -> Nat] /\ g[u] = fails.pair[u] + 1
        /\ \A v \in Users \ {u} : g[v] = fails.pair[v]
    BY <1>1, <1>4
  <2>2. fails' = [fails EXCEPT !.ip = n, !.pair = g]
    BY <1>1
  <2>3. n = fails.ip + 1
    OBVIOUS
  <2> HIDE DEF n, g
  <2>4. fails' \in [pair : [Users -> Nat], ip : Nat] /\ fails'.ip = n /\ fails'.pair = g
    BY <1>1, <2>1, <2>2
  <2> QED BY <2>1, <2>3, <2>4
<1>6. fails.ip \in Nat /\ \A v \in Users : fails.pair[v] \in Nat
  BY <1>1
<1>7. ASSUME NEW v \in Users
      PROVE  \/ fails'.pair[v] <= fails.pair[v]
             \/ fails'.pair[v] <= FREE_ATTEMPTS + 1
             \/ fails'.pair[v] <= fails.pair[v] + 1 /\ Trying(request[p]) /\ request[p].user = v
  BY <1>2, <1>3, <1>4, <1>5, <1>6
<1>8. \/ fails'.ip <= IP_FREE_ATTEMPTS + 1
      \/ fails'.ip <= fails.ip + 1 /\ Trying(request[p])
  BY <1>2, <1>3, <1>5, <1>6
<1> QED BY <1>5, <1>7, <1>8, CountsKept

LEMMA SuccessForgives ==
  ASSUME A!AccountsAssumption, FailuresInv, NEW p \in Procs, NEW u \in Users,
         \A q \in Procs \ {p} : request'[q] = request[q], ~Trying(request'[p]), A!clear(u)
  PROVE  FailuresInv'
<1>1. fails \in [pair : [Users -> Nat], ip : Nat] /\ fails' = [fails EXCEPT !.pair[u] = 0]
  BY DEF FailuresInv, A!clear
<1>2. /\ fails' \in [pair : [Users -> Nat], ip : Nat] /\ fails'.ip = fails.ip
      /\ fails'.pair[u] = 0 /\ \A v \in Users \ {u} : fails'.pair[v] = fails.pair[v]
  BY <1>1
<1>3. fails.ip \in Nat /\ \A v \in Users : fails.pair[v] \in Nat
  BY <1>1
<1>4. fails'.ip <= fails.ip /\ \A v \in Users : fails'.pair[v] <= fails.pair[v]
  BY <1>2, <1>3
<1> QED BY <1>2, <1>4, CountsKept

\* One step of each kind.
LEMMA SignCounts ==
  ASSUME A!AccountsAssumption, AccountsInv, FailuresInv, NEW p \in Procs, A!Sign(p)
  PROVE  FailuresInv'
<1> DEFINE c == request[p]
<1>1. Types /\ c \in Requested /\ Placed(c)
  BY CallKnown DEF AccountsInv
<1>2. c.op \in {"login", "factor"} => c.user \in Users
  BY <1>1 DEF Placed
<1>3. ASSUME NEW u \in Users, A!LoginAllowed(p, u) PROVE FailuresInv'
  <2>1. /\ \A q \in Procs \ {p} : request'[q] = request[q]
        /\ request'[p].op = "login" /\ request'[p].user = u
    BY <1>3, LoginAllowedMoves
  <2>2. fails' = fails /\ fails.ip <= IP_FREE_ATTEMPTS /\ fails.pair[u] <= FREE_ATTEMPTS
    BY <1>3 DEF A!LoginAllowed, A!store, A!assert_allowed
  <2>3. fails \in [pair : [Users -> Nat], ip : Nat]
    BY DEF FailuresInv
  <2>4. \A v \in Users : fails'.pair[v] <= fails.pair[v]
    BY <2>2, <2>3
  <2> QED BY <2>1, <2>2, <2>3, <2>4, CountsKept
<1>4. ASSUME NEW good \in BOOLEAN, A!verify_password(p, good) PROVE FailuresInv'
  <2>1. request'[p] = A!NoReq /\ \A q \in Procs \ {p} : request'[q] = request[q]
    BY <1>4, EndMoves DEF A!verify_password
  <2>2. Trying(c) /\ c.user \in Users
    BY <1>2, <1>4 DEF A!verify_password, A!At, Trying
  <2>3. fails' = fails \/ A!record_failure(c.user)
    BY <1>4 DEF A!verify_password
  <2> QED BY <2>1, <2>2, <2>3, EndsUntried, CountsNothing, FailureCounted
<1>5. ASSUME NEW o \in Procs, A!ReadChallenge(p, o) PROVE FailuresInv'
  <2>1. PICK z \in A!Typed(chal[o]) :
          A!Begin(p, [A!NoReq EXCEPT !.op = "factor", !.pc = "taken", !.user = chal[o],
                                     !.key = o, !.code = z])
    BY <1>5 DEF A!ReadChallenge
  <2>2. /\ \A q \in Procs \ {p} : request'[q] = request[q]
        /\ request'[p].op = "factor" /\ request'[p].pc = "taken"
    BY <2>1, ReadChallengeMoves
  <2> QED BY <1>5, <2>2, CountsNothing DEF A!ReadChallenge, A!store, Trying
<1>6. CASE A!DropChallenge(p)
  <2>1. /\ \A q \in Procs \ {p} : request'[q] = request[q]
        /\ request'[p].op = "factor" /\ request'[p].pc = "verify"
    BY <1>6, StepMoves DEF A!DropChallenge, A!At
  <2> QED BY <1>6, <2>1, CountsNothing DEF A!DropChallenge, Trying
<1>7. CASE A!VerifyCode(p)
  <2>1. c.op = "factor" /\ c.user \in Users
    BY <1>2, <1>7 DEF A!VerifyCode, A!At
  <2>2. CASE A!End(p) /\ fails' = fails
    BY <2>2, EndMoves, EndsUntried, CountsNothing
  <2>3. CASE A!End(p) /\ A!require_second_step(c.user) /\ A!record_failure(c.user)
    BY <2>1, <2>3, EndMoves, EndsUntried, FailureCounted DEF A!require_second_step
  <2>4. CASE A!require_second_step(c.user) /\ A!Reads(p, c.user, "claim") /\ fails' = fails
    <3>1. /\ \A q \in Procs \ {p} : request'[q] = request[q]
          /\ request'[p] = A!NoReq \/ request'[p].user = c.user
      BY <1>7, VerifyCodeMoves
    <3>2. fails.ip <= IP_FREE_ATTEMPTS /\ fails.pair[c.user] <= FREE_ATTEMPTS
      BY <2>4 DEF A!require_second_step, A!assert_allowed
    <3>3. fails \in [pair : [Users -> Nat], ip : Nat]
      BY DEF FailuresInv
    <3>4. \A v \in Users : fails'.pair[v] <= fails.pair[v]
      BY <2>4, <3>3
    <3> QED BY <2>4, <3>1, <3>2, <3>3, <3>4, CountsKept, EndsUntried
  <2> QED BY <1>7, <2>2, <2>3, <2>4 DEF A!VerifyCode
<1>8. CASE A!ClaimTotp(p)
  <2>1. c.op = "factor" /\ c.user \in Users /\ Trying(c)
    BY <1>2, <1>8 DEF A!ClaimTotp, A!At, Trying
  <2>2. CASE A!End(p) /\ A!record_failure(c.user)
    BY <2>1, <2>2, EndMoves, EndsUntried, FailureCounted
  <2>3. CASE A!clear(c.user)
    <3>1. /\ \A q \in Procs \ {p} : request'[q] = request[q]
          /\ request'[p] = A!NoReq \/ (request'[p].pc = "admit" /\ request'[p].op = "factor")
      BY <1>8, <2>1, ClaimTotpMoves
    <3> QED BY <2>1, <2>3, <3>1, SuccessForgives, EndsUntried DEF Trying
  <2> QED BY <1>8, <2>2, <2>3 DEF A!ClaimTotp
<1>9. CASE A!ClaimRecovery(p)
  <2>1. c.op = "factor" /\ c.user \in Users /\ Trying(c)
    BY <1>2, <1>9 DEF A!ClaimRecovery, A!At, Trying
  <2>2. CASE A!End(p) /\ A!record_failure(c.user)
    BY <2>1, <2>2, EndMoves, EndsUntried, FailureCounted
  <2>3. CASE A!clear(c.user)
    <3>1. /\ \A q \in Procs \ {p} : request'[q] = request[q]
          /\ request'[p] = A!NoReq \/ (request'[p].pc = "admit" /\ request'[p].op = "factor")
      BY <1>9, <2>1, ClaimRecoveryMoves
    <3> QED BY <2>1, <2>3, <3>1, SuccessForgives, EndsUntried DEF Trying
  <2> QED BY <1>9, <2>2, <2>3 DEF A!ClaimRecovery
<1>10. CASE A!Admit(p)
  <2>1. c.op = "factor"
    BY <1>10 DEF A!Admit, A!At
  <2>2. /\ \A q \in Procs \ {p} : request'[q] = request[q]
        /\ request'[p] = A!NoReq \/ (request'[p].pc = "create" /\ request'[p].op = "factor")
    BY <1>10, <2>1, AdmitMoves
  <2> QED BY <1>10, <2>2, CountsNothing, EndsUntried DEF A!Admit, A!store, Trying
<1>11. ASSUME NEW s \in Sids, A!create(p, s) PROVE FailuresInv'
  <2>1. /\ \A q \in Procs \ {p} : request'[q] = request[q]
        /\ request'[p].op = "factor" /\ request'[p].pc = "commit"
    BY <1>11, StepMoves DEF A!create, A!At
  <2> QED BY <1>11, <2>1, CountsNothing DEF A!create, Trying
<1> QED BY <1>3, <1>4, <1>5, <1>6, <1>7, <1>8, <1>9, <1>10, <1>11 DEF A!Sign

\* Requests that do not sign in.
NotSigning(p) ==
  /\ \A q \in Procs \ {p} : request'[q] = request[q]
  /\ request'[p].op \notin {"login", "factor"}

LEMMA EndIsNotSigning ==
  ASSUME A!AccountsAssumption, AccountsInv, NEW p \in Procs, A!End(p)
  PROVE  NotSigning(p)
  BY EndMoves, BlankCall DEF NotSigning

LEMMA StepIsNotSigning ==
  ASSUME A!AccountsAssumption, AccountsInv, NEW p \in Procs, NEW pc, A!Step(p, pc),
         request[p].op \notin {"login", "factor"}
  PROVE  NotSigning(p)
  BY StepMoves DEF NotSigning

LEMMA UpdateIsNotSigning ==
  ASSUME A!AccountsAssumption, AccountsInv, NEW p \in Procs, NEW u, NEW w, A!Update(p, u, w),
         request[p].op \notin {"login", "factor"}
  PROVE  NotSigning(p)
  BY UpdateMoves DEF NotSigning

LEMMA OnOwnIsNotSigning ==
  ASSUME A!AccountsAssumption, AccountsInv, NEW p \in Procs, A!OnOwn(p)
  PROVE  NotSigning(p) /\ fails' = fails
<1> DEFINE c == request[p]
<1>1. fails' = fails
  BY DEF A!OnOwn, A!ReadSession, A!CheckSession, A!RefreshSession, A!ResolveActor, A!Respond,
         A!SignOut, A!BeginReenrolment, A!OwnRead, A!OwnSave, A!OwnMark, A!ReadKept, A!Restamp,
         A!store
<1>2. c.op \in A!OnSession => c.op \notin {"login", "factor"}
  BY DEF A!OnSession
<1>3. ASSUME NEW s \in Sids, NEW op \in A!OnSession, A!ReadSession(p, s, op) PROVE NotSigning(p)
  BY <1>3, ReadSessionMoves DEF NotSigning, A!OnSession
<1>4. CASE A!CheckSession(p)
  BY <1>2, <1>4, EndIsNotSigning, StepIsNotSigning DEF A!CheckSession, A!Unread, A!At
<1>5. CASE A!RefreshSession(p)
  BY <1>2, <1>5, StepIsNotSigning DEF A!RefreshSession, A!At
<1>6. CASE A!ResolveActor(p)
  BY <1>2, <1>6, ResolveActorMoves, BlankCall DEF A!ResolveActor, A!At, NotSigning
<1>7. CASE A!Respond(p) \/ A!SignOut(p) \/ A!BeginReenrolment(p)
  <2>1. A!End(p)
    BY <1>7 DEF A!Respond, A!SignOut, A!BeginReenrolment
  <2> QED BY <1>1, <2>1, EndIsNotSigning
<1>8. c.op \in {"password", "totp"} => c.op \notin {"login", "factor"}
  OBVIOUS
<1>9. CASE A!OwnRead(p)
  <2>1. c.op \notin {"login", "factor"}
    BY <1>9 DEF A!OwnRead, A!At
  <2>2. /\ \A q \in Procs \ {p} : request'[q] = request[q]
        /\ request'[p] = A!NoReq \/ request'[p].op = c.op
    BY <1>9, OwnReadMoves
  <2> QED BY <1>1, <2>1, <2>2, BlankCall DEF NotSigning
<1>10. CASE A!OwnSave(p)
  BY <1>8, <1>10, UpdateIsNotSigning DEF A!OwnSave, A!save, A!At
<1>11. CASE A!OwnMark(p)
  BY <1>8, <1>11, OwnMarkMoves DEF A!OwnMark, A!At, NotSigning
<1>12. CASE A!ReadKept(p)
  <2>1. c.op \notin {"login", "factor"}
    BY <1>12 DEF A!ReadKept, A!At
  <2>2. \/ request' = [request EXCEPT ![p].data = sess[request[p].sid], ![p].pc = "restamp"]
        \/ request' = [request EXCEPT ![p].pc = "commit"]
    BY <1>12 DEF A!ReadKept
  <2>3. /\ \A q \in Procs \ {p} : request'[q] = request[q]
        /\ request'[p].op = c.op
    BY <2>2, RereadMoves, UnreadMoves
  <2> QED BY <1>1, <2>1, <2>3 DEF NotSigning
<1>13. CASE A!Restamp(p)
  BY <1>8, <1>13, StepIsNotSigning DEF A!Restamp, A!At
<1> QED
  BY <1>1, <1>3, <1>4, <1>5, <1>6, <1>7, <1>9, <1>10, <1>11, <1>12, <1>13 DEF A!OnOwn

LEMMA AdministerIsNotSigning ==
  ASSUME A!AccountsAssumption, AccountsInv, NEW p \in Procs, A!Administer(p)
  PROVE  NotSigning(p) /\ fails' = fails
<1> DEFINE c == request[p]
<1>1. fails' = fails
  BY DEF A!Administer, A!AdminRead, A!Stamp, A!AdminWrite, A!Invalidate, A!DeleteRow, A!store
<1>2. c.op \in A!AdminOps => c.op \notin {"login", "factor"}
  BY DEF A!AdminOps
<1>3. ASSUME NEW a \in Users, NEW u \in Users, NEW op \in A!AdminOps, A!AdminRead(p, a, u, op)
      PROVE  NotSigning(p)
  BY <1>3, AdminReadMoves DEF NotSigning, A!AdminOps
<1>4. CASE A!Stamp(p)
  <2>1. c.op \notin {"login", "factor"}
    BY <1>4 DEF A!Stamp, A!At
  <2>2. (\A q \in Procs \ {p} : request'[q] = request[q]) /\ request'[p].op = c.op
    BY <1>4, StampMoves
  <2> QED BY <1>1, <2>1, <2>2 DEF NotSigning
<1>5. CASE A!AdminWrite(p)
  <2>1. c.op \notin {"login", "factor"}
    BY <1>2, <1>5 DEF A!AdminWrite, A!At
  <2>2. A!Update(p, c.user, A!EditedColumns(c.op, c.row))
    BY <1>5 DEF A!AdminWrite
  <2> QED BY <1>1, <2>1, <2>2, UpdateIsNotSigning
<1>6. CASE A!Invalidate(p)
  BY <1>2, <1>6, StepIsNotSigning DEF A!Invalidate, A!At
<1>7. CASE A!DeleteRow(p)
  <2>1. c.op \notin {"login", "factor"} /\ A!Step(p, "commit")
    BY <1>7 DEF A!DeleteRow, A!At
  <2> QED BY <1>1, <2>1, StepIsNotSigning
<1> QED BY <1>1, <1>3, <1>4, <1>5, <1>6, <1>7 DEF A!Administer

LEMMA RedeemIsNotSigning ==
  ASSUME A!AccountsAssumption, AccountsInv, NEW p \in Procs, A!Redeem(p)
  PROVE  NotSigning(p) /\ fails' = fails
<1> DEFINE c == request[p]
<1>1. fails' = fails
  BY DEF A!Redeem, A!RedeemRead, A!ClaimLink, A!RedeemSave, A!RedeemMark, A!store
<1>2. c.op \in LinkOps => c.op \notin {"login", "factor"}
  BY DEF LinkOps
<1>3. ASSUME NEW t \in Tokens, NEW op \in LinkOps, A!RedeemRead(p, t, op) PROVE NotSigning(p)
  BY <1>3, RedeemReadMoves DEF NotSigning, LinkOps
<1>4. CASE A!ClaimLink(p)
  <2>1. c.op \notin {"login", "factor"}
    BY <1>2, <1>4 DEF A!ClaimLink, A!At, LinkOps
  <2>2. /\ \A q \in Procs \ {p} : request'[q] = request[q]
        /\ request'[p] = A!NoReq \/ request'[p].op = c.op
    BY <1>4, ClaimLinkMoves
  <2> QED BY <1>1, <2>1, <2>2, BlankCall DEF NotSigning
<1>5. CASE A!RedeemSave(p)
  <2>1. c.op \notin {"login", "factor"}
    BY <1>2, <1>5 DEF A!RedeemSave, A!At, LinkOps
  <2>2. A!Update(p, c.user, A!Redeemed(c.op, c.row, c.secret))
    BY <1>5 DEF A!RedeemSave, A!save
  <2> QED BY <1>1, <2>1, <2>2, UpdateIsNotSigning
<1>6. CASE A!RedeemMark(p)
  BY <1>2, <1>6, StepIsNotSigning, ReissueMoves DEF A!RedeemMark, A!At, LinkOps, NotSigning
<1> QED BY <1>1, <1>3, <1>4, <1>5, <1>6 DEF A!Redeem, LinkOps

LEMMA FailuresStep ==
  ASSUME A!AccountsAssumption, AccountsInv, FailuresInv, [A!Next]_(A!vars)
  PROVE  FailuresInv'
<1>1. CASE UNCHANGED <<request, fails>>
  BY <1>1 DEF FailuresInv, PastCheck, AllPastCheck
<1>2. ASSUME NEW p \in Procs, NotSigning(p), fails' = fails PROVE FailuresInv'
  BY <1>2, CountsNothing DEF NotSigning, Trying
<1>3. ASSUME NEW p \in Procs, A!Commit(p) PROVE FailuresInv'
  BY <1>2, <1>3, EndIsNotSigning DEF A!Commit, A!store
<1>4. CASE A!WindowEnds
  <2>1. /\ fails' = [pair |-> [u \in Users |-> 0], ip |-> 0] /\ request' = request
        /\ fails \in [pair : [Users -> Nat], ip : Nat]
    BY <1>4 DEF A!WindowEnds, FailuresInv
  <2>2. /\ fails' \in [pair : [Users -> Nat], ip : Nat] /\ fails'.ip <= fails.ip
        /\ \A u \in Users : fails'.pair[u] <= fails.pair[u]
    BY <2>1
  <2>3. CASE Procs = {}
    <3>1. \A u \in Users : PastCheck(u) = {} /\ PastCheck(u)' = {}
      BY <2>3 DEF PastCheck
    <3>2. AllPastCheck = {} /\ AllPastCheck' = {}
      BY <2>3 DEF AllPastCheck
    <3>3. Cardinality({}) = 0 /\ FREE_ATTEMPTS \in Nat /\ IP_FREE_ATTEMPTS \in Nat
      BY FS_EmptySet DEF A!AccountsAssumption
    <3>4. fails'.ip = 0 /\ \A u \in Users : fails'.pair[u] = 0
      BY <2>1
    <3> QED BY <2>2, <2>3, <3>1, <3>2, <3>3, <3>4 DEF FailuresInv
  <2>4. CASE Procs # {}
    <3>1. PICK p \in Procs : TRUE
      BY <2>4
    <3> QED BY <2>1, <2>2, <3>1, CountsKept
  <2> QED BY <2>3, <2>4
<1>5. CASE A!Invite \/ A!EnterMaintenance \/ A!LeaveMaintenance \/ A!Tick
  BY <1>1, <1>5 DEF A!Invite, A!BootstrapClaim, A!create_account, A!Reissue, A!BeginEnrolment,
     A!EnterMaintenance, A!LeaveMaintenance, A!Tick, A!store
<1> QED
  BY <1>1, <1>2, <1>3, <1>4, <1>5, SignCounts, OnOwnIsNotSigning, AdministerIsNotSigning,
     RedeemIsNotSigning DEF A!Next, A!vars

\* Guesses in flight together overrun the ceilings of an account and of an address by their
\* number and no more, though each was let past the check before the others were counted.
THEOREM FailuresStayBounded ==
  ASSUME A!AccountsAssumption
  PROVE  A!Spec => []A!FailuresBounded
<1>1. A!Init => FailuresInv
  <2> SUFFICES ASSUME A!Init PROVE FailuresInv
    OBVIOUS
  <2>1. \A p \in Procs : ~Trying(request[p])
    BY EndsUntried DEF A!Init
  <2>2. AllPastCheck = {} /\ \A u \in Users : PastCheck(u) = {}
    BY <2>1 DEF AllPastCheck, PastCheck
  <2>3. Cardinality({}) = 0 /\ Cardinality(Procs) \in Nat
    BY FS_EmptySet, FS_CardinalityType, SameFinite DEF A!AccountsAssumption
  <2>4. FREE_ATTEMPTS \in Nat /\ IP_FREE_ATTEMPTS \in Nat
    BY DEF A!AccountsAssumption
  <2>5. fails = [pair |-> [u \in Users |-> 0], ip |-> 0]
    BY DEF A!Init
  <2>6. /\ fails \in [pair : [Users -> Nat], ip : Nat] /\ fails.ip = 0
        /\ \A u \in Users : fails.pair[u] = 0
    BY <2>5
  <2> QED BY <2>2, <2>3, <2>4, <2>6 DEF FailuresInv
<1>2. AccountsInv /\ FailuresInv /\ [A!Next]_(A!vars) => FailuresInv'
  BY FailuresStep
<1>3. FailuresInv => A!FailuresBounded
  <2> SUFFICES ASSUME FailuresInv PROVE A!FailuresBounded
    OBVIOUS
  <2>1. IsFiniteSet(Procs) /\ FREE_ATTEMPTS \in Nat /\ IP_FREE_ATTEMPTS \in Nat
    BY SameFinite DEF A!AccountsAssumption
  <2>2. Cardinality(AllPastCheck) \in Nat /\ \A u \in Users : Cardinality(PastCheck(u)) \in Nat
    <3>1. AllPastCheck \in SUBSET Procs /\ \A u \in Users : PastCheck(u) \in SUBSET Procs
      BY DEF AllPastCheck, PastCheck
    <3> QED BY <2>1, <3>1, FS_Subset, FS_CardinalityType
  <2>3. Cardinality(Procs) \in Nat
    BY <2>1, FS_CardinalityType
  <2>4. fails.ip \in Nat /\ \A u \in Users : fails.pair[u] \in Nat
    BY DEF FailuresInv
  <2> QED BY <2>1, <2>2, <2>3, <2>4, SameCount DEF FailuresInv, A!FailuresBounded
<1> QED BY <1>1, <1>2, <1>3, AccountsHeld, PTL DEF A!Spec

\* Enrolment.  An account that has both factors, or had them when it went, never has one of
\* them again: what is saved whole has both.
Enrolled(r) == r.pw # 0 /\ r.secret # 0
Whole(r) == (r.pw = 0) = (r.secret = 0)
Known(u) == UserRows[u] # None \/ \E t \in Tokens : inv[t] # None /\ inv[t].user = u
Settled(u) == Known(u) /\ (row[u] = None \/ Enrolled(row[u]))
EnrolOwned(r) ==
  /\ r.op \in A!OnSession =>
       /\ Settled(r.data.user)
       /\ r.pc \in {"accepted", "own"} => r.user = r.data.user
  /\ r.op \in OwnOps /\ r.pc = "own" => Enrolled(r.row)
  /\ r.op = "factor" /\ r.pc \in {"claim", "admit", "create"} => Settled(r.user)
  /\ r.op = "reset" => Enrolled(r.row)
  /\ r.op = "onboard" => r.secret # 0
  /\ r.write \in A!Rows => Enrolled(r.write) /\ Known(r.user)
EnrolInv ==
  /\ \A u \in Users : row[u] # None => Whole(row[u]) /\ (Enrolled(row[u]) => Known(u))
  /\ \A s \in Sids : sess[s] # None => Settled(sess[s].user)
  /\ \A t \in Tokens : inv[t] # None /\ inv[t].kind = "reset" => Settled(inv[t].user)
  /\ \A p \in Procs : EnrolOwned(request[p])

\* A step that writes no row and no link.
LEMMA EnrolQuiet ==
  ASSUME EnrolInv, NEW p \in Procs, \A q \in Procs \ {p} : request'[q] = request[q],
         UNCHANGED <<row, inv>>, EnrolOwned(request'[p]),
         \A s \in Sids : sess'[s] # None => sess'[s] = sess[s] \/ Settled(sess'[s].user)
  PROVE  EnrolInv'
<1>1. \A u : (Known(u)' <=> Known(u)) /\ (Settled(u)' <=> Settled(u))
  BY DEF Settled, Known
<1>2. ASSUME NEW q \in Procs PROVE EnrolOwned(request[q])'
  <2>1. EnrolOwned(request'[q])
    BY DEF EnrolInv
  <2> QED BY <2>1 DEF EnrolOwned, Settled, Known
<1>3. \A u \in Users : row'[u] # None => Whole(row'[u]) /\ (Enrolled(row'[u]) => Known(u)')
  BY <1>1 DEF EnrolInv
<1>4. ASSUME NEW s \in Sids, sess'[s] # None PROVE Settled(sess[s].user)'
  <2>1. Settled(sess'[s].user)
    BY <1>4 DEF EnrolInv
  <2> QED BY <2>1 DEF Settled, Known
<1>5. ASSUME NEW t \in Tokens, inv'[t] # None, inv'[t].kind = "reset" PROVE Settled(inv[t].user)'
  <2>1. Settled(inv[t].user)
    BY <1>5 DEF EnrolInv
  <2> QED BY <2>1 DEF Settled, Known
<1> QED BY <1>2, <1>3, <1>4, <1>5 DEF EnrolInv

LEMMA EndsEnrolled == ASSUME A!AccountsAssumption PROVE EnrolOwned(A!NoReq)
  BY DEF A!AccountsAssumption, A!Writes, EnrolOwned, A!NoReq, A!OnSession, OwnOps

\* A request that ends, or takes a step that asks nothing new of it.
LEMMA EnrolEnds ==
  ASSUME A!AccountsAssumption, AccountsInv, EnrolInv, NEW p \in Procs,
         A!End(p), UNCHANGED <<row, inv>>,
         \A s \in Sids : sess'[s] # None => sess'[s] = sess[s] \/ Settled(sess'[s].user)
  PROVE  EnrolInv'
  BY EndMoves, EndsEnrolled, EnrolQuiet

LEMMA EnrolSteps ==
  ASSUME A!AccountsAssumption, AccountsInv, EnrolInv, NEW p \in Procs, NEW pc, A!Step(p, pc),
         pc \notin {"accepted", "own", "claim", "admit", "create"},
         UNCHANGED <<row, inv>>,
         \A s \in Sids : sess'[s] # None => sess'[s] = sess[s] \/ Settled(sess'[s].user)
  PROVE  EnrolInv'
<1>1. EnrolOwned(request[p])
  BY DEF EnrolInv
<1>2. EnrolOwned(request'[p])
  BY <1>1, StepMoves DEF EnrolOwned
<1> QED BY <1>2, StepMoves, EnrolQuiet

LEMMA WriteSettled ==
  ASSUME NEW s, NEW d \in Sessions, NEW at, Settled(d.user), A!_write(s, d, at),
         AccountsInv
  PROVE  \A q \in Sids : sess'[q] # None => sess'[q] = sess[q] \/ Settled(sess'[q].user)
<1> DEFINE ttl == A!Min({IdleTtl, d.expires - at})
<1> DEFINE n == now + ttl
<1> DEFINE e == [d EXCEPT !.until = n]
<1>1. sess' = [sess EXCEPT ![s] = IF ttl <= 0 THEN None ELSE e] /\ sess \in [Sids -> Sessions \cup {None}]
  BY DEF A!_write, AccountsInv, Types
<1> HIDE DEF n, ttl
<1>2. e.user = d.user
  BY DEF Sessions
<1> HIDE DEF e
<1> QED BY <1>1, <1>2

\* Signing in: the row behind a code that was let past the check has both factors.
LEMMA EnrolSign ==
  ASSUME A!AccountsAssumption, AccountsInv, EnrolInv, NEW p \in Procs, A!Sign(p)
  PROVE  EnrolInv'
<1> DEFINE c == request[p]
<1>1. Types /\ c \in Requested /\ Placed(c) /\ EnrolOwned(c)
  BY CallKnown DEF AccountsInv, EnrolInv
<1>2. None \notin A!Rows /\ \A v : [counter |-> v] \notin A!Rows
  <2>1. \A v : "role" \notin DOMAIN [counter |-> v]
    OBVIOUS
  <2> QED BY <2>1 DEF A!Rows, A!Writes, A!AccountsAssumption
<1>3. ASSUME NEW u \in Users, A!LoginAllowed(p, u) PROVE EnrolInv'
  <2>1. UNCHANGED <<row, inv, sess>>
    BY <1>3 DEF A!LoginAllowed, A!tables, A!store
  <2>2. /\ \A q \in Procs \ {p} : request'[q] = request[q]
        /\ request'[p].op = "login" /\ request'[p].write = None
    BY <1>3, LoginAllowedMoves DEF A!NoReq
  <2>3. EnrolOwned(request'[p])
    BY <1>2, <2>2 DEF EnrolOwned, A!OnSession, OwnOps
  <2> QED BY <2>1, <2>2, <2>3, EnrolQuiet
<1>4. ASSUME NEW good \in BOOLEAN, A!verify_password(p, good) PROVE EnrolInv'
  BY <1>4, EnrolEnds DEF A!verify_password, A!tables
<1>5. ASSUME NEW o \in Procs, A!ReadChallenge(p, o) PROVE EnrolInv'
  <2>1. PICK z \in A!Typed(chal[o]) :
          A!Begin(p, [A!NoReq EXCEPT !.op = "factor", !.pc = "taken", !.user = chal[o],
                                     !.key = o, !.code = z])
    BY <1>5 DEF A!ReadChallenge
  <2>2. /\ \A q \in Procs \ {p} : request'[q] = request[q]
        /\ request'[p].op = "factor" /\ request'[p].pc = "taken" /\ request'[p].write = None
    BY <2>1, ReadChallengeMoves DEF A!NoReq
  <2>3. EnrolOwned(request'[p])
    BY <1>2, <2>2 DEF EnrolOwned, A!OnSession, OwnOps
  <2>4. UNCHANGED <<row, inv, sess>>
    BY <1>5 DEF A!ReadChallenge, A!tables, A!store
  <2> QED BY <2>2, <2>3, <2>4, EnrolQuiet
<1>6. CASE A!DropChallenge(p)
  <2>1. A!Step(p, "verify") /\ UNCHANGED <<row, inv, sess>>
    BY <1>6 DEF A!DropChallenge, A!tables
  <2> QED BY <2>1, EnrolSteps
<1>7. CASE A!VerifyCode(p)
  <2>1. UNCHANGED <<row, inv, sess>> /\ c.op = "factor" /\ c.user \in Users
    BY <1>1, <1>7 DEF A!VerifyCode, A!tables, A!At, Placed
  <2>2. CASE A!End(p)
    BY <2>1, <2>2, EnrolEnds
  <2>3. CASE A!require_second_step(c.user)
    <3>1. Settled(c.user)
      BY <2>1, <2>3 DEF A!require_second_step, A!Usable, A!can_use_public_entrance, EnrolInv,
         Enrolled, Settled
    <3>2. /\ \A q \in Procs \ {p} : request'[q] = request[q]
          /\ request'[p] = A!NoReq
             \/ (/\ request'[p].op = c.op /\ request'[p].pc = "claim" /\ request'[p].user = c.user
                 /\ request'[p].write = c.write)
      BY <1>7, VerifyCodeMoves
    <3>3. ASSUME request'[p] # A!NoReq PROVE EnrolOwned(request'[p])
      BY <1>1, <2>1, <3>1, <3>2, <3>3 DEF EnrolOwned, A!OnSession, OwnOps
    <3> QED BY <2>1, <3>2, <3>3, EndsEnrolled, EnrolQuiet
  <2> QED BY <1>7, <2>2, <2>3 DEF A!VerifyCode
<1>8. CASE A!ClaimTotp(p) \/ A!ClaimRecovery(p) \/ A!Admit(p)
  <2>1. c.op = "factor" /\ c.pc \in {"claim", "admit"} /\ UNCHANGED <<row, inv, sess>>
    BY <1>8 DEF A!ClaimTotp, A!ClaimRecovery, A!Admit, A!At, A!Abort, A!tables, A!store
  <2>2. /\ \A q \in Procs \ {p} : request'[q] = request[q]
        /\ request'[p] = A!NoReq
           \/ (/\ request'[p].op = c.op /\ request'[p].user = c.user
               /\ request'[p].write \in {c.write, [counter |-> c.code.val]})
    <3>1. CASE A!ClaimTotp(p)
      BY <3>1, ClaimTotpMoves
    <3>2. CASE A!ClaimRecovery(p)
      BY <3>2, ClaimRecoveryMoves
    <3>3. CASE A!Admit(p)
      BY <3>3, AdmitMoves
    <3> QED BY <1>8, <3>1, <3>2, <3>3
  <2>3. Settled(c.user)
    BY <1>1, <2>1 DEF EnrolOwned
  <2>4. ASSUME request'[p] # A!NoReq PROVE EnrolOwned(request'[p])
    BY <1>1, <1>2, <2>1, <2>2, <2>3, <2>4 DEF EnrolOwned, A!OnSession, OwnOps
  <2> QED BY <2>1, <2>2, <2>4, EndsEnrolled, EnrolQuiet
<1>9. ASSUME NEW s \in Sids, A!create(p, s) PROVE EnrolInv'
  <2>1. Settled(c.user) /\ A!Step(p, "commit") /\ UNCHANGED <<row, inv>>
    BY <1>1, <1>9 DEF A!create, A!At, EnrolOwned, A!tables
  <2>2. \A q \in Sids : sess'[q] # None => sess'[q] = sess[q] \/ sess'[q].user = c.user
    <3> DEFINE e == [user |-> c.user, created |-> now + 1, expires |-> now + 1 + AbsoluteTtl,
                     epoch |-> A!CreateEpoch(p), until |-> now + 1 + IdleTtl]
    <3>1. sess' = [sess EXCEPT ![s] = e] /\ e.user = c.user
      BY <1>9 DEF A!create
    <3>2. sess \in [Sids -> Sessions \cup {None}]
      BY <1>1 DEF Types
    <3> HIDE DEF e, c
    <3> QED BY <3>1, <3>2
  <2> QED BY <2>1, <2>2, EnrolSteps
<1> QED BY <1>3, <1>4, <1>5, <1>6, <1>7, <1>8, <1>9 DEF A!Sign


\* A request on a session is of an account that has both factors, and saves both.
LEMMA EnrolOnOwn ==
  ASSUME A!AccountsAssumption, AccountsInv, EnrolInv, NEW p \in Procs, A!OnOwn(p)
  PROVE  EnrolInv'
<1> DEFINE c == request[p]
<1>1. Types /\ c \in Requested /\ Placed(c) /\ EnrolOwned(c)
  BY CallKnown DEF AccountsInv, EnrolInv
<1>2. UNCHANGED <<row, inv>>
  BY DEF A!OnOwn, A!ReadSession, A!CheckSession, A!RefreshSession, A!ResolveActor, A!Respond,
         A!SignOut, A!BeginReenrolment, A!OwnRead, A!OwnSave, A!OwnMark, A!ReadKept, A!Restamp,
         A!tables
<1>3. OwnOps \subseteq A!OnSession /\ OwnOps = {"password", "totp"}
      /\ \A o \in A!OnSession : o \notin {"factor", "reset", "onboard"}
  BY DEF OwnOps, A!OnSession
<1>4. sess \in [Sids -> Sessions \cup {None}] /\ row \in [Users -> A!Rows \cup {None}]
  BY <1>1 DEF Types
<1>5. ASSUME NEW s, sess' = [sess EXCEPT ![s] = None] \/ sess' = sess
      PROVE  \A q \in Sids : sess'[q] # None => sess'[q] = sess[q] \/ Settled(sess'[q].user)
  BY <1>4, <1>5
<1>6. c.op \in A!OnSession =>
        /\ c.data \in Sessions /\ c.sid \in Sids /\ Settled(c.data.user) /\ c.data.user \in Users
        /\ c.pc \notin {"check", "refresh", "resolve", "destroy"} =>
             c.user \in Users /\ c.row \in A!Rows
        /\ c.pc \in {"accepted", "own"} => c.user = c.data.user
        /\ c.op \in OwnOps /\ c.pc = "own" => Enrolled(c.row)
  BY <1>1 DEF Placed, EnrolOwned, Sessions
<1>7. ASSUME NEW s \in Sids, NEW op \in A!OnSession, A!ReadSession(p, s, op) PROVE EnrolInv'
  <2>1. sess[s] # None /\ sess' = sess
    BY <1>7 DEF A!ReadSession, A!Live, A!store
  <2>2. /\ \A q \in Procs \ {p} : request'[q] = request[q]
        /\ request'[p].op = op /\ request'[p].pc = "check" /\ request'[p].data = sess[s]
        /\ request'[p].write = None
    BY <1>7, ReadSessionMoves DEF A!NoReq
  <2>3. Settled(sess[s].user)
    BY <2>1 DEF EnrolInv
  <2>4. EnrolOwned(request'[p])
    BY <1>3, <2>2, <2>3 DEF EnrolOwned, A!Writes, A!AccountsAssumption
  <2> QED BY <1>2, <2>1, <2>2, <2>4, EnrolQuiet
<1>8. CASE A!CheckSession(p)
  <2>1. /\ sess' = [sess EXCEPT ![c.sid] = None] \/ sess' = sess
        /\ A!End(p) \/ A!Step(p, "destroy") \/ A!Step(p, "refresh")
    BY <1>8 DEF A!CheckSession, A!Unread
  <2> QED BY <1>2, <1>5, <2>1, EnrolEnds, EnrolSteps
<1>9. CASE A!RefreshSession(p)
  <2>1. /\ c.op \in A!OnSession /\ A!_write(c.sid, c.data, c.at)
        /\ A!Step(p, "destroy") \/ A!Step(p, "resolve")
    BY <1>9 DEF A!RefreshSession, A!At
  <2>2. \A q \in Sids : sess'[q] # None => sess'[q] = sess[q] \/ Settled(sess'[q].user)
    BY <1>6, <2>1, WriteSettled
  <2> QED BY <1>2, <2>1, <2>2, EnrolSteps
<1>10. CASE A!ResolveActor(p)
  <2>1. /\ c.op \in A!OnSession /\ c.pc = "resolve"
        /\ sess' = [sess EXCEPT ![c.sid] = None] \/ sess' = sess
    BY <1>10 DEF A!ResolveActor, A!At
  <2>2. /\ \A q \in Procs \ {p} : request'[q] = request[q]
        /\ request'[p] = A!NoReq
           \/ (/\ request'[p].op = c.op /\ request'[p].pc = "accepted"
               /\ request'[p].user = c.data.user /\ request'[p].data = c.data
               /\ request'[p].write = c.write)
    BY <1>10, ResolveActorMoves
  <2>3. c.write \notin A!Rows \/ (Enrolled(c.write) /\ Known(c.data.user))
    BY <1>1, <1>6, <2>1 DEF EnrolOwned, Settled
  <2>4. ASSUME request'[p] # A!NoReq PROVE EnrolOwned(request'[p])
    BY <1>3, <1>6, <2>1, <2>2, <2>3, <2>4 DEF EnrolOwned
  <2> QED BY <1>2, <1>5, <2>1, <2>2, <2>4, EndsEnrolled, EnrolQuiet
<1>11. CASE A!Respond(p) \/ A!SignOut(p) \/ A!BeginReenrolment(p)
  <2>1. /\ A!End(p)
        /\ sess' = [sess EXCEPT ![c.sid] = None] \/ sess' = sess
    BY <1>11 DEF A!Respond, A!SignOut, A!BeginReenrolment, A!store
  <2> QED BY <1>2, <1>5, <2>1, EnrolEnds
<1>12. CASE A!OwnRead(p)
  <2>1. c.op \in OwnOps /\ c.pc = "accepted" /\ sess' = sess
    BY <1>3, <1>12 DEF A!OwnRead, A!At, A!store
  <2>2. CASE A!End(p)
    BY <1>2, <2>1, <2>2, EnrolEnds
  <2>3. CASE A!Usable(row[c.user])
    <3>1. Enrolled(row[c.user])
      BY <1>3, <1>6, <2>1, <2>3 DEF A!Usable, Settled
    <3>2. /\ \A q \in Procs \ {p} : request'[q] = request[q]
          /\ request'[p] = A!NoReq
             \/ (/\ request'[p].op = c.op /\ request'[p].pc = "own" /\ request'[p].user = c.user
                 /\ request'[p].data = c.data /\ request'[p].row = row[c.user]
                 /\ request'[p].write = c.write)
      BY <1>12, OwnReadMoves
    <3>3. ASSUME request'[p] # A!NoReq PROVE EnrolOwned(request'[p])
      BY <1>1, <1>3, <1>6, <2>1, <3>1, <3>2, <3>3 DEF EnrolOwned
    <3> QED BY <1>2, <2>1, <3>2, <3>3, EndsEnrolled, EnrolQuiet
  <2> QED BY <1>12, <2>2, <2>3 DEF A!OwnRead
<1>13. CASE A!OwnSave(p)
  <2> DEFINE d == c.row
             w == IF c.op = "password" THEN [d EXCEPT !.pw = @ + 1]
                  ELSE [d EXCEPT !.secret = @ + 1, !.counter = now]
  <2>1. c.op \in OwnOps /\ c.pc = "own" /\ sess' = sess /\ A!Update(p, c.user, w)
    BY <1>3, <1>13 DEF A!OwnSave, A!At, A!save
  <2>2. c.user = c.data.user /\ Known(c.user) /\ Enrolled(d) /\ d \in A!Rows
        /\ Settled(c.data.user)
    BY <1>3, <1>6, <2>1 DEF Settled
  <2>3. Enrolled(w)
    <3> HIDE DEF d, c
    <3>1. [d EXCEPT !.pw = @ + 1].pw # 0 /\ [d EXCEPT !.pw = @ + 1].secret # 0
      BY <2>2 DEF A!Rows, Enrolled
    <3>2. [d EXCEPT !.secret = @ + 1, !.counter = now].pw # 0
          /\ [d EXCEPT !.secret = @ + 1, !.counter = now].secret # 0
      BY <2>2 DEF A!Rows, Enrolled
    <3> QED BY <3>1, <3>2 DEF Enrolled
  <2> HIDE DEF w
  <2>4. /\ \A q \in Procs \ {p} : request'[q] = request[q]
        /\ request'[p].op = c.op /\ request'[p].pc = "mark" /\ request'[p].user = c.user
        /\ request'[p].data = c.data /\ request'[p].write = w
    BY <2>1, UpdateMoves
  <2>5. EnrolOwned(request'[p])
    BY <1>3, <2>1, <2>2, <2>3, <2>4 DEF EnrolOwned
  <2> QED BY <1>2, <2>1, <2>4, <2>5, EnrolQuiet
<1>14. CASE A!OwnMark(p)
  <2>1. c.op \in OwnOps /\ c.pc = "mark" /\ sess' = sess
    BY <1>3, <1>14 DEF A!OwnMark, A!At
  <2>2. /\ \A q \in Procs \ {p} : request'[q] = request[q]
        /\ request'[p].op = c.op /\ request'[p].pc = "kept" /\ request'[p].user = c.user
        /\ request'[p].data = c.data /\ request'[p].write = c.write
    BY <1>14, OwnMarkMoves
  <2>3. EnrolOwned(request'[p])
    BY <1>1, <1>3, <1>6, <2>1, <2>2 DEF EnrolOwned
  <2> QED BY <1>2, <2>1, <2>2, <2>3, EnrolQuiet
<1>15. CASE A!ReadKept(p)
  <2> DEFINE e == sess[c.sid]
  <2>1. c.op \in OwnOps /\ c.pc = "kept" /\ sess' = sess
    BY <1>3, <1>15 DEF A!ReadKept, A!At, A!store
  <2>2. \/ A!Live(e) /\ request' = [request EXCEPT ![p].data = e, ![p].pc = "restamp"]
        \/ request' = [request EXCEPT ![p].pc = "commit"]
    BY <1>15 DEF A!ReadKept
  <2>3. A!Live(e) => Settled(e.user)
    BY <1>3, <1>6, <2>1 DEF A!Live, EnrolInv
  <2>4. /\ \A q \in Procs \ {p} : request'[q] = request[q]
        /\ request'[p].op = c.op /\ request'[p].pc \in {"restamp", "commit"}
        /\ request'[p].user = c.user /\ request'[p].write = c.write
        /\ request'[p].data = c.data \/ (request'[p].data = e /\ A!Live(e))
    BY <2>2, RereadMoves, UnreadMoves
  <2> HIDE DEF e
  <2>5. EnrolOwned(request'[p])
    BY <1>1, <1>3, <1>6, <2>1, <2>3, <2>4 DEF EnrolOwned
  <2> QED BY <1>2, <2>1, <2>4, <2>5, EnrolQuiet
<1>16. CASE A!Restamp(p)
  <2> DEFINE d == A!Restamped(p)
  <2>1. /\ c.op \in OwnOps /\ A!_write(c.sid, d, c.stamp) /\ A!Step(p, "commit")
    BY <1>3, <1>16 DEF A!Restamp, A!At
  <2>2. d \in Sessions /\ d.user = c.data.user
    <3>1. c.data \in Sessions /\ c.stamp \in Instants
      BY <1>1, <1>3, <1>6, <2>1 DEF Requested
    <3> HIDE DEF c
    <3>2. [c.data EXCEPT !.created = c.stamp] \in Sessions
          /\ [c.data EXCEPT !.created = c.stamp].user = c.data.user
      BY <3>1 DEF Sessions
    <3> QED BY <3>2 DEF A!Restamped, c
  <2>3. \A q \in Sids : sess'[q] # None => sess'[q] = sess[q] \/ Settled(sess'[q].user)
    BY <1>3, <1>6, <2>1, <2>2, WriteSettled
  <2> QED BY <1>2, <2>1, <2>3, EnrolSteps
<1> QED
  BY <1>7, <1>8, <1>9, <1>10, <1>11, <1>12, <1>13, <1>14, <1>15, <1>16 DEF A!OnOwn


\* Administration writes a role or a flag, never a factor.
LEMMA EnrolAdminister ==
  ASSUME A!AccountsAssumption, AccountsInv, EnrolInv, NEW p \in Procs, A!Administer(p)
  PROVE  EnrolInv'
<1> DEFINE c == request[p]
<1>1. Types /\ EnrolOwned(c)
  BY DEF AccountsInv, EnrolInv
<1>2. UNCHANGED <<row, inv, sess>>
  BY DEF A!Administer, A!AdminRead, A!Stamp, A!AdminWrite, A!Invalidate, A!DeleteRow, A!tables,
         A!store
<1>3. \A o \in A!AdminOps : o \notin A!OnSession /\ o \notin {"factor", "reset", "onboard"}
      /\ o \notin OwnOps
  BY DEF OwnOps, A!OnSession, A!AdminOps
<1>4. None \notin A!Rows /\ \A o, r : A!EditedColumns(o, r) \notin A!Rows
  <2>1. \A v : "pw" \notin DOMAIN [off |-> v] /\ "pw" \notin DOMAIN [role |-> v]
    OBVIOUS
  <2> QED BY <2>1 DEF A!Rows, A!Writes, A!AccountsAssumption, A!EditedColumns
<1>5. ASSUME NEW a \in Users, NEW u \in Users, NEW op \in A!AdminOps, A!AdminRead(p, a, u, op)
      PROVE  EnrolInv'
  <2>1. /\ \A q \in Procs \ {p} : request'[q] = request[q]
        /\ request'[p].op = op /\ request'[p].write = None
    BY <1>5, AdminReadMoves DEF A!NoReq
  <2>2. EnrolOwned(request'[p])
    BY <1>3, <1>4, <2>1 DEF EnrolOwned
  <2> QED BY <1>2, <2>1, <2>2, EnrolQuiet
<1>6. CASE A!Stamp(p)
  <2>1. c.op \in A!AdminOps
    BY <1>6 DEF A!Stamp, A!At, A!AdminOps
  <2>2. /\ \A q \in Procs \ {p} : request'[q] = request[q]
        /\ request'[p].op = c.op /\ request'[p].user = c.user /\ request'[p].write = c.write
    BY <1>6, StampMoves
  <2>3. EnrolOwned(request'[p])
    BY <1>1, <1>3, <2>1, <2>2 DEF EnrolOwned
  <2> QED BY <1>2, <2>2, <2>3, EnrolQuiet
<1>7. CASE A!AdminWrite(p)
  <2>1. c.op \in A!AdminOps /\ A!Update(p, c.user, A!EditedColumns(c.op, c.row))
    BY <1>7 DEF A!AdminWrite, A!At, A!AdminOps
  <2>2. /\ \A q \in Procs \ {p} : request'[q] = request[q]
        /\ request'[p].op = c.op /\ request'[p].write = A!EditedColumns(c.op, c.row)
    BY <2>1, UpdateMoves
  <2>3. EnrolOwned(request'[p])
    BY <1>3, <1>4, <2>1, <2>2 DEF EnrolOwned
  <2> QED BY <1>2, <2>2, <2>3, EnrolQuiet
<1>8. CASE A!Invalidate(p) \/ A!DeleteRow(p)
  <2>1. A!Step(p, "drop") \/ A!Step(p, "commit")
    BY <1>8 DEF A!Invalidate, A!DeleteRow
  <2> QED BY <1>2, <2>1, EnrolSteps
<1> QED BY <1>5, <1>6, <1>7, <1>8 DEF A!Administer

\* A link that replaces a password is of an account that has both factors, and one that makes
\* them saves the password with the proven secret.
LEMMA EnrolRedeem ==
  ASSUME A!AccountsAssumption, AccountsInv, EnrolInv, NEW p \in Procs, A!Redeem(p)
  PROVE  EnrolInv'
<1> DEFINE c == request[p]
<1>1. Types /\ c \in Requested /\ Placed(c) /\ EnrolOwned(c) /\ LinkOwned(p, c)
  BY CallKnown DEF AccountsInv, EnrolInv
<1>2. UNCHANGED <<row, inv, sess>>
  BY DEF A!Redeem, A!RedeemRead, A!ClaimLink, A!RedeemSave, A!RedeemMark, A!tables, A!store
<1>3. /\ LinkOps = {"onboard", "reset"}
      /\ \A o \in LinkOps : o \notin A!OnSession /\ o # "factor" /\ o \notin OwnOps
  BY DEF OwnOps, A!OnSession, LinkOps
<1>4. ASSUME NEW t \in Tokens, NEW op \in LinkOps, A!RedeemRead(p, t, op) PROVE EnrolInv'
  <2> DEFINE u == inv[t].user
  <2>1. /\ \A q \in Procs \ {p} : request'[q] = request[q]
        /\ request'[p].op = op /\ request'[p].row = row[u] /\ request'[p].secret = pending[u]
        /\ request'[p].write = None
    BY <1>4, RedeemReadMoves DEF A!NoReq
  <2>2. inv[t] # None /\ inv[t].kind = op /\ row[u] # None
        /\ (op = "onboard" => pending[u] # 0)
    BY <1>4 DEF A!RedeemRead, A!_require_invitation, A!Usable
  <2>3. op = "reset" => Enrolled(row[u])
    BY <2>2 DEF EnrolInv, Settled
  <2>4. EnrolOwned(request'[p])
    BY <1>3, <2>1, <2>2, <2>3 DEF EnrolOwned, A!Writes, A!AccountsAssumption
  <2> QED BY <1>2, <2>1, <2>4, EnrolQuiet
<1>5. CASE A!ClaimLink(p)
  <2>1. c.op \in LinkOps
    BY <1>3, <1>5 DEF A!ClaimLink, A!At
  <2>2. /\ \A q \in Procs \ {p} : request'[q] = request[q]
        /\ request'[p] = A!NoReq
           \/ (/\ request'[p].op = c.op /\ request'[p].user = c.user /\ request'[p].row = c.row
               /\ request'[p].write = c.write /\ request'[p].secret = c.secret)
    BY <1>5, ClaimLinkMoves
  <2>3. ASSUME request'[p] # A!NoReq PROVE EnrolOwned(request'[p])
    BY <1>1, <1>3, <2>1, <2>2, <2>3 DEF EnrolOwned
  <2> QED BY <1>2, <2>2, <2>3, EndsEnrolled, EnrolQuiet
<1>6. CASE A!RedeemSave(p)
  <2> DEFINE d == c.row
             z == c.secret
             w == A!Redeemed(c.op, d, z)
  <2>1. c.op \in LinkOps /\ A!Update(p, c.user, w)
    BY <1>3, <1>6 DEF A!RedeemSave, A!At, A!save
  <2>2. /\ d \in A!Rows /\ c.token \in Tokens /\ inv[c.token] # None
        /\ inv[c.token].user = c.user
    BY <1>1, <2>1 DEF Placed, LinkOwned
  <2>3. Known(c.user)
    BY <2>2 DEF Known
  <2>4. (c.op = "reset" => Enrolled(d)) /\ (c.op = "onboard" => z # 0)
    BY <1>1 DEF EnrolOwned
  <2>5. Enrolled(w)
    <3> HIDE DEF d, z, c
    <3>1. CASE c.op = "reset"
      <4>1. w = [d EXCEPT !.pw = @ + 1]
        BY <3>1 DEF A!Redeemed
      <4> QED BY <2>2, <2>4, <3>1, <4>1 DEF A!Rows, Enrolled
    <3>2. CASE c.op = "onboard"
      <4>1. w = [d EXCEPT !.pw = 1, !.secret = z, !.counter = now]
        BY <3>2 DEF A!Redeemed
      <4>2. w.pw = 1 /\ w.secret = z
        BY <2>2, <4>1 DEF A!Rows
      <4> QED BY <2>4, <3>2, <4>2 DEF Enrolled
    <3> QED BY <1>3, <2>1, <3>1, <3>2
  <2> HIDE DEF w
  <2>6. /\ \A q \in Procs \ {p} : request'[q] = request[q]
        /\ request'[p].op = c.op /\ request'[p].user = c.user /\ request'[p].row = c.row
        /\ request'[p].secret = c.secret /\ request'[p].write = w
    BY <2>1, UpdateMoves
  <2>7. EnrolOwned(request'[p])
    BY <1>3, <2>1, <2>3, <2>4, <2>5, <2>6 DEF EnrolOwned
  <2> QED BY <1>2, <2>6, <2>7, EnrolQuiet
<1>7. CASE A!RedeemMark(p)
  <2>1. c.op \in LinkOps
    BY <1>3, <1>7 DEF A!RedeemMark, A!At
  <2>2. CASE A!Step(p, "commit")
    BY <1>2, <2>2, EnrolSteps
  <2>3. CASE request' = [request EXCEPT ![p].codes = A!reissue_recovery_codes(p, c.user, c.stamp),
                                        ![p].pc = "commit"]
    <3>1. /\ \A q \in Procs \ {p} : request'[q] = request[q]
          /\ request'[p].op = c.op /\ request'[p].user = c.user /\ request'[p].row = c.row
          /\ request'[p].write = c.write /\ request'[p].secret = c.secret
      BY <2>3, ReissueMoves
    <3>2. EnrolOwned(request'[p])
      BY <1>1, <1>3, <2>1, <3>1 DEF EnrolOwned
    <3> QED BY <1>2, <3>1, <3>2, EnrolQuiet
  <2> QED BY <1>7, <2>2, <2>3 DEF A!RedeemMark
<1> QED BY <1>4, <1>5, <1>6, <1>7 DEF A!Redeem, LinkOps


\* What a commit leaves of a row: nothing, or both factors where both were there or are saved.
LEMMA EnrolCommitted ==
  ASSUME A!AccountsAssumption, AccountsInv, EnrolInv, NEW p \in Procs, request[p].user \in Users
  PROVE  LET u == request[p].user
             v == A!Committed(p, u)
         IN  v # None => /\ Whole(v)
                         /\ Enrolled(v) => Known(u)
                         /\ row[u] = None \/ Enrolled(row[u]) => Enrolled(v)
<1> DEFINE c == request[p]
           u == c.user
           w == c.write
           r == row[u]
           v == A!Committed(p, u)
<1>1. r \in A!Rows \cup {None} /\ w \in A!Writes \cup {None} /\ EnrolOwned(c)
  BY DEF AccountsInv, Types, Requested, EnrolInv
<1>2. r # None => Whole(r) /\ (Enrolled(r) => Known(u))
  BY DEF EnrolInv
<1>3. w \in A!Rows => Enrolled(w) /\ Known(u)
  BY <1>1 DEF EnrolOwned
<1>4. v = IF c.op = "delete" THEN None
          ELSE IF w = None THEN r
          ELSE IF r # None THEN A!Merged(w, r)
          ELSE IF DOMAIN w = A!Columns THEN w ELSE None
  BY DEF A!Committed
<1> HIDE DEF v, r, w, u, c
<1>5. SUFFICES ASSUME v # None
               PROVE  Whole(v) /\ (Enrolled(v) => Known(u)) /\ (r = None \/ Enrolled(r) => Enrolled(v))
  BY DEF v, r, w, u, c
<1>6. CASE w = None
  BY <1>2, <1>4, <1>5, <1>6
<1>7. CASE w # None /\ r = None
  <2>1. v = w /\ w \in A!Rows
    BY <1>1, <1>4, <1>5, <1>7, WholeWrite
  <2> QED BY <1>3, <2>1 DEF Whole, Enrolled
<1>8. CASE w # None /\ r # None
  <2>1. v = A!Merged(w, r) /\ w \in A!Writes /\ r \in A!Rows
    BY <1>1, <1>4, <1>5, <1>8
  <2>2. CASE w \in A!Rows
    <3>1. v.pw = w.pw /\ v.secret = w.secret
      BY <2>1, <2>2 DEF A!Merged, A!Rows
    <3> QED BY <1>3, <2>2, <3>1 DEF Whole, Enrolled
  <2>3. CASE w \notin A!Rows
    <3>1. "pw" \notin DOMAIN w /\ "secret" \notin DOMAIN w
      <4>1. CASE w \in [off : BOOLEAN]
        BY <4>1
      <4>2. CASE w \in [role : {"admin", "user"}]
        BY <4>2
      <4>3. CASE w \in [counter : Int]
        BY <4>3
      <4> QED BY <2>1, <2>3, <4>1, <4>2, <4>3 DEF A!Writes
    <3>2. v.pw = r.pw /\ v.secret = r.secret
      BY <2>1, <3>1 DEF A!Merged
    <3> QED BY <1>2, <1>8, <3>2 DEF Whole, Enrolled
  <2> QED BY <2>2, <2>3
<1> QED BY <1>6, <1>7, <1>8

\* A commit keeps every link's account and kind, and takes no factor away.
LEMMA EnrolCommit ==
  ASSUME A!AccountsAssumption, AccountsInv, EnrolInv, NEW p \in Procs, A!Commit(p)
  PROVE  EnrolInv'
<1> DEFINE c == request[p]
           u == c.user
           v == A!Committed(p, u)
<1>1. Types /\ c \in Requested /\ Placed(c) /\ c.pc = "commit"
  BY CallKnown DEF AccountsInv, A!Commit
<1>2. u \in Users
  BY <1>1 DEF Placed, Requested, Operations, LinkOps, A!OnSession, A!AdminOps
<1>3. row' = [row EXCEPT ![u] = v] /\ A!End(p) /\ sess' = sess
  BY DEF A!Commit, A!store
<1>4. row \in [Users -> A!Rows \cup {None}]
  BY <1>1 DEF Types
<1>5. v # None => Whole(v) /\ (Enrolled(v) => Known(u)) /\ (row[u] = None \/ Enrolled(row[u]) => Enrolled(v))
  BY <1>2, EnrolCommitted
<1>6. \A t \in Tokens : /\ inv'[t] = None <=> inv[t] = None
                        /\ inv[t] # None => inv'[t].user = inv[t].user /\ inv'[t].kind = inv[t].kind
  <2> DEFINE gone(t) == [inv[t] EXCEPT !.state = "gone"]
             used(t) == [inv[t] EXCEPT !.state = "used"]
  <2>1. inv' = [t \in Tokens |->
                  IF inv[t] = None \/ inv[t].user # u THEN inv[t]
                  ELSE IF c.op = "delete" THEN gone(t)
                  ELSE IF t = c.token THEN used(t) ELSE inv[t]]
    BY DEF A!Commit
  <2>2. ASSUME NEW t \in Tokens, inv[t] # None
        PROVE  /\ gone(t).user = inv[t].user /\ gone(t).kind = inv[t].kind /\ gone(t) # None
               /\ used(t).user = inv[t].user /\ used(t).kind = inv[t].kind /\ used(t) # None
    <3>1. inv[t] \in A!Invitations /\ None \notin A!Invitations
      BY <1>1, <2>2 DEF Types, A!AccountsAssumption
    <3>2. gone(t) \in A!Invitations /\ gone(t).user = inv[t].user /\ gone(t).kind = inv[t].kind
      BY <3>1 DEF A!Invitations
    <3>3. used(t) \in A!Invitations /\ used(t).user = inv[t].user /\ used(t).kind = inv[t].kind
      BY <3>1 DEF A!Invitations
    <3> QED BY <3>1, <3>2, <3>3
  <2> HIDE DEF gone, used, c, u
  <2> QED BY <2>1, <2>2
<1> HIDE DEF v, u, c
<1>7. \A x : Known(x)' <=> Known(x)
  BY <1>6 DEF Known
<1>8. row' \in [Users -> A!Rows \cup {None, v}] /\ row'[u] = v
      /\ \A x \in Users : x # u => row'[x] = row[x]
  BY <1>2, <1>3, <1>4
<1>9. ASSUME NEW x \in Users, Settled(x) PROVE Settled(x)'
  BY <1>5, <1>7, <1>8, <1>9 DEF Settled
<1>10. \A x \in Users : row'[x] # None => Whole(row'[x]) /\ (Enrolled(row'[x]) => Known(x)')
  BY <1>5, <1>7, <1>8 DEF EnrolInv
<1>11. ASSUME NEW s \in Sids, sess'[s] # None PROVE Settled(sess[s].user)'
  <2>1. Settled(sess[s].user) /\ sess[s].user \in Users
    BY <1>1, <1>3, <1>11 DEF EnrolInv, Types, Sessions
  <2> QED BY <1>3, <1>9, <2>1
<1>12. ASSUME NEW t \in Tokens, inv'[t] # None, inv'[t].kind = "reset" PROVE Settled(inv[t].user)'
  <2>1. Settled(inv[t].user) /\ inv[t].user \in Users /\ inv'[t].user = inv[t].user
    BY <1>1, <1>6, <1>12 DEF EnrolInv, Types, A!Invitations
  <2> QED BY <1>9, <2>1
<1>13. ASSUME NEW q \in Procs PROVE EnrolOwned(request[q])'
  <2>1. CASE q = p
    <3>1. request'[q] = A!NoReq
      BY <1>3, <2>1, EndMoves
    <3> QED BY <3>1 DEF EnrolOwned, A!NoReq, A!OnSession, OwnOps, A!Writes,
                   A!AccountsAssumption
  <2>2. CASE q # p
    <3> DEFINE r == request[q]
    <3>1. request'[q] = r /\ r \in Requested /\ Placed(r) /\ EnrolOwned(r)
      BY <1>3, <2>2, EndMoves, CallKnown DEF EnrolInv
    <3>2. /\ r.op \in A!OnSession => r.data.user \in Users
          /\ r.op = "factor" => r.user \in Users
      BY <3>1 DEF Placed, Sessions
    <3> HIDE DEF r
    <3> QED BY <1>7, <1>9, <3>1, <3>2 DEF EnrolOwned
  <2> QED BY <2>1, <2>2
<1> QED BY <1>10, <1>11, <1>12, <1>13 DEF EnrolInv


\* A step that adds rows and links and moves no request.
LEMMA EnrolGrows ==
  ASSUME A!AccountsAssumption, AccountsInv, EnrolInv, UNCHANGED <<request, sess>>,
         \A x : Known(x) => Known(x)', \A x \in Users : Settled(x) => Settled(x)',
         \A x \in Users : row'[x] # None => Whole(row'[x]) /\ (Enrolled(row'[x]) => Known(x)'),
         \A t \in Tokens : inv'[t] # None /\ inv'[t].kind = "reset" => Settled(inv[t].user)'
  PROVE  EnrolInv'
<1>1. Types
  BY DEF AccountsInv
<1>2. ASSUME NEW s \in Sids, sess'[s] # None PROVE Settled(sess[s].user)'
  <2>1. Settled(sess[s].user) /\ sess[s].user \in Users
    BY <1>1, <1>2 DEF EnrolInv, Types, Sessions
  <2> QED BY <2>1
<1>3. ASSUME NEW q \in Procs PROVE EnrolOwned(request[q])'
  <2> DEFINE r == request[q]
  <2>1. request'[q] = r /\ r \in Requested /\ Placed(r) /\ EnrolOwned(r)
    BY CallKnown DEF EnrolInv
  <2>2. /\ r.op \in A!OnSession => r.data.user \in Users
        /\ r.op = "factor" => r.user \in Users
    BY <2>1 DEF Placed, Sessions
  <2> HIDE DEF r
  <2> QED BY <2>1, <2>2 DEF EnrolOwned
<1> QED BY <1>2, <1>3 DEF EnrolInv

\* An account is made under an id no row, link or session was ever of, and has neither factor.
LEMMA EnrolInvite ==
  ASSUME A!AccountsAssumption, AccountsInv, EnrolInv, A!Invite
  PROVE  EnrolInv'
<1>1. Types /\ row \in [Users -> A!Rows \cup {None}]
  BY DEF AccountsInv, Types
<1>2. \A role \in {"admin", "user"} : A!Fresh(role).pw = 0 /\ A!Fresh(role).secret = 0
  BY DEF A!Fresh
<1>3. ASSUME NEW u \in Users, A!BootstrapClaim(u) PROVE EnrolInv'
  <2>1. /\ row' = [row EXCEPT ![u] = A!Fresh("admin")] /\ UNCHANGED <<inv, request, sess>>
        /\ ~Known(u)
    BY <1>3 DEF A!BootstrapClaim, A!NewId, Known, A!store
  <2>2. row'[u] = A!Fresh("admin") /\ \A x \in Users : x # u => row'[x] = row[x]
    BY <1>1, <2>1
  <2>3. \A x : Known(x)' <=> Known(x)
    BY <2>1 DEF Known
  <2>4. \A x \in Users : Settled(x) => Settled(x)'
    BY <2>1, <2>2, <2>3 DEF Settled
  <2>5. \A x \in Users : row'[x] # None => Whole(row'[x]) /\ (Enrolled(row'[x]) => Known(x)')
    BY <1>2, <2>2, <2>3 DEF EnrolInv, Whole, Enrolled
  <2>6. \A t \in Tokens : inv'[t] # None /\ inv'[t].kind = "reset" => Settled(inv[t].user)'
    <3>1. \A t \in Tokens : inv[t] # None => inv[t].user \in Users
      BY <1>1 DEF Types, A!Invitations
    <3> QED BY <2>1, <2>4, <3>1 DEF EnrolInv
  <2> QED BY <2>1, <2>3, <2>4, <2>5, <2>6, EnrolGrows
<1>4. ASSUME NEW u \in Users, NEW t \in Tokens, NEW kind \in {"onboard", "reset"}, inv[t] = None,
             A!Issued(u, t, kind), UNCHANGED <<request, sess>>,
             \/ ~Known(u) /\ row' = [row EXCEPT ![u] = A!Fresh("user")] /\ kind = "onboard"
             \/ row' = row /\ (kind = "reset" => row[u] # None /\ Enrolled(row[u]))
      PROVE  EnrolInv'
  <2>1. /\ \A x \in Tokens : inv[x] # None => inv'[x] # None /\ inv'[x].user = inv[x].user
                                               /\ inv'[x].kind = inv[x].kind
        /\ inv'[t] # None /\ inv'[t].user = u /\ inv'[t].kind = kind
        /\ \A x \in Tokens : x # t /\ inv[x] = None => inv'[x] = None
    BY <1>4, LinkIssued
  <2>2. (\A x : Known(x) => Known(x)') /\ Known(u)'
    BY <2>1 DEF Known
  <2>3. \A x \in Users : x # u \/ Known(u) => row'[x] = row[x]
    BY <1>1, <1>4
  <2>4. row'[u] = row[u] \/ row'[u] = A!Fresh("user")
    BY <1>1, <1>4
  <2>5. \A x \in Users : Settled(x) => Settled(x)'
    BY <2>2, <2>3 DEF Settled
  <2>6. \A x \in Users : row'[x] # None => Whole(row'[x]) /\ (Enrolled(row'[x]) => Known(x)')
    BY <1>2, <2>2, <2>3, <2>4 DEF EnrolInv, Whole, Enrolled
  <2>7. ASSUME NEW y \in Tokens, inv'[y] # None, inv'[y].kind = "reset"
        PROVE  Settled(inv[y].user)'
    <3>1. CASE y = t
      <4>1. row' = row /\ row[u] # None /\ Enrolled(row[u]) /\ inv'[y].user = u
        BY <1>4, <2>1, <2>7, <3>1
      <4> QED BY <2>2, <4>1 DEF Settled
    <3>2. CASE y # t
      <4>1. inv[y] # None /\ inv[y].kind = "reset" /\ inv'[y].user = inv[y].user
        BY <2>1, <2>7, <3>2
      <4>2. Settled(inv[y].user) /\ inv[y].user \in Users
        BY <1>1, <4>1 DEF EnrolInv, Types, A!Invitations
      <4> QED BY <2>5, <4>1, <4>2
    <3> QED BY <3>1, <3>2
  <2> QED BY <1>4, <2>2, <2>5, <2>6, <2>7, EnrolGrows
<1>5. ASSUME NEW a \in Users, NEW u \in Users, NEW t \in Tokens, A!create_account(a, u, t)
      PROVE  EnrolInv'
  BY <1>4, <1>5 DEF A!create_account, A!NewId, Known, A!store
<1>6. ASSUME NEW a \in Users, NEW u \in Users, NEW t \in Tokens, A!Reissue(a, u, t)
      PROVE  EnrolInv'
  <2>1. PICK kind \in {"onboard", "reset"} :
          /\ A!Issued(u, t, kind)
          /\ kind = "reset" => row[u] # None /\ Enrolled(row[u])
    BY <1>6 DEF A!Reissue, A!can_use_public_entrance, Enrolled
  <2>2. inv[t] = None /\ row' = row /\ UNCHANGED <<request, sess>>
    BY <1>6 DEF A!Reissue, A!store
  <2> QED BY <1>4, <2>1, <2>2
<1>7. ASSUME NEW t \in Tokens, A!BeginEnrolment(t) PROVE EnrolInv'
  <2>1. UNCHANGED <<row, inv, request, sess>>
    BY <1>7 DEF A!BeginEnrolment, A!tables
  <2> QED BY <2>1 DEF EnrolInv, EnrolOwned, Settled, Known
<1> QED BY <1>3, <1>5, <1>6, <1>7 DEF A!Invite

LEMMA EnrolStep ==
  ASSUME A!AccountsAssumption, AccountsInv, EnrolInv, [A!Next]_(A!vars)
  PROVE  EnrolInv'
<1>1. CASE UNCHANGED <<row, inv, request, sess>>
  BY <1>1 DEF EnrolInv, EnrolOwned, Settled, Known
<1>2. CASE A!EnterMaintenance \/ A!LeaveMaintenance \/ A!WindowEnds \/ A!Tick
  BY <1>1, <1>2 DEF A!EnterMaintenance, A!LeaveMaintenance, A!WindowEnds, A!Tick, A!tables, A!store
<1> QED
  BY <1>1, <1>2, EnrolSign, EnrolOnOwn, EnrolAdminister, EnrolRedeem, EnrolCommit, EnrolInvite
     DEF A!Next, A!vars

LEMMA EnrolmentHeld ==
  ASSUME A!AccountsAssumption
  PROVE  A!Spec => []EnrolInv
<1>1. A!Init => EnrolInv
  <2> SUFFICES ASSUME A!Init PROVE EnrolInv
    OBVIOUS
  <2>1. row = UserRows /\ inv = [t \in Tokens |-> None] /\ request = [p \in Procs |-> A!NoReq]
    BY DEF A!Init
  <2>2. \A u \in Users : row[u] # None => Whole(row[u]) /\ Known(u)
    BY <2>1 DEF A!AccountsAssumption, Whole, Known
  <2>3. ASSUME NEW s \in Sids, sess[s] # None PROVE Settled(sess[s].user)
    <3>1. s \in DOMAIN SignedIn /\ sess[s].user = SignedIn[s]
      BY <2>3 DEF A!Init
    <3> QED BY <2>1, <3>1
            DEF A!AccountsAssumption, Settled, Known, Enrolled, A!can_use_public_entrance
  <2> QED BY <2>1, <2>2, <2>3, EndsEnrolled DEF EnrolInv
<1>2. AccountsInv /\ EnrolInv /\ [A!Next]_(A!vars) => EnrolInv'
  BY EnrolStep
<1> QED BY <1>1, <1>2, AccountsHeld, PTL DEF A!Spec

\* An account never has a password without a second factor, or a second factor without a
\* password: not when a password change, a new second factor and a link are saved whole over
\* one another, and not when a row that was deleted meanwhile is saved again.
THEOREM EnrolledStaysWhole ==
  ASSUME A!AccountsAssumption
  PROVE  A!Spec => []A!EnrolledWhole
<1>1. EnrolInv => A!EnrolledWhole
  BY DEF EnrolInv, Whole, A!EnrolledWhole
<1> QED BY <1>1, EnrolmentHeld, PTL

\* What a request writes.  One that does not save the row whole has written the columns of its
\* own operation, or nothing.
WroteRow(r) ==
  \/ r.write = None \/ r.op \in A!WholeRowOps
  \/ r.op \in A!AdminOps /\ r.write = A!EditedColumns(r.op, r.row)
  \/ r.op = "factor" /\ r.write = [counter |-> r.code.val]
EditsInv == \A p \in Procs : WroteRow(request[p])

\* A step of one request, one that keeps what the request is and what it has written, and one
\* that saves the row whole.
LEMMA EditsMove ==
  ASSUME EditsInv, NEW p \in Procs, \A q \in Procs \ {p} : request'[q] = request[q],
         WroteRow(request'[p])
  PROVE  EditsInv'
<1> SUFFICES ASSUME NEW q \in Procs PROVE WroteRow(request'[q])
  BY DEF EditsInv, WroteRow
<1> QED BY DEF EditsInv

LEMMA EditsGoOn ==
  ASSUME EditsInv, NEW p \in Procs, \A q \in Procs \ {p} : request'[q] = request[q],
         LET c == request[p]
             r == request'[p]
         IN  \/ r.write = None
             \/ r.op = c.op /\ r.op \in A!WholeRowOps
             \/ r.op = c.op /\ r.op \in A!AdminOps /\ r.row = c.row /\ r.write = c.write
             \/ r.op = c.op /\ r.op = "factor" /\ r.code = c.code /\ r.write = c.write
             \/ r.op = c.op /\ r.row = c.row /\ r.code = c.code /\ r.write = c.write
  PROVE  EditsInv'
<1>1. WroteRow(request[p])
  BY DEF EditsInv
<1>2. \A o \in A!AdminOps : o # "factor" /\ o \notin A!WholeRowOps
  BY DEF A!AdminOps, A!WholeRowOps
<1>3. "factor" \notin A!WholeRowOps
  BY DEF A!WholeRowOps
<1>4. WroteRow(request'[p])
  BY <1>1, <1>2, <1>3 DEF WroteRow
<1> QED BY <1>4, EditsMove

LEMMA EditsEnd ==
  ASSUME A!AccountsAssumption, AccountsInv, EditsInv, NEW p \in Procs, A!End(p)
  PROVE  EditsInv'
<1>1. A!NoReq.write = None
  BY DEF A!NoReq
<1> QED BY <1>1, EndMoves, EditsGoOn

LEMMA EditsStepOn ==
  ASSUME A!AccountsAssumption, AccountsInv, EditsInv, NEW p \in Procs, NEW pc, A!Step(p, pc)
  PROVE  EditsInv'
  BY StepMoves, EditsGoOn

LEMMA EditsSign ==
  ASSUME A!AccountsAssumption, AccountsInv, EditsInv, NEW p \in Procs, A!Sign(p)
  PROVE  EditsInv'
<1> DEFINE c == request[p]
<1>0. A!NoReq.write = None
  BY DEF A!NoReq
<1>1. ASSUME NEW v \in Users, A!LoginAllowed(p, v) PROVE EditsInv'
  BY <1>0, <1>1, LoginAllowedMoves, EditsGoOn
<1>2. ASSUME NEW good \in BOOLEAN, A!verify_password(p, good) PROVE EditsInv'
  BY <1>2, EditsEnd DEF A!verify_password
<1>3. ASSUME NEW o \in Procs, A!ReadChallenge(p, o) PROVE EditsInv'
  <2>1. PICK z \in A!Typed(chal[o]) :
          A!Begin(p, [A!NoReq EXCEPT !.op = "factor", !.pc = "taken", !.user = chal[o],
                                     !.key = o, !.code = z])
    BY <1>3 DEF A!ReadChallenge
  <2> QED BY <1>0, <2>1, ReadChallengeMoves, EditsGoOn
<1>4. CASE A!DropChallenge(p)
  BY <1>4, EditsStepOn DEF A!DropChallenge
<1>5. CASE A!VerifyCode(p)
  <2>1. c.op = "factor"
    BY <1>5 DEF A!VerifyCode, A!At
  <2> QED BY <1>0, <1>5, <2>1, VerifyCodeMoves, EditsGoOn
<1>6. CASE A!ClaimTotp(p)
  <2>1. c.op = "factor"
    BY <1>6 DEF A!ClaimTotp, A!At
  <2>2. WroteRow(request'[p])
    BY <1>0, <1>6, <2>1, ClaimTotpMoves DEF WroteRow
  <2> QED BY <1>6, <2>2, ClaimTotpMoves, EditsMove
<1>7. CASE A!ClaimRecovery(p)
  <2>1. c.op = "factor"
    BY <1>7 DEF A!ClaimRecovery, A!At
  <2> QED BY <1>0, <1>7, <2>1, ClaimRecoveryMoves, EditsGoOn
<1>8. CASE A!Admit(p)
  BY <1>0, <1>8, AdmitMoves, EditsGoOn
<1>9. ASSUME NEW s \in Sids, A!create(p, s) PROVE EditsInv'
  BY <1>9, EditsStepOn DEF A!create
<1> QED BY <1>1, <1>2, <1>3, <1>4, <1>5, <1>6, <1>7, <1>8, <1>9 DEF A!Sign

LEMMA EditsOnOwn ==
  ASSUME A!AccountsAssumption, AccountsInv, EditsInv, NEW p \in Procs, A!OnOwn(p)
  PROVE  EditsInv'
<1> DEFINE c == request[p]
<1>0. A!NoReq.write = None
  BY DEF A!NoReq
<1>1. ASSUME NEW s \in Sids, NEW op \in A!OnSession, A!ReadSession(p, s, op) PROVE EditsInv'
  BY <1>0, <1>1, ReadSessionMoves, EditsGoOn
<1>2. CASE A!CheckSession(p) \/ A!RefreshSession(p) \/ A!Respond(p) \/ A!SignOut(p)
           \/ A!BeginReenrolment(p) \/ A!Restamp(p)
  <2>1. A!End(p) \/ \E pc \in Steps : A!Step(p, pc)
    BY <1>2 DEF A!CheckSession, A!RefreshSession, A!Respond, A!SignOut, A!Unread,
                A!BeginReenrolment, A!Restamp, Steps
  <2> QED BY <2>1, EditsEnd, EditsStepOn
<1>3. CASE A!ResolveActor(p)
  <2>1. c.op \in A!OnSession
    BY <1>3 DEF A!ResolveActor, A!At
  <2>2. c.op \notin A!AdminOps /\ c.op # "factor"
    BY <2>1 DEF A!OnSession, A!AdminOps
  <2>3. WroteRow(c)
    BY DEF EditsInv
  <2>4. WroteRow(request'[p])
    BY <1>0, <1>3, <2>2, <2>3, ResolveActorMoves DEF WroteRow
  <2> QED BY <1>3, <2>4, ResolveActorMoves, EditsMove
<1>4. CASE A!OwnRead(p) \/ A!OwnSave(p) \/ A!OwnMark(p) \/ A!ReadKept(p)
  <2>1. c.op \in A!WholeRowOps
    BY <1>4 DEF A!OwnRead, A!OwnSave, A!OwnMark, A!ReadKept, A!At, A!WholeRowOps
  <2>2. /\ \A q \in Procs \ {p} : request'[q] = request[q]
        /\ request'[p] = A!NoReq \/ request'[p].op = c.op
    <3>1. CASE A!OwnRead(p)
      BY <3>1, OwnReadMoves
    <3>2. CASE A!OwnSave(p)
      <4>1. \E w : A!Update(p, c.user, w)
        BY <3>2 DEF A!OwnSave, A!save
      <4> QED BY <4>1, UpdateMoves
    <3>3. CASE A!OwnMark(p)
      BY <3>3, OwnMarkMoves
    <3>4. CASE A!ReadKept(p)
      BY <3>4, RereadMoves, UnreadMoves DEF A!ReadKept
    <3> QED BY <1>4, <3>1, <3>2, <3>3, <3>4
  <2> QED BY <1>0, <2>1, <2>2, EditsGoOn
<1> QED BY <1>1, <1>2, <1>3, <1>4 DEF A!OnOwn

LEMMA EditsAdminister ==
  ASSUME A!AccountsAssumption, AccountsInv, EditsInv, NEW p \in Procs, A!Administer(p)
  PROVE  EditsInv'
<1> DEFINE c == request[p]
<1>0. A!NoReq.write = None
  BY DEF A!NoReq
<1>1. ASSUME NEW a \in Users, NEW u \in Users, NEW op \in A!AdminOps, A!AdminRead(p, a, u, op)
      PROVE  EditsInv'
  BY <1>0, <1>1, AdminReadMoves, EditsGoOn
<1>2. CASE A!Stamp(p)
  BY <1>2, StampMoves, EditsGoOn
<1>3. CASE A!AdminWrite(p)
  <2>1. c.op \in A!AdminOps /\ A!Update(p, c.user, A!EditedColumns(c.op, c.row))
    BY <1>3 DEF A!AdminWrite, A!At, A!AdminOps
  <2>2. WroteRow(request'[p])
    BY <2>1, UpdateMoves DEF WroteRow
  <2> QED BY <2>1, <2>2, UpdateMoves, EditsMove
<1>4. CASE A!Invalidate(p) \/ A!DeleteRow(p)
  <2>1. A!Step(p, "drop") \/ A!Step(p, "commit")
    BY <1>4 DEF A!Invalidate, A!DeleteRow
  <2> QED BY <2>1, EditsStepOn
<1> QED BY <1>1, <1>2, <1>3, <1>4 DEF A!Administer

LEMMA EditsRedeem ==
  ASSUME A!AccountsAssumption, AccountsInv, EditsInv, NEW p \in Procs, A!Redeem(p)
  PROVE  EditsInv'
<1> DEFINE c == request[p]
<1>0. A!NoReq.write = None /\ LinkOps \subseteq A!WholeRowOps
  BY DEF A!NoReq, LinkOps, A!WholeRowOps
<1>1. ASSUME NEW t \in Tokens, NEW op \in LinkOps, A!RedeemRead(p, t, op) PROVE EditsInv'
  BY <1>0, <1>1, RedeemReadMoves, EditsGoOn
<1>2. CASE A!ClaimLink(p) \/ A!RedeemSave(p) \/ A!RedeemMark(p)
  <2>1. c.op \in A!WholeRowOps
    BY <1>2 DEF A!ClaimLink, A!RedeemSave, A!RedeemMark, A!At, A!WholeRowOps
  <2>2. /\ \A q \in Procs \ {p} : request'[q] = request[q]
        /\ request'[p] = A!NoReq \/ request'[p].op = c.op
    <3>1. CASE A!ClaimLink(p)
      BY <3>1, ClaimLinkMoves
    <3>2. CASE A!RedeemSave(p)
      <4>1. \E w : A!Update(p, c.user, w)
        BY <3>2 DEF A!RedeemSave, A!save
      <4> QED BY <4>1, UpdateMoves
    <3>3. CASE A!RedeemMark(p)
      BY <3>3, StepMoves, ReissueMoves DEF A!RedeemMark
    <3> QED BY <1>2, <3>1, <3>2, <3>3
  <2> QED BY <1>0, <2>1, <2>2, EditsGoOn
<1> QED BY <1>1, <1>2 DEF A!Redeem, LinkOps

LEMMA EditsHeld ==
  ASSUME A!AccountsAssumption
  PROVE  A!Spec => [](AccountsInv /\ EditsInv)
<1>1. A!Init => EditsInv
  BY DEF A!Init, A!NoReq, EditsInv, WroteRow
<1>2. AccountsInv /\ EditsInv /\ [A!Next]_(A!vars) => EditsInv'
  <2> SUFFICES ASSUME AccountsInv, EditsInv, [A!Next]_(A!vars) PROVE EditsInv'
    OBVIOUS
  <2>1. CASE UNCHANGED request
    BY <2>1 DEF EditsInv, WroteRow
  <2>2. CASE A!EnterMaintenance \/ A!LeaveMaintenance \/ A!WindowEnds \/ A!Tick \/ A!Invite
    BY <2>1, <2>2 DEF A!EnterMaintenance, A!LeaveMaintenance, A!WindowEnds, A!Tick, A!Invite,
       A!BootstrapClaim, A!create_account, A!Reissue, A!BeginEnrolment
  <2>3. ASSUME NEW p \in Procs, A!Commit(p) PROVE EditsInv'
    BY <2>3, EditsEnd DEF A!Commit
  <2> QED BY <2>1, <2>2, <2>3, EditsSign, EditsOnOwn, EditsAdminister, EditsRedeem
          DEF A!Next, A!vars
<1> QED BY <1>1, <1>2, AccountsHeld, PTL DEF A!Spec

\* A column is not a whole row, and a commit of columns restores no row.
LEMMA NarrowCommitted ==
  ASSUME A!AccountsAssumption, AccountsInv, EditsInv, NEW p \in Procs,
         request[p].user \in Users, request[p].op \notin A!WholeRowOps
  PROVE  LET c == request[p]
             r == row[c.user]
             v == A!Committed(p, c.user)
         IN  v # None =>
               /\ r # None
               /\ r.off /\ ~v.off => c.op = "enable"
               /\ v.role # r.role => c.op \in {"promote", "demote"}
<1> DEFINE c == request[p]
           w == c.write
           r == row[c.user]
           v == A!Committed(p, c.user)
           z == c.code.val
<1>1. \/ w = None
      \/ c.op \in A!AdminOps /\ w = A!EditedColumns(c.op, c.row)
      \/ c.op = "factor" /\ w = [counter |-> z]
  BY DEF EditsInv, WroteRow
<1>2. v = IF c.op = "delete" THEN None
          ELSE IF w = None THEN r
          ELSE IF r # None THEN A!Merged(w, r)
          ELSE IF DOMAIN w = A!Columns THEN w ELSE None
  BY DEF A!Committed
<1>3. SUFFICES ASSUME v # None
               PROVE  /\ r # None
                      /\ r.off /\ ~v.off => c.op = "enable"
                      /\ v.role # r.role => c.op \in {"promote", "demote"}
  OBVIOUS
<1>4. "pw" \in A!Columns
  BY DEF A!Columns
<1> HIDE DEF v, z, r, w, c
<1>5. CASE w = None
  BY <1>2, <1>3, <1>5
<1>6. CASE w # None /\ c.op \in A!AdminOps /\ w = A!EditedColumns(c.op, c.row)
  <2>1. \/ DOMAIN w = {"off"} /\ w.off = (c.op = "disable") /\ c.op \in {"disable", "enable"}
        \/ DOMAIN w = {"role"} /\ c.op \in {"promote", "demote", "delete"}
    BY <1>6 DEF A!EditedColumns, A!AdminOps
  <2>2. DOMAIN w # A!Columns
    BY <1>4, <2>1
  <2>3. v = A!Merged(w, r) /\ r # None /\ c.op # "delete"
    BY <1>2, <1>3, <1>6, <2>2
  <2>4. /\ v.off = IF "off" \in DOMAIN w THEN w.off ELSE r.off
        /\ v.role = IF "role" \in DOMAIN w THEN w.role ELSE r.role
    BY <2>3 DEF A!Merged
  <2> QED BY <2>1, <2>3, <2>4
<1>7. CASE w # None /\ c.op = "factor" /\ w = [counter |-> z]
  <2>1. DOMAIN w = {"counter"}
    BY <1>7
  <2>2. DOMAIN w # A!Columns
    BY <1>4, <2>1
  <2>3. v = A!Merged(w, r) /\ r # None
    BY <1>2, <1>3, <1>7, <2>2
  <2>4. v.off = r.off /\ v.role = r.role
    BY <2>1, <2>3 DEF A!Merged
  <2> QED BY <2>3, <2>4
<1> QED BY <1>1, <1>5, <1>6, <1>7

\* What an administrator committed is undone by the operation for it or by the save of a whole
\* row, and by nothing else: an edit, a sign-in or a deletion that read the row before writes
\* its own columns, and restores no account that is gone.
THEOREM CommittedEditsStick ==
  ASSUME A!AccountsAssumption
  PROVE  A!Spec => [][A!EditsStick]_(A!vars)
<1>1. ASSUME AccountsInv, EditsInv, A!Next PROVE A!EditsStick
  <2>0. row \in [Users -> A!Rows \cup {None}]
    BY <1>1 DEF AccountsInv, Types
  <2>1. CASE row' = row
    BY <2>1 DEF A!EditsStick
  <2>2. ASSUME NEW p \in Procs, A!Commit(p) PROVE A!EditsStick
    <3> DEFINE c == request[p]
               v == A!Committed(p, c.user)
    <3>1. row' = [row EXCEPT ![c.user] = v] /\ c.pc = "commit" /\ A!End(p)
      BY <2>2 DEF A!Commit
    <3>2. c.user \in Users
      BY <1>1, <3>1, CallKnown
         DEF Placed, Requested, Operations, LinkOps, A!OnSession, A!AdminOps
    <3>3. request'[p] = A!NoReq
      BY <1>1, <3>1, EndMoves
    <3>4. \A ops : c.op \in ops => A!Commits(c.user, ops)
      BY <3>1, <3>3 DEF A!Commits, A!At
    <3>5. c.op \notin A!WholeRowOps /\ v # None =>
             /\ row[c.user] # None
             /\ row[c.user].off /\ ~v.off => c.op = "enable"
             /\ v.role # row[c.user].role => c.op \in {"promote", "demote"}
      BY <1>1, <3>2, NarrowCommitted
    <3> HIDE DEF v, c
    <3>6. row'[c.user] = v /\ \A u \in Users : u # c.user => row'[u] = row[u]
      BY <2>0, <3>1, <3>2
    <3> QED BY <3>4, <3>5, <3>6 DEF A!EditsStick
  <2>3. ASSUME NEW p \in Procs, A!Sign(p) \/ A!OnOwn(p) \/ A!Administer(p) \/ A!Redeem(p)
        PROVE  row' = row
    BY <2>3 DEF A!Sign, A!LoginAllowed, A!verify_password, A!ReadChallenge, A!DropChallenge,
       A!VerifyCode, A!ClaimTotp, A!ClaimRecovery, A!Admit, A!Abort, A!create, A!OnOwn,
       A!ReadSession, A!CheckSession, A!RefreshSession, A!ResolveActor, A!Respond, A!SignOut,
       A!BeginReenrolment, A!OwnRead, A!OwnSave, A!OwnMark, A!ReadKept, A!Restamp,
       A!Administer, A!AdminRead, A!Stamp, A!AdminWrite, A!Invalidate, A!DeleteRow, A!Redeem,
       A!RedeemRead, A!ClaimLink, A!RedeemSave, A!RedeemMark, A!tables
  <2>4. CASE A!EnterMaintenance \/ A!LeaveMaintenance \/ A!WindowEnds \/ A!Tick
    BY <2>1, <2>4 DEF A!EnterMaintenance, A!LeaveMaintenance, A!WindowEnds, A!Tick, A!tables
  <2>5. CASE A!Invite
    <3>1. ASSUME NEW x \in Users, NEW y, row' = [row EXCEPT ![x] = y], A!NewId(x)
          PROVE  A!EditsStick
      <4>1. row[x] = None /\ \A u \in Users : u # x => row'[u] = row[u]
        BY <2>0, <3>1 DEF A!NewId
      <4> QED BY <3>1, <4>1 DEF A!EditsStick
    <3> QED BY <2>1, <2>5, <3>1 DEF A!Invite, A!BootstrapClaim, A!create_account, A!Reissue,
               A!BeginEnrolment, A!tables
  <2> QED BY <1>1, <2>1, <2>2, <2>3, <2>4, <2>5 DEF A!Next
<1>2. AccountsInv /\ EditsInv /\ [A!Next]_(A!vars) => [A!EditsStick]_(A!vars)
  BY <1>1
<1> QED BY <1>2, EditsHeld, PTL DEF A!Spec

=============================================================================
