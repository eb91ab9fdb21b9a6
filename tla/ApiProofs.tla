------------------------------ MODULE ApiProofs ------------------------------
(***************************************************************************)
(* Tenants stay apart, for any tenants, requests, calls and connections,   *)
(* the pools being one or two; and what unique indexes, look-ups and the   *)
(* outbox make of the rows that requests write next to each other: one     *)
(* tenant to a subject, one variant to a code, no reference to another     *)
(* tenant, an event with every row that is told of.                        *)
(***************************************************************************)
EXTENDS Api, TLAPS

(* The functions the proofs update.                                        *)
Functions ==
  /\ at \in [Requests -> {"idle", "enter", "read", "write", "reply", "commit", "done"}]
  /\ conn \in [Requests -> Conns \cup {None}]
  /\ own = [q \in Requests |-> own[q]]
  /\ call = [q \in Requests |-> call[q]]
  /\ tenant = [q \in Requests |-> tenant[q]]
  /\ scope = [c \in Conns |-> scope[c]]

(* A connection is one transaction's while it runs, and unscoped else.     *)
PoolInv ==
  /\ \A q \in Requests : conn[q] # None <=> Running(q)
  /\ \A p, q \in Requests : conn[p] # None /\ conn[p] = conn[q] => p = q
  /\ \A c \in Conns : (\A q \in Requests : conn[q] # c) => scope[c] = LoginScope(c)

(* What is in force on the connection of a transaction.                    *)
ScopeInv ==
  \A q \in Requests : Running(q) =>
    IF IsSuperAdmin(call[q])
      THEN scope[conn[q]].role = "owner"
      ELSE /\ scope[conn[q]] = [role |-> "posnet_app", tenant |-> tenant[q]]
           /\ \E u \in ActiveUsers(call[q].subject) : u.tenant = tenant[q]

(* Rows carry the name of their table; a user's is written by the request  *)
(* it is named for, once, and never again.                                 *)
NamedForTable(r) == r.table = r.id[2]

UsersStay ==
  /\ \A r \in rows : NamedForTable(r)
  /\ \A q \in Requests : \A r \in own[q] : NamedForTable(r) /\ (r.table = "users" => r.id[1] = q)
  /\ \A r \in rows : r.table = "users" /\ r.id[1] \in Requests => at[r.id[1]] = "done"

(* A transaction under row level security writes its tenant's rows.        *)
OwnInv ==
  /\ \A q \in Requests : ~Running(q) => own[q] = {}
  /\ \A q \in Requests : Running(q) /\ ~IsSuperAdmin(call[q]) =>
       \A r \in own[q] : r.tenant = tenant[q]

ApiInv == Functions /\ PoolInv /\ ScopeInv /\ UsersStay /\ OwnInv

LEMMA ApiStart == ApiInit => ApiInv
<1> SUFFICES ASSUME Init PROVE ApiInv
  BY DEF ApiInit
<1>1. Functions
  BY DEF Init, Functions
<1>2. PoolInv /\ ScopeInv /\ OwnInv
  BY NoneAssumption DEF Init, PoolInv, ScopeInv, OwnInv, Running, Conns
<1>3. UsersStay
  BY RowsAssumption DEF Init, UsersStay, NamedForTable
<1> QED
  BY <1>1, <1>2, <1>3 DEF ApiInv

(***************************************************************************)
(* The rows, committed and about to be.                                    *)
(***************************************************************************)
(* What unique indexes and primary keys promise of a set of rows.          *)
Unique(some) == \A r, s \in some : r.id = s.id \/ r.keys \cap s.keys # {} => r = s

(* What a row of "some" refers to, its tenant included, is of its tenant.  *)
Fits(some, all) ==
  \A r \in some : \A id \in r.refs \cup {r.tenant} :
    \E t \in all : t.id = id /\ t.tenant = r.tenant

(* A row of these tables comes with an event.                              *)
Announced == {"tenants", "products", "variants", "price_overrides", "stock_movements"}

Tells(e, r) ==
  /\ e.table = "outbox_events" /\ e.tenant = r.tenant /\ e.id[1] = r.id[1]
  /\ r.id \in e.refs \/ r.refs = e.refs \cup {r.tenant}

Told(some, all) ==
  \A r \in some : r.table \in Announced /\ r.id[1] \in Requests => \E e \in all : Tells(e, r)

(* Rows of these tables are never updated by a call.                       *)
WrittenOnce == {"users", "variants", "outbox_events"}

(* Variants and users carry the index entries that their call asks for.    *)
AsCalled(r, q) ==
  /\ r.table = "variants" => r.keys = VariantKeys(tenant[q], call[q].sku, call[q].barcode)
  /\ r.table = "users" /\ Given(q) # None => SubjectKey(Given(q)) \in r.keys

(* A transaction writes rows of its own making, or replaces committed      *)
(* ones, at one point only.                                                *)
MadeInv ==
  /\ \A r \in rows : r.id[1] \in Requests => at[r.id[1]] = "done" /\ AsCalled(r, r.id[1])
  /\ \A r \in rows : r.table = "users" /\ r.id[1] \notin Requests => r \in InitialRows
  /\ \A q \in Requests : at[q] \in {"read", "write"} => own[q] = {}
  /\ \A q \in Requests : \A r \in own[q] :
       /\ r.id[1] # q => r.table \notin WrittenOnce /\ r.id \in Ids(rows)
       /\ AsCalled(r, q)

(* Row locks and index entries: what two transactions write is apart, and  *)
(* an entry that is committed is only written again for the same row.      *)
LockInv ==
  /\ Unique(rows)
  /\ \A q \in Requests : Unique(own[q])
  /\ \A p, q \in Requests : \A r \in own[p], s \in own[q] :
       r.id = s.id \/ r.keys \cap s.keys # {} => p = q
  /\ \A q \in Requests : \A r \in own[q], s \in rows :
       /\ r.keys \cap s.keys # {} => r.id = s.id
       /\ r.id = s.id => r.tenant = s.tenant

ReferInv ==
  /\ Fits(rows, rows)
  /\ \A q \in Requests : Fits(own[q], rows \cup own[q])
  /\ Told(rows, rows)
  /\ \A q \in Requests : Told(own[q], rows \cup own[q])

(* The ids a call looks up in its tenant before it writes.                 *)
Needs(c) ==
  IF c.what = "assign_role" THEN {c.user, c.role}
  ELSE IF c.what = "create_product" THEN {c.store} \ {None}
  ELSE IF c.what = "add_variant" THEN {c.product}
  ELSE IF c.what = "set_override" THEN {c.variant} \cup ({c.store} \ {None})
  ELSE IF c.what = "move" THEN {c.variant, c.warehouse}
  ELSE IF c.what = "open_shift" THEN {c.store, c.cashier}
  ELSE IF c.what = "record_cash" THEN {c.shift}
  ELSE {}

Here(q, id) == \E s \in rows : s.id = id /\ s.tenant = tenant[q]

Known(q) == \A id \in Needs(call[q]) : Here(q, id)

OfOperator(q) == call[q].what \in {"onboard", "seed"}

Caller(q) ==
  /\ Running(q) => (IsSuperAdmin(call[q]) <=> OfOperator(q))
  /\ Running(q) /\ ~OfOperator(q) => Here(q, tenant[q])
  /\ at[q] = "write" => Known(q)

CallerInv == \A q \in Requests : Caller(q)

StoreInv == MadeInv /\ LockInv /\ ReferInv /\ CallerInv

LEMMA StoreStart == ApiInit => StoreInv
<1> SUFFICES ASSUME Init PROVE StoreInv
  BY DEF ApiInit
<1>1. MadeInv
  BY RowsAssumption DEF Init, MadeInv
<1>2. LockInv
  BY IndexAssumption DEF Init, LockInv, Unique
<1>3. ReferInv
  BY RowsAssumption, ReferenceAssumption DEF Init, ReferInv, Fits, Told
<1>4. CallerInv
  BY DEF Init, CallerInv, Caller, Running
<1> QED
  BY <1>1, <1>2, <1>3, <1>4 DEF StoreInv

(***************************************************************************)
(* What a call of the API does next is one of a few things.                *)
(***************************************************************************)
(* Rows a transaction may add to its own.                                  *)
Fresh(q, new) ==
  /\ \A r \in new : NamedForTable(r) /\ r.id[1] = q /\ AsCalled(r, q)
  /\ \A r, s \in new : r.id = s.id => r = s
  /\ Told(new, new)

InsertStep(q) ==
  \E new : /\ own' = [own EXCEPT ![q] = @ \cup new]
           /\ Fresh(q, new) /\ Fits(new, rows \cup new)
           /\ Awaited(q, new) = {} /\ ~Violates(q, new) /\ Checked(q, new)
           /\ Through(q)

(* Changed rows are visible ones that keep what they are and refer to, and *)
(* get no new entry in an index.                                           *)
Changed(q, t) ==
  \E s \in Visible(q) :
    /\ t.id = s.id /\ t.table = s.table /\ t.tenant = s.tenant /\ t.refs = s.refs
    /\ t.keys \subseteq s.keys
    /\ NamedForTable(s) /\ s.table \notin WrittenOnce

UpdateStep(q) ==
  \E changed, new :
    /\ own' = [own EXCEPT ![q] = @ \cup changed \cup new]
    /\ Fresh(q, new) /\ Fits(new, rows \cup new)
    /\ \A r \in new : r.tenant = tenant[q] /\ r.table # "users" /\ r.keys = {}
    /\ \A t \in changed : Changed(q, t)
    /\ \A t, u \in changed : t.id = u.id => t = u
    /\ Unlocked(q, changed)
    /\ Through(q)

EnterStep(q) ==
  \E next \in {"read", "write"} :
    /\ next = "write" => Needs(call[q]) = {}
    /\ \/ ~OfOperator(q) /\ EnterTenant(q, next)
       \/ /\ OfOperator(q)
          /\ EnterSystem(q, SystemConns, next) \/ EnterSystem(q, ScriptConns, next)

RefuseStep(q) == \E code : Refuse(q, code)

MoveStep(q) == ((Proceed(q, "write") /\ Known(q)) \/ Through(q)) /\ UNCHANGED own

(* One of these.                                                           *)
CallStep(q) ==
  \/ RefuseStep(q)
  \/ EnterStep(q)
  \/ at[q] \in {"read", "write"} /\ (MoveStep(q) \/ InsertStep(q) \/ UpdateStep(q))

LEMMA EventFields ==
  ASSUME NEW q, NEW of, NEW about
  PROVE  LET e == Event(q, of, about) IN
           /\ e.id = <<q, "outbox_events", about>> /\ e.table = "outbox_events" /\ e.tenant = of
           /\ e.keys = {} /\ e.refs = about
BY DEF Event, Row

(* A member's transaction sees committed rows of its tenant, until it      *)
(* writes.                                                                 *)
LEMMA Scoped ==
  ASSUME ApiInv, NEW q \in Requests, Running(q), ~IsSuperAdmin(call[q])
  PROVE  scope[conn[q]].role # "owner" /\ scope[conn[q]].tenant = tenant[q]
<1>1. scope[conn[q]] = [role |-> "posnet_app", tenant |-> tenant[q]]
  BY DEF ApiInv, ScopeInv
<1> QED
  BY <1>1

LEMMA SeesItsTenant ==
  ASSUME ApiInv, StoreInv, NEW q \in Requests, at[q] \in {"read", "write"}, ~OfOperator(q)
  PROVE  /\ \A r \in Visible(q) : r \in rows /\ r.tenant = tenant[q] /\ NamedForTable(r)
         /\ \A id : (\E r \in Visible(q) : r.id = id) => Here(q, id)
<1>1. own[q] = {} /\ Running(q) /\ ~IsSuperAdmin(call[q])
  BY DEF StoreInv, MadeInv, CallerInv, Caller, Running
<1>2. scope[conn[q]].role # "owner" /\ scope[conn[q]].tenant = tenant[q]
  BY <1>1, Scoped
<1> QED
  BY <1>1, <1>2 DEF Visible, Here, ApiInv, UsersStay

LEMMA FoundIsHere ==
  ASSUME ApiInv, StoreInv, NEW q \in Requests, at[q] \in {"read", "write"}, ~OfOperator(q),
         NEW table, NEW id, Found(q, table, id)
  PROVE  Here(q, id)
BY SeesItsTenant DEF Found, Named, Of

(* Rows of the caller's tenant that refer to what is there.                *)
LEMMA FitsHere ==
  ASSUME ApiInv, StoreInv, NEW q \in Requests, at[q] \in {"read", "write"}, ~OfOperator(q),
         NEW new,
         \A r \in new : /\ r.tenant = tenant[q]
                        /\ \A id \in r.refs : \/ id = tenant[q]
                                              \/ Here(q, id)
                                              \/ \E t \in new : t.id = id
  PROVE  Fits(new, rows \cup new)
<1>1. Here(q, tenant[q])
  BY DEF StoreInv, CallerInv, Caller, Running
<1> QED
  BY <1>1 DEF Fits, Here

LEMMA InsertIsStep ==
  ASSUME NEW q, NEW new, NEW code, Insert(q, new, code), at[q] \in {"read", "write"},
         Fresh(q, new), Fits(new, rows \cup new)
  PROVE  CallStep(q)
BY DEF Insert, CallStep, InsertStep, RefuseStep

LEMMA InsertKnowingIsStep ==
  ASSUME NEW q, NEW known, NEW new, NEW code, InsertKnowing(q, known, new, code),
         Fresh(q, new), at[q] = "write" => Fits(new, rows \cup new),
         at[q] = "read" /\ known => Known(q)
  PROVE  CallStep(q)
BY InsertIsStep DEF InsertKnowing, CallStep, MoveStep, RefuseStep

LEMMA AdmitIsStep ==
  ASSUME NEW q, NEW resource, NEW action, NEW next \in {"read", "write"},
         Admit(q, resource, action, next), ~OfOperator(q), next = "write" => Needs(call[q]) = {}
  PROVE  CallStep(q)
BY DEF Admit, Forbid, NoTenant, CallStep, EnterStep, RefuseStep

LEMMA AdminIsStep ==
  ASSUME NEW q, NEW next \in {"read", "write"}, AdminEnters(q, next),
         ~OfOperator(q), next = "write" => Needs(call[q]) = {}
  PROVE  CallStep(q)
BY DEF AdminEnters, Forbid, NoTenant, CallStep, EnterStep, RefuseStep

LEMMA UpdateIsStep ==
  ASSUME NEW q, NEW changed, NEW new, Update(q, changed, new), at[q] \in {"read", "write"},
         Fresh(q, new), Fits(new, rows \cup new),
         \A r \in new : r.tenant = tenant[q] /\ r.table # "users" /\ r.keys = {},
         \A t \in changed : Changed(q, t), \A t, u \in changed : t.id = u.id => t = u
  PROVE  CallStep(q)
BY DEF Update, CallStep, UpdateStep

(* An update that writes no other row.                                     *)
LEMMA PlainUpdateIsStep ==
  ASSUME NEW q, NEW changed, Update(q, changed, {}), at[q] \in {"read", "write"},
         \A t \in changed : Changed(q, t), \A t, u \in changed : t.id = u.id => t = u
  PROVE  CallStep(q)
BY UpdateIsStep DEF Fresh, Fits, Told

LEMMA ReadIsStep ==
  ASSUME NEW q, at[q] \in {"read", "write"}, Read(q) PROVE CallStep(q)
BY DEF Read, CallStep, MoveStep

LEMMA RefuseIsStep == ASSUME NEW q, NEW code, Refuse(q, code) PROVE CallStep(q)
BY DEF CallStep, RefuseStep

LEMMA ListIsStep == ASSUME NEW q, List(q) PROVE CallStep(q)
BY ReadIsStep DEF List

LEMMA GetIsStep == ASSUME NEW q, NEW table, NEW id, Get(q, table, id) PROVE CallStep(q)
BY ReadIsStep, RefuseIsStep DEF Get

LEMMA ProceedIsStep ==
  ASSUME NEW q, at[q] = "read", Proceed(q, "write"), UNCHANGED own, Known(q) PROVE CallStep(q)
BY DEF CallStep, MoveStep

(***************************************************************************)
(* Accounts.                                                               *)
(***************************************************************************)
LEMMA OnboardRowsFit ==
  ASSUME NEW q, OfOperator(q)
  PROVE  Fresh(q, OnboardRows(q)) /\ Fits(OnboardRows(q), rows \cup OnboardRows(q))
<1> DEFINE t == TenantRow(TenantId(q))
           u == UserRow(Id(q, "users"), TenantId(q), call[q].email, call[q].admin)
           e == Event(q, TenantId(q), {TenantId(q)})
<1>1. /\ t.id = <<q, "tenants">> /\ t.table = "tenants" /\ t.tenant = <<q, "tenants">>
      /\ t.refs = {}
  BY DEF TenantRow, TenantId, Id, Row
<1>2. /\ u.id = <<q, "users">> /\ u.table = "users" /\ u.tenant = <<q, "tenants">>
      /\ u.refs = {<<q, "tenants">>}
      /\ call[q].admin # None => SubjectKey(call[q].admin) \in u.keys
  BY DEF UserRow, TenantId, Id, Row
<1>3. /\ e.id = <<q, "outbox_events", {<<q, "tenants">>}>> /\ e.table = "outbox_events"
      /\ e.tenant = <<q, "tenants">> /\ e.refs = {<<q, "tenants">>}
  BY EventFields DEF TenantId, Id
<1>4. OnboardRows(q) = {t, u, e}
  BY DEF OnboardRows
<1> HIDE DEF t, u, e
<1>5. Fresh(q, {t, u, e})
  <2>1. \A r \in {t, u, e} : NamedForTable(r) /\ r.id[1] = q /\ AsCalled(r, q)
    BY <1>1, <1>2, <1>3 DEF NamedForTable, AsCalled, Given, OfOperator
  <2>2. \A r, s \in {t, u, e} : r.id = s.id => r = s
    <3>1. t.id[2] # u.id[2] /\ t.id[2] # e.id[2] /\ u.id[2] # e.id[2]
      BY <1>1, <1>2, <1>3
    <3> QED
      BY <3>1
  <2>3. Tells(e, t)
    BY <1>1, <1>3 DEF Tells
  <2>4. Told({t, u, e}, {t, u, e})
    BY <1>2, <1>3, <2>3 DEF Told, Announced
  <2> QED
    BY <2>1, <2>2, <2>4 DEF Fresh
<1>6. Fits({t, u, e}, rows \cup {t, u, e})
  BY <1>1, <1>2, <1>3 DEF Fits
<1> QED
  BY <1>4, <1>5, <1>6

LEMMA RoleRowsFit ==
  ASSUME ApiInv, StoreInv, NEW q \in Requests, ~OfOperator(q), at[q] = "write"
  PROVE  Fresh(q, RoleRows(q)) /\ Fits(RoleRows(q), rows \cup RoleRows(q))
<1>1. LET r == RoleRow(q) IN
        /\ r.id = <<q, "roles">> /\ r.table = "roles" /\ r.tenant = tenant[q]
        /\ r.refs = {tenant[q]}
  BY DEF RoleRow, Id, Row
<1>2. \A i : LET r == PermissionRow(q, i) IN
        /\ r.id = <<q, "permissions", i>> /\ r.table = "permissions" /\ r.tenant = tenant[q]
        /\ r.refs = {tenant[q], <<q, "roles">>}
  BY DEF PermissionRow, Id, Row
<1>3. \A r \in RoleRows(q) : r = RoleRow(q) \/ \E i : r = PermissionRow(q, i)
  BY DEF RoleRows
<1>4. RoleRow(q) \in RoleRows(q)
  BY DEF RoleRows
<1>5. Fresh(q, RoleRows(q))
  <2>1. \A r \in RoleRows(q) : /\ NamedForTable(r) /\ r.id[1] = q /\ AsCalled(r, q)
                               /\ r.table \notin Announced
    BY <1>1, <1>2, <1>3 DEF NamedForTable, AsCalled, Announced
  <2>2. \A r, s \in RoleRows(q) : r.id = s.id => r = s
    <3>1. \A i, j : PermissionRow(q, i).id = PermissionRow(q, j).id => i = j
      BY <1>2
    <3>2. \A i : PermissionRow(q, i).id[2] # RoleRow(q).id[2]
      BY <1>1, <1>2
    <3>3. \A i : PermissionRow(q, i).id # RoleRow(q).id
      BY <3>2
    <3> QED
      BY <1>3, <3>1, <3>3
  <2> QED
    BY <2>1, <2>2 DEF Fresh, Told
<1>6. \A r \in RoleRows(q) : /\ r.tenant = tenant[q]
                             /\ \A id \in r.refs : \/ id = tenant[q]
                                                   \/ \E t \in RoleRows(q) : t.id = id
  BY <1>1, <1>2, <1>3, <1>4
<1> QED
  BY <1>5, <1>6, FitsHere

LEMMA OnboardIsStep == ASSUME NEW q, Onboard(q) PROVE CallStep(q)
<1>0. OfOperator(q)
  BY DEF Onboard, OfOperator
<1>1. CASE EnterSystem(q, SystemConns, "write")
  BY <1>1 DEF CallStep, EnterStep, Onboard, OfOperator, Needs
<1>2. CASE at[q] = "write" /\ Insert(q, OnboardRows(q), "409")
  BY <1>0, <1>2, OnboardRowsFit, InsertIsStep
<1> QED
  BY <1>1, <1>2, RefuseIsStep DEF Onboard, Forbid

LEMMA SeedIsStep == ASSUME NEW q, Seed(q) PROVE CallStep(q)
<1>0. OfOperator(q)
  BY DEF Seed, OfOperator
<1>1. CASE EnterSystem(q, ScriptConns, "read")
  BY <1>1 DEF CallStep, EnterStep, Seed, OfOperator
<1>2. CASE at[q] = "write" /\ Insert(q, OnboardRows(q), "500")
  BY <1>0, <1>2, OnboardRowsFit, InsertIsStep
<1>3. Known(q)
  BY DEF Seed, Known, Needs
<1> QED
  BY <1>1, <1>2, <1>3, ReadIsStep, ProceedIsStep DEF Seed, SeedFirstTenant

LEMMA CreateUserIsStep == ASSUME ApiInv, StoreInv, NEW q \in Requests, CreateUser(q) PROVE CallStep(q)
<1>1. LET r == NewUser(q) IN
        /\ r.id = <<q, "users">> /\ r.table = "users" /\ r.tenant = tenant[q]
        /\ r.refs = {tenant[q]}
        /\ Given(q) # None => SubjectKey(Given(q)) \in r.keys
  BY DEF CreateUser, Given, NewUser, UserRow, Id, Row
<1>2. Fresh(q, {NewUser(q)})
  BY <1>1 DEF Fresh, NamedForTable, AsCalled, Told, Announced
<1>3. ~OfOperator(q) /\ Needs(call[q]) = {}
  BY DEF CreateUser, OfOperator, Needs
<1>4. at[q] = "write" => Fits({NewUser(q)}, rows \cup {NewUser(q)})
  BY <1>1, <1>3, FitsHere
<1> QED
  BY <1>2, <1>3, <1>4, AdminIsStep, InsertIsStep DEF CreateUser

LEMMA CreateRoleIsStep == ASSUME ApiInv, StoreInv, NEW q \in Requests, CreateRole(q) PROVE CallStep(q)
<1>1. ~OfOperator(q) /\ Needs(call[q]) = {}
  BY DEF CreateRole, OfOperator, Needs
<1> QED
  BY <1>1, RoleRowsFit, AdminIsStep, InsertIsStep DEF CreateRole

LEMMA AssignRoleIsStep == ASSUME ApiInv, StoreInv, NEW q \in Requests, AssignRole(q) PROVE CallStep(q)
<1>1. LET r == AssignmentRow(q) IN
        /\ r.id = <<q, "user_roles">> /\ r.table = "user_roles" /\ r.tenant = tenant[q]
        /\ r.refs = {tenant[q], call[q].user, call[q].role}
  BY DEF AssignmentRow, Id, Row
<1>2. Fresh(q, {AssignmentRow(q)})
  BY <1>1 DEF Fresh, NamedForTable, AsCalled, Told, Announced
<1>3. ~OfOperator(q) /\ Needs(call[q]) = {call[q].user, call[q].role}
  BY DEF AssignRole, OfOperator, Needs
<1>4. at[q] = "write" => Fits({AssignmentRow(q)}, rows \cup {AssignmentRow(q)})
  <2>1. at[q] = "write" => Known(q)
    BY DEF StoreInv, CallerInv, Caller
  <2> QED
    BY <1>1, <1>3, <2>1, FitsHere DEF Known
<1>5. at[q] = "read" /\ Found(q, "users", call[q].user) /\ Found(q, "roles", call[q].role) => Known(q)
  BY <1>3, FoundIsHere DEF Known
<1> QED
  BY <1>2, <1>3, <1>4, <1>5, AdminIsStep, InsertKnowingIsStep DEF AssignRole, AssignKnown

(* An override that is found is visible, and stays the row it was.         *)
LEMMA SetFlagIsStep ==
  ASSUME ApiInv, StoreInv, NEW q \in Requests, SetFlag(q) PROVE CallStep(q)
<1>1. ~OfOperator(q) /\ Needs(call[q]) = {} /\ Known(q)
  BY DEF SetFlag, OfOperator, Needs, Known
<1> DEFINE flag == FlagRow(Id(q, "feature_flags"), tenant[q], call[q].key, call[q].on)
<1>2. /\ flag.id = <<q, "feature_flags">> /\ flag.table = "feature_flags"
      /\ flag.tenant = tenant[q] /\ flag.refs = {tenant[q]}
  BY DEF FlagRow, Id, Row
<1> HIDE DEF flag
<1>3. Fresh(q, {flag})
  BY <1>2 DEF Fresh, NamedForTable, AsCalled, Told, Announced
<1>4. at[q] = "write" => Fits({flag}, rows \cup {flag})
  BY <1>1, <1>2, FitsHere
<1>5. ASSUME NEW r \in Overrides(Visible(q), call[q].key), at[q] = "read",
             Update(q, {[r EXCEPT !.on = call[q].on]}, {})
      PROVE  CallStep(q)
  <2>1. r \in Visible(q) /\ r.table = "feature_flags" /\ NamedForTable(r)
    BY <1>1, <1>5, SeesItsTenant DEF Overrides, Of
  <2>2. PICK s : s = [r EXCEPT !.on = call[q].on]
    OBVIOUS
  <2>3. Changed(q, s)
    BY <2>1, <2>2 DEF Changed, WrittenOnce
  <2> QED
    BY <1>5, <2>2, <2>3, PlainUpdateIsStep
<1>6. ASSUME Declared(call[q].key), UpsertFlag(q) PROVE CallStep(q)
  <2>1. ASSUME at[q] = "read", NEW r \in Overrides(Visible(q), call[q].key),
               IF r.on = call[q].on THEN Read(q)
                                    ELSE Update(q, {[r EXCEPT !.on = call[q].on]}, {})
        PROVE  CallStep(q)
    BY <1>5, <2>1, ReadIsStep
  <2>2. CASE at[q] = "read" /\ Proceed(q, "write") /\ UNCHANGED own
    BY <1>1, <2>2, ProceedIsStep
  <2>3. CASE at[q] = "write"
    BY <1>3, <1>4, <1>6, <2>3, InsertIsStep DEF UpsertFlag, flag
  <2> QED
    BY <1>6, <2>1, <2>2, <2>3 DEF UpsertFlag
<1> QED
  BY <1>1, <1>6, AdminIsStep, RefuseIsStep DEF SetFlag

LEMMA ListFlagsIsStep == ASSUME NEW q, ListFlags(q) PROVE CallStep(q)
BY ListIsStep DEF ListFlags, NoTenant, CallStep, EnterStep, RefuseStep, OfOperator

LEMMA AccountCallIsStep ==
  ASSUME ApiInv, StoreInv, NEW q \in Requests, AccountCall(q) PROVE CallStep(q)
<1>1. CASE ListAccounts(q)
  BY <1>1, AdminIsStep, ListIsStep DEF ListAccounts, OfOperator
<1> QED
  BY <1>1, OnboardIsStep, SeedIsStep, CreateUserIsStep, CreateRoleIsStep, AssignRoleIsStep,
     SetFlagIsStep, ListFlagsIsStep DEF AccountCall

(***************************************************************************)
(* Catalog.                                                                *)
(***************************************************************************)
LEMMA StoreKnownIsHere ==
  ASSUME ApiInv, StoreInv, NEW q \in Requests, at[q] = "read", ~OfOperator(q), StoreKnown(q)
  PROVE  call[q].store # None => Here(q, call[q].store)
BY FoundIsHere DEF StoreKnown

LEMMA CreateProductIsStep ==
  ASSUME ApiInv, StoreInv, NEW q \in Requests, CreateProduct(q) PROVE CallStep(q)
<1> DEFINE id == Id(q, "products")
           product == ProductRow(id, tenant[q], call[q].store, FALSE)
           event == CatalogEvent(q, id)
           all == ProductRows(q)
<1>1. /\ product.id = <<q, "products">> /\ product.table = "products"
      /\ product.tenant = tenant[q] /\ product.refs = {tenant[q]} \cup ({call[q].store} \ {None})
  BY DEF ProductRow, Id, Row
<1>2. /\ event.id = <<q, "outbox_events", {<<q, "products">>}>>
      /\ event.table = "outbox_events" /\ event.tenant = tenant[q]
      /\ event.refs = {<<q, "products">>}
  BY EventFields DEF CatalogEvent, Id
<1>3. \A url : LET r == ImageRow(q, id, url) IN
        /\ r.id = <<q, "product_images", url>> /\ r.table = "product_images"
        /\ r.tenant = tenant[q] /\ r.refs = {tenant[q], <<q, "products">>}
  BY DEF ImageRow, Id, Row
<1>4. /\ \A r \in all : r = product \/ r = event \/ \E url : r = ImageRow(q, id, url)
      /\ product \in all /\ event \in all
  BY DEF ProductRows
<1> HIDE DEF product, event, all, id
<1>5. Fresh(q, all)
  <2>1. \A r \in all : NamedForTable(r) /\ r.id[1] = q /\ AsCalled(r, q)
    BY <1>1, <1>2, <1>3, <1>4 DEF NamedForTable, AsCalled
  <2>2. \A r, s \in all : r.id = s.id => r = s
    <3>1. \A u, v : ImageRow(q, id, u).id = ImageRow(q, id, v).id => u = v
      BY <1>3
    <3>2. \A u : /\ ImageRow(q, id, u).id[2] = "product_images"
                 /\ product.id[2] = "products" /\ event.id[2] = "outbox_events"
      BY <1>1, <1>2, <1>3
    <3>3. \A u : /\ ImageRow(q, id, u).id # product.id
                 /\ ImageRow(q, id, u).id # event.id /\ product.id # event.id
      BY <3>2
    <3> QED
      BY <1>4, <3>1, <3>3
  <2>3. Tells(event, product)
    BY <1>1, <1>2 DEF Tells
  <2>4. Told(all, all)
    BY <1>2, <1>3, <1>4, <2>3 DEF Told, Announced
  <2> QED
    BY <2>1, <2>2, <2>4 DEF Fresh
<1>6. ~OfOperator(q) /\ Needs(call[q]) = {call[q].store} \ {None}
  BY DEF CreateProduct, OfOperator, Needs
<1>7. at[q] = "write" => Fits(all, rows \cup all)
  <2>1. at[q] = "write" => Known(q)
    BY DEF StoreInv, CallerInv, Caller
  <2>2. \E t \in all : t.id = <<q, "products">>
    BY <1>1, <1>4
  <2> QED
    BY <1>1, <1>2, <1>3, <1>4, <1>6, <2>1, <2>2, FitsHere DEF Known
<1>8. at[q] = "read" /\ StoreKnown(q) => Known(q)
  BY <1>6, StoreKnownIsHere DEF Known
<1> QED
  BY <1>5, <1>6, <1>7, <1>8, AdmitIsStep, InsertKnowingIsStep DEF CreateProduct, all

LEMMA AddVariantIsStep ==
  ASSUME ApiInv, StoreInv, NEW q \in Requests, AddVariant(q) PROVE CallStep(q)
<1> DEFINE id == Id(q, "variants")
           variant == VariantRow(id, tenant[q], call[q].product, call[q].sku, call[q].barcode)
           event == CatalogEvent(q, id)
<1>1. /\ variant.id = <<q, "variants">> /\ variant.table = "variants"
      /\ variant.tenant = tenant[q] /\ variant.refs = {tenant[q], call[q].product}
      /\ variant.keys = VariantKeys(tenant[q], call[q].sku, call[q].barcode)
  BY DEF VariantRow, Id, Row
<1>2. /\ event.id = <<q, "outbox_events", {<<q, "variants">>}>>
      /\ event.table = "outbox_events" /\ event.tenant = tenant[q]
      /\ event.refs = {<<q, "variants">>}
  BY EventFields DEF CatalogEvent, Id
<1>3. VariantRows(q) = {variant, event}
  BY DEF VariantRows
<1> HIDE DEF variant, event, id
<1>4. Fresh(q, {variant, event})
  <2>1. \A r \in {variant, event} : NamedForTable(r) /\ r.id[1] = q /\ AsCalled(r, q)
    BY <1>1, <1>2 DEF NamedForTable, AsCalled
  <2>2. variant.id[2] # event.id[2]
    BY <1>1, <1>2
  <2>3. Tells(event, variant)
    BY <1>1, <1>2 DEF Tells
  <2>4. Told({variant, event}, {variant, event})
    BY <1>2, <2>3 DEF Told, Announced
  <2> QED
    BY <2>1, <2>2, <2>4 DEF Fresh
<1>5. ~OfOperator(q) /\ Needs(call[q]) = {call[q].product}
  BY DEF AddVariant, OfOperator, Needs
<1>6. at[q] = "write" => Fits({variant, event}, rows \cup {variant, event})
  <2>1. at[q] = "write" => Known(q)
    BY DEF StoreInv, CallerInv, Caller
  <2> QED
    BY <1>1, <1>2, <1>5, <2>1, FitsHere DEF Known
<1>7. at[q] = "read" /\ Found(q, "products", call[q].product) => Known(q)
  BY <1>5, FoundIsHere DEF Known
<1> QED
  BY <1>3, <1>4, <1>5, <1>6, <1>7, AdmitIsStep, InsertKnowingIsStep DEF AddVariant, AddKnown

LEMMA SetOnlinePublishedIsStep ==
  ASSUME ApiInv, StoreInv, NEW q \in Requests, SetOnlinePublished(q) PROVE CallStep(q)
<1> DEFINE of == call[q].product
           events == IF call[q].on
                       THEN {CatalogEvent(q, v.id) : v \in Variants(of, Visible(q))} ELSE {}
<1>1. ~OfOperator(q) /\ Needs(call[q]) = {}
  BY DEF SetOnlinePublished, OfOperator, Needs
<1>2. \A id : LET e == CatalogEvent(q, id) IN
        /\ e.id = <<q, "outbox_events", {id}>> /\ e.table = "outbox_events"
        /\ e.tenant = tenant[q] /\ e.keys = {} /\ e.refs = {id}
  BY EventFields DEF CatalogEvent
<1>3. \A r \in events : \E v \in Visible(q) : r = CatalogEvent(q, v.id)
  BY DEF Variants, Of
<1> HIDE DEF events
<1>4. Fresh(q, events)
  <2>1. \A r \in events : NamedForTable(r) /\ r.id[1] = q /\ AsCalled(r, q)
    BY <1>2, <1>3 DEF NamedForTable, AsCalled
  <2>2. \A r, s \in events : r.id = s.id => r = s
    <3>1. \A i, j : CatalogEvent(q, i).id = CatalogEvent(q, j).id => i = j
      BY <1>2
    <3> QED
      BY <1>3, <3>1
  <2>3. Told(events, events)
    BY <1>2, <1>3 DEF Told, Announced
  <2> QED
    BY <2>1, <2>2, <2>3 DEF Fresh
<1>5. \A r \in events : r.tenant = tenant[q] /\ r.table # "users" /\ r.keys = {}
  BY <1>2, <1>3
<1>6. at[q] = "read" => Fits(events, rows \cup events)
  <2>1. at[q] = "read" => \A v \in Visible(q) : Here(q, v.id)
    BY <1>1, SeesItsTenant
  <2> QED
    BY <1>1, <1>2, <1>3, <2>1, FitsHere
<1>7. ASSUME NEW r \in Named(q, "products", of), at[q] = "read",
             Update(q, IF r.on = call[q].on THEN {} ELSE {[r EXCEPT !.on = call[q].on]}, events)
      PROVE  CallStep(q)
  <2>1. r \in Visible(q) /\ r.table = "products" /\ NamedForTable(r)
    BY <1>1, <1>7, SeesItsTenant DEF Named, Of
  <2>2. PICK s : s = [r EXCEPT !.on = call[q].on]
    OBVIOUS
  <2>3. Changed(q, s)
    BY <2>1, <2>2 DEF Changed, WrittenOnce
  <2>4. PICK changed : changed = (IF r.on = call[q].on THEN {} ELSE {[r EXCEPT !.on = call[q].on]})
    OBVIOUS
  <2>5. \A t \in changed : t = s
    BY <2>2, <2>4
  <2>6. Update(q, changed, events)
    BY <1>7, <2>4
  <2> QED
    BY <1>4, <1>5, <1>6, <1>7, <2>3, <2>5, <2>6, UpdateIsStep
<1> QED
  BY <1>1, <1>7, AdmitIsStep, RefuseIsStep DEF SetOnlinePublished, SetPublished, events

LEMMA CatalogCallIsStep ==
  ASSUME ApiInv, StoreInv, NEW q \in Requests, CatalogCall(q) PROVE CallStep(q)
<1>1. CASE LookUp(q)
  BY <1>1, AdmitIsStep, RefuseIsStep, ReadIsStep DEF LookUp, OfOperator
<1>2. CASE Detail(q)
  BY <1>2, AdmitIsStep, RefuseIsStep, ReadIsStep DEF Detail, OfOperator
<1>3. CASE ListProducts(q) \/ ListChannels(q)
  BY <1>3, AdmitIsStep, ListIsStep DEF ListProducts, ListChannels, OfOperator
<1> QED
  BY <1>1, <1>2, <1>3, CreateProductIsStep, AddVariantIsStep, SetOnlinePublishedIsStep
     DEF CatalogCall

(***************************************************************************)
(* Prices, stock and tills.                                                *)
(***************************************************************************)
LEMMA SetOverrideIsStep ==
  ASSUME ApiInv, StoreInv, NEW q \in Requests, SetOverride(q) PROVE CallStep(q)
<1> DEFINE id == Id(q, "price_overrides")
           about == {call[q].variant} \cup ({call[q].store} \ {None})
           override == Row(id, "price_overrides", tenant[q], {}, {tenant[q]} \cup about, TRUE)
           event == Event(q, tenant[q], {id} \cup about)
<1>1. /\ override.id = <<q, "price_overrides">> /\ override.table = "price_overrides"
      /\ override.tenant = tenant[q]
      /\ override.refs = {tenant[q]} \cup about
  BY DEF Id, Row
<1>2. /\ event.id = <<q, "outbox_events", {id} \cup about>> /\ event.table = "outbox_events"
      /\ event.tenant = tenant[q] /\ event.refs = {<<q, "price_overrides">>} \cup about
  BY EventFields DEF Id
<1>3. OverrideRows(q) = {override, event}
  BY DEF OverrideRows
<1>4. about = {call[q].variant} \cup ({call[q].store} \ {None})
  OBVIOUS
<1> HIDE DEF override, event, about, id
<1>5. Fresh(q, {override, event})
  <2>1. \A r \in {override, event} : NamedForTable(r) /\ r.id[1] = q /\ AsCalled(r, q)
    BY <1>1, <1>2 DEF NamedForTable, AsCalled
  <2>2. override.id[2] # event.id[2]
    BY <1>1, <1>2
  <2>3. Tells(event, override)
    BY <1>1, <1>2 DEF Tells
  <2>4. Told({override, event}, {override, event})
    BY <1>2, <2>3 DEF Told, Announced
  <2> QED
    BY <2>1, <2>2, <2>4 DEF Fresh
<1>6. ~OfOperator(q) /\ Needs(call[q]) = {call[q].variant} \cup ({call[q].store} \ {None})
  BY DEF SetOverride, OfOperator, Needs
<1>7. at[q] = "write" => Fits({override, event}, rows \cup {override, event})
  <2>1. at[q] = "write" => Known(q)
    BY DEF StoreInv, CallerInv, Caller
  <2> QED
    BY <1>1, <1>2, <1>4, <1>6, <2>1, FitsHere DEF Known
<1>8. at[q] = "read" /\ Found(q, "variants", call[q].variant) /\ StoreKnown(q) => Known(q)
  BY <1>6, FoundIsHere, StoreKnownIsHere DEF Known
<1> QED
  BY <1>3, <1>5, <1>6, <1>7, <1>8, AdmitIsStep, InsertKnowingIsStep DEF SetOverride, OverrideKnown

LEMMA MovementRowsFit ==
  ASSUME ApiInv, StoreInv, NEW q \in Requests, at[q] \in {"read", "write"}, Known(q),
         call[q].what = "move"
  PROVE  /\ Fresh(q, MovementRows(q)) /\ Fits(MovementRows(q), rows \cup MovementRows(q))
         /\ \A r \in MovementRows(q) :
              r.tenant = tenant[q] /\ r.table \notin {"users", "inventory"} /\ r.keys = {}
<1> DEFINE about == {call[q].variant, call[q].warehouse}
           movement == Row(Id(q, "stock_movements"), "stock_movements", tenant[q], {},
                           {tenant[q]} \cup about, TRUE)
           event == Event(q, tenant[q], about)
<1>1. /\ movement.id = <<q, "stock_movements">> /\ movement.table = "stock_movements"
      /\ movement.tenant = tenant[q] /\ movement.refs = {tenant[q]} \cup about
      /\ movement.keys = {}
  BY DEF Id, Row
<1>2. /\ event.id = <<q, "outbox_events", about>> /\ event.table = "outbox_events"
      /\ event.tenant = tenant[q] /\ event.refs = about /\ event.keys = {}
  BY EventFields
<1>3. MovementRows(q) = {movement, event}
  BY DEF MovementRows
<1>4. ~OfOperator(q) /\ Needs(call[q]) = about
  BY DEF OfOperator, Needs
<1> HIDE DEF movement, event, about
<1>5. Fresh(q, {movement, event})
  <2>1. \A r \in {movement, event} : NamedForTable(r) /\ r.id[1] = q /\ AsCalled(r, q)
    BY <1>1, <1>2 DEF NamedForTable, AsCalled
  <2>2. movement.id[2] # event.id[2]
    BY <1>1, <1>2
  <2>3. Tells(event, movement)
    BY <1>1, <1>2 DEF Tells
  <2>4. Told({movement, event}, {movement, event})
    BY <1>2, <2>3 DEF Told, Announced
  <2> QED
    BY <2>1, <2>2, <2>4 DEF Fresh
<1>6. Fits({movement, event}, rows \cup {movement, event})
  BY <1>1, <1>2, <1>4, FitsHere DEF Known
<1> QED
  BY <1>1, <1>2, <1>3, <1>5, <1>6

LEMMA MoveIsStep == ASSUME ApiInv, StoreInv, NEW q \in Requests, Move(q) PROVE CallStep(q)
<1>1. ~OfOperator(q) /\ Needs(call[q]) = {call[q].variant, call[q].warehouse}
      /\ call[q].what = "move"
  BY DEF Move, OfOperator, Needs
<1>2. at[q] = "read" /\ Found(q, "variants", call[q].variant)
        /\ Found(q, "warehouses", call[q].warehouse) => Known(q)
  BY <1>1, FoundIsHere DEF Known
<1>3. LET r == LevelRow(q) IN
        /\ r.id = <<q, "inventory">> /\ r.table = "inventory" /\ r.tenant = tenant[q]
        /\ r.refs = {tenant[q], call[q].variant, call[q].warehouse}
  BY DEF LevelRow, Id, Row
<1>4. ASSUME at[q] = "write" PROVE /\ Fresh(q, {LevelRow(q)} \cup MovementRows(q))
                                   /\ Fits({LevelRow(q)} \cup MovementRows(q),
                                           rows \cup ({LevelRow(q)} \cup MovementRows(q)))
  <2>1. Known(q)
    BY <1>4 DEF StoreInv, CallerInv, Caller
  <2>2. /\ Fresh(q, MovementRows(q)) /\ Fits(MovementRows(q), rows \cup MovementRows(q))
        /\ \A r \in MovementRows(q) : r.table # "inventory"
    BY <1>1, <1>4, <2>1, MovementRowsFit
  <2>3. NamedForTable(LevelRow(q)) /\ LevelRow(q).id[1] = q /\ AsCalled(LevelRow(q), q)
        /\ LevelRow(q).table \notin Announced
    BY <1>3 DEF NamedForTable, AsCalled, Announced
  <2>4. \A r \in MovementRows(q) : r.id # LevelRow(q).id
    BY <1>3, <2>2 DEF Fresh, NamedForTable
  <2>5. Fresh(q, {LevelRow(q)} \cup MovementRows(q))
    BY <2>2, <2>3, <2>4 DEF Fresh, Told
  <2>6. Fits({LevelRow(q)}, rows \cup {LevelRow(q)})
    BY <1>1, <1>3, <1>4, <2>1, FitsHere DEF Known
  <2>7. Fits({LevelRow(q)} \cup MovementRows(q), rows \cup ({LevelRow(q)} \cup MovementRows(q)))
    BY <2>2, <2>6 DEF Fits
  <2> QED
    BY <2>5, <2>7
<1>5. ASSUME at[q] = "read", Known(q), Update(q, Levels(q), MovementRows(q)) PROVE CallStep(q)
  <2>1. \A r \in Levels(q) : r \in Visible(q) /\ r \in rows /\ r.table = "inventory" /\ NamedForTable(r)
    BY <1>1, <1>5, SeesItsTenant DEF Levels, Of
  <2>2. \A r \in Levels(q) : Changed(q, r)
    BY <2>1 DEF Changed, WrittenOnce
  <2>3. \A r, s \in Levels(q) : r.id = s.id => r = s
    BY <2>1 DEF StoreInv, LockInv, Unique
  <2> QED
    BY <1>1, <1>5, <2>2, <2>3, MovementRowsFit, UpdateIsStep
<1> QED
  BY <1>1, <1>2, <1>4, <1>5, AdmitIsStep, RefuseIsStep, ProceedIsStep, InsertIsStep DEF Move, MoveKnown

LEMMA OpenShiftIsStep ==
  ASSUME ApiInv, StoreInv, NEW q \in Requests, OpenShift(q) PROVE CallStep(q)
<1> DEFINE till == ShiftRow(Id(q, "shifts"), tenant[q], call[q].store, call[q].cashier)
<1>1. /\ till.id = <<q, "shifts">> /\ till.table = "shifts" /\ till.tenant = tenant[q]
      /\ till.refs = {tenant[q], call[q].store, call[q].cashier}
  BY DEF ShiftRow, Id, Row
<1> HIDE DEF till
<1>2. Fresh(q, {till})
  BY <1>1 DEF Fresh, NamedForTable, AsCalled, Told, Announced
<1>3. ~OfOperator(q) /\ Needs(call[q]) = {call[q].store, call[q].cashier}
  BY DEF OpenShift, OfOperator, Needs
<1>4. at[q] = "write" => Fits({till}, rows \cup {till})
  <2>1. at[q] = "write" => Known(q)
    BY DEF StoreInv, CallerInv, Caller
  <2> QED
    BY <1>1, <1>3, <2>1, FitsHere DEF Known
<1>5. at[q] = "read" /\ Found(q, "stores", call[q].store) /\ Found(q, "users", call[q].cashier)
        => Known(q)
  BY <1>3, FoundIsHere DEF Known
<1> QED
  BY <1>2, <1>3, <1>4, <1>5, AdmitIsStep, InsertKnowingIsStep DEF OpenShift, till

LEMMA CloseShiftIsStep ==
  ASSUME ApiInv, StoreInv, NEW q \in Requests, CloseShift(q) PROVE CallStep(q)
<1> DEFINE read == Named(q, "shifts", call[q].shift)
           closed == {[s EXCEPT !.on = FALSE, !.keys = {}] : s \in read}
<1>1. ~OfOperator(q) /\ Known(q)
  BY DEF CloseShift, OfOperator, Known, Needs
<1>2. CASE at[q] = "write" /\ Update(q, closed, {})
  <2>1. \A r \in read : /\ r \in Visible(q) /\ r \in rows /\ r.table = "shifts"
                        /\ r.id = call[q].shift /\ NamedForTable(r)
    BY <1>1, <1>2, SeesItsTenant DEF Named, Of
  <2>2. \A r \in read : Changed(q, [r EXCEPT !.on = FALSE, !.keys = {}])
    <3> TAKE r \in read
    <3>1. PICK s : s = [r EXCEPT !.on = FALSE, !.keys = {}]
      OBVIOUS
    <3>2. /\ s.id = r.id /\ s.table = r.table /\ s.tenant = r.tenant /\ s.refs = r.refs
          /\ s.keys \subseteq r.keys
      BY <3>1
    <3> QED
      BY <2>1, <3>1, <3>2 DEF Changed, WrittenOnce
  <2>3. \A t \in closed : Changed(q, t)
    BY <2>2
  <2>4. \A r, s \in read : r = s
    BY <2>1 DEF StoreInv, LockInv, Unique
  <2>5. \A t, u \in closed : t = u
    BY <2>4
  <2> HIDE DEF closed
  <2> QED
    BY <1>2, <2>3, <2>5, PlainUpdateIsStep
<1> QED
  BY <1>1, <1>2, AdmitIsStep, RefuseIsStep, ProceedIsStep DEF CloseShift, CloseKnown

LEMMA RecordCashIsStep ==
  ASSUME ApiInv, StoreInv, NEW q \in Requests, RecordCash(q) PROVE CallStep(q)
<1>1. LET r == CashRow(q) IN
        /\ r.id = <<q, "cash_movements">> /\ r.table = "cash_movements" /\ r.tenant = tenant[q]
        /\ r.refs = {tenant[q], call[q].shift}
  BY DEF CashRow, Id, Row
<1>2. Fresh(q, {CashRow(q)})
  BY <1>1 DEF Fresh, NamedForTable, AsCalled, Told, Announced
<1>3. ~OfOperator(q) /\ Needs(call[q]) = {call[q].shift}
  BY DEF RecordCash, OfOperator, Needs
<1>4. at[q] = "write" => Fits({CashRow(q)}, rows \cup {CashRow(q)})
  <2>1. at[q] = "write" => Known(q)
    BY DEF StoreInv, CallerInv, Caller
  <2> QED
    BY <1>1, <1>3, <2>1, FitsHere DEF Known
<1>5. at[q] = "read" /\ Named(q, "shifts", call[q].shift) # {} => Known(q)
  BY <1>3, FoundIsHere DEF Known, Found
<1> QED
  BY <1>2, <1>3, <1>4, <1>5, AdmitIsStep, RefuseIsStep, InsertKnowingIsStep DEF RecordCash, RecordKnown

LEMMA TradeCallIsStep ==
  ASSUME ApiInv, StoreInv, NEW q \in Requests, TradeCall(q) PROVE CallStep(q)
<1>1. CASE ResolvePrice(q)
  BY <1>1, AdmitIsStep, GetIsStep DEF ResolvePrice, OfOperator
<1>2. CASE CreateWarehouse(q)
  <2> DEFINE row == Row(Id(q, "warehouses"), "warehouses", tenant[q], {}, {tenant[q]}, TRUE)
  <2>1. /\ row.id = <<q, "warehouses">> /\ row.table = "warehouses" /\ row.tenant = tenant[q]
        /\ row.refs = {tenant[q]}
    BY DEF Id, Row
  <2> HIDE DEF row
  <2>2. Fresh(q, {row})
    BY <2>1 DEF Fresh, NamedForTable, AsCalled, Told, Announced
  <2>3. ~OfOperator(q) /\ Needs(call[q]) = {}
    BY <1>2 DEF CreateWarehouse, OfOperator, Needs
  <2>4. at[q] = "write" => Fits({row}, rows \cup {row})
    BY <2>1, <2>3, FitsHere
  <2> QED
    BY <1>2, <2>2, <2>3, <2>4, AdmitIsStep, InsertIsStep DEF CreateWarehouse, row
<1>3. CASE ListStock(q)
  BY <1>3, AdmitIsStep, ListIsStep DEF ListStock, OfOperator
<1>4. CASE ReadShifts(q)
  BY <1>4, AdmitIsStep, ListIsStep, GetIsStep DEF ReadShifts, OfOperator
<1> QED
  BY <1>1, <1>2, <1>3, <1>4, SetOverrideIsStep, MoveIsStep, OpenShiftIsStep, CloseShiftIsStep,
     RecordCashIsStep DEF TradeCall

(***************************************************************************)
(* The steps keep the invariant.                                           *)
(***************************************************************************)
LEMMA ConnsAreNotNone == None \notin Conns
BY NoneAssumption DEF Conns

(* Where the settings of one connection are all that a step leaves.        *)
LEMMA LeaveKeeps ==
  ASSUME ApiInv, NEW q \in Requests, Leave(q), at' = [at EXCEPT ![q] = "done"],
         UsersStay', \A u \in Of("users", rows) : u \in rows',
         UNCHANGED <<call, tenant>>
  PROVE  ApiInv'
<1>1. \A p \in Requests : /\ at'[p] = IF p = q THEN "done" ELSE at[p]
                          /\ own'[p] = IF p = q THEN {} ELSE own[p]
                          /\ conn'[p] = IF p = q THEN None ELSE conn[p]
  BY DEF Leave, ApiInv, Functions
<1>2. \A c \in Conns : scope'[c] = IF c = conn[q] THEN LoginScope(c) ELSE scope[c]
  BY DEF Leave
<1>3. Functions'
  BY DEF Leave, ApiInv, Functions
<1>4. \A p \in Requests : Running(p)' <=> Running(p) /\ p # q
  BY <1>1 DEF Running
<1>5. PoolInv'
  <2>1. /\ \A p \in Requests : conn'[p] # None <=> Running(p)'
        /\ \A p, r \in Requests : conn'[p] # None /\ conn'[p] = conn'[r] => p = r
    BY <1>1, <1>4 DEF ApiInv, PoolInv
  <2>2. ASSUME NEW c \in Conns, \A p \in Requests : conn'[p] # c PROVE scope'[c] = LoginScope(c)
    <3>1. CASE c = conn[q]
      BY <1>2, <3>1
    <3>2. CASE c # conn[q]
      BY <1>1, <1>2, <2>2, <3>2 DEF ApiInv, PoolInv
    <3> QED
      BY <3>1, <3>2
  <2>3. \A c \in Conns : (\A p \in Requests : conn'[p] # c) => LoginScope(c)' = scope'[c]
    BY <2>2 DEF LoginScope
  <2> QED
    BY <2>1, <2>3 DEF PoolInv
<1>6. ScopeInv'
  <2> SUFFICES ASSUME NEW p \in Requests, Running(p), p # q
               PROVE  IF IsSuperAdmin(call[p])
                        THEN scope'[conn'[p]].role = "owner"
                        ELSE /\ scope'[conn'[p]] = [role |-> "posnet_app", tenant |-> tenant[p]]
                             /\ \E u \in ActiveUsers(call[p].subject)' : u.tenant = tenant[p]
    BY <1>4 DEF ScopeInv, IsSuperAdmin
  <2>1. conn[p] # None /\ conn'[p] = conn[p] /\ conn[p] # conn[q]
    BY <1>1 DEF ApiInv, PoolInv
  <2>2. scope'[conn'[p]] = scope[conn[p]]
    BY <1>2, <2>1 DEF ApiInv, Functions
  <2>3. ActiveUsers(call[p].subject) \subseteq ActiveUsers(call[p].subject)'
    BY DEF ActiveUsers, Of, HasSubject
  <2> QED
    BY <2>2, <2>3 DEF ApiInv, ScopeInv
<1>7. OwnInv'
  BY <1>1, <1>4 DEF ApiInv, OwnInv, IsSuperAdmin
<1> QED
  BY <1>3, <1>5, <1>6, <1>7 DEF ApiInv

(* Refused or lost.                                                        *)
LEMMA EndKeeps ==
  ASSUME ApiInv, NEW q \in Requests, RefuseStep(q) \/ Crash(q) PROVE ApiInv'
<1>1. Leave(q) /\ at' = [at EXCEPT ![q] = "done"] /\ UNCHANGED <<rows, call, tenant>>
  BY DEF RefuseStep, Refuse, Crash
<1>2. UsersStay'
  BY <1>1 DEF Leave, ApiInv, UsersStay, Functions, NamedForTable
<1> QED
  BY <1>1, <1>2, LeaveKeeps DEF Of

(* A commit replaces no user: the users it writes are new.                 *)
LEMMA CommitKeeps == ASSUME ApiInv, NEW q \in Requests, Commit(q) PROVE ApiInv'
<1>1. /\ at[q] = "commit" /\ at' = [at EXCEPT ![q] = "done"] /\ Leave(q)
      /\ rows' = {r \in rows : r.id \notin Ids(own[q])} \cup own[q]
      /\ UNCHANGED <<call, tenant>>
  BY DEF Commit
<1>2. ASSUME NEW u \in Of("users", rows) PROVE u \in rows'
  <2>1. u \in rows /\ u.table = "users" /\ NamedForTable(u)
    BY DEF Of, ApiInv, UsersStay
  <2>2. ASSUME NEW r \in own[q], r.id = u.id PROVE FALSE
    <3>1. r.table = "users" /\ r.id[1] = q
      BY <2>1, <2>2 DEF ApiInv, UsersStay, NamedForTable
    <3> QED
      BY <1>1, <2>1, <2>2, <3>1 DEF ApiInv, UsersStay
  <2> QED
    BY <1>1, <2>1, <2>2 DEF Ids
<1>3. UsersStay'
  <2>1. /\ \A p \in Requests : at'[p] = IF p = q THEN "done" ELSE at[p]
        /\ \A p \in Requests : own'[p] = IF p = q THEN {} ELSE own[p]
    BY <1>1 DEF Leave, ApiInv, Functions
  <2> QED
    BY <1>1, <2>1 DEF ApiInv, UsersStay, NamedForTable
<1> QED
  BY <1>1, <1>2, <1>3, LeaveKeeps

(* Where a transaction goes on on its connection.                          *)
LEMMA GoOnKeeps ==
  ASSUME ApiInv, NEW q \in Requests, NEW to \in {"read", "write", "reply", "commit"}, Running(q),
         at' = [at EXCEPT ![q] = to], own' = [own EXCEPT ![q] = own'[q]],
         \A r \in own'[q] : NamedForTable(r) /\ (r.table = "users" => r.id[1] = q),
         ~IsSuperAdmin(call[q]) => \A r \in own'[q] : r.tenant = tenant[q],
         UNCHANGED <<rows, call, conn, scope, tenant>>
  PROVE  ApiInv'
<1>1. \A p \in Requests : /\ at'[p] = IF p = q THEN to ELSE at[p]
                          /\ p # q => own'[p] = own[p]
  BY DEF ApiInv, Functions
<1>2. \A p \in Requests : Running(p)' <=> Running(p)
  BY <1>1 DEF Running
<1>3. Functions'
  BY DEF ApiInv, Functions
<1>4. PoolInv'
  BY <1>2 DEF ApiInv, PoolInv, LoginScope
<1>5. ScopeInv'
  BY <1>2 DEF ApiInv, ScopeInv, IsSuperAdmin, ActiveUsers, HasSubject, Of
<1>6. UsersStay'
  BY <1>1 DEF ApiInv, UsersStay, NamedForTable, Running
<1>7. OwnInv'
  BY <1>1, <1>2 DEF ApiInv, OwnInv, IsSuperAdmin
<1> QED
  BY <1>3, <1>4, <1>5, <1>6, <1>7 DEF ApiInv

LEMMA MoveOnKeeps ==
  ASSUME ApiInv, NEW q \in Requests, at[q] \in {"read", "write"}, MoveStep(q) PROVE ApiInv'
<1>1. Running(q)
  BY DEF Running
<1>2. PICK to \in {"read", "write", "reply", "commit"} : Proceed(q, to)
  BY DEF MoveStep, Through
<1>3. own' = own
  BY DEF MoveStep
<1> QED
  BY <1>1, <1>2, <1>3, GoOnKeeps DEF Proceed, ApiInv, Functions, UsersStay, OwnInv

LEMMA InsertKeeps ==
  ASSUME ApiInv, NEW q \in Requests, at[q] \in {"read", "write"}, InsertStep(q) PROVE ApiInv'
<1>1. Running(q)
  BY DEF Running
<1>2. PICK new : /\ own' = [own EXCEPT ![q] = @ \cup new]
                 /\ Fresh(q, new) /\ Checked(q, new) /\ Through(q)
  BY DEF InsertStep
<1>3. PICK to \in {"read", "write", "reply", "commit"} : Proceed(q, to)
  BY <1>2 DEF Through
<1>4. own'[q] = own[q] \cup new /\ own' = [own EXCEPT ![q] = own'[q]]
  BY <1>2 DEF ApiInv, Functions
<1>5. \A r \in own'[q] : NamedForTable(r) /\ (r.table = "users" => r.id[1] = q)
  BY <1>2, <1>4 DEF Fresh, ApiInv, UsersStay
<1>6. ASSUME ~IsSuperAdmin(call[q]) PROVE \A r \in own'[q] : r.tenant = tenant[q]
  <2>1. \A r \in new : r.tenant = tenant[q]
    BY <1>1, <1>2, <1>6, Scoped DEF Checked
  <2> QED
    BY <1>1, <1>4, <1>6, <2>1 DEF ApiInv, OwnInv
<1> QED
  BY <1>1, <1>3, <1>4, <1>5, <1>6, GoOnKeeps DEF Proceed

LEMMA UpdateKeeps ==
  ASSUME ApiInv, NEW q \in Requests, at[q] \in {"read", "write"}, UpdateStep(q) PROVE ApiInv'
<1>1. Running(q)
  BY DEF Running
<1>2. PICK changed, new :
        /\ own' = [own EXCEPT ![q] = @ \cup changed \cup new]
        /\ Fresh(q, new) /\ \A r \in new : r.tenant = tenant[q] /\ r.table # "users"
        /\ \A t \in changed : Changed(q, t)
        /\ Through(q)
  BY DEF UpdateStep
<1>3. PICK to \in {"read", "write", "reply", "commit"} : Proceed(q, to)
  BY <1>2 DEF Through
<1>4. own'[q] = own[q] \cup changed \cup new /\ own' = [own EXCEPT ![q] = own'[q]]
  BY <1>2 DEF ApiInv, Functions
<1>5. \A r \in own'[q] : NamedForTable(r) /\ (r.table = "users" => r.id[1] = q)
  BY <1>2, <1>4 DEF Fresh, ApiInv, UsersStay, Changed, NamedForTable, WrittenOnce
<1>6. ASSUME ~IsSuperAdmin(call[q]) PROVE \A r \in own'[q] : r.tenant = tenant[q]
  <2>1. \A s \in Visible(q) : s.tenant = tenant[q]
    BY <1>1, <1>6, Scoped DEF Visible
  <2> QED
    BY <1>1, <1>2, <1>4, <1>6, <2>1 DEF ApiInv, OwnInv, Changed
<1> QED
  BY <1>1, <1>3, <1>4, <1>5, <1>6, GoOnKeeps DEF Proceed

(* A connection is taken: it was nobody's, so it is unscoped.              *)
LEMMA EnterKeeps ==
  ASSUME ApiInv, NEW q \in Requests, EnterStep(q) PROVE ApiInv'
<1>1. PICK next \in {"read", "write"} :
        \/ EnterTenant(q, next)
        \/ EnterSystem(q, SystemConns, next) \/ EnterSystem(q, ScriptConns, next)
  BY DEF EnterStep
<1>2. PICK c \in Conns :
        /\ \A p \in Requests : conn[p] # c
        /\ conn' = [conn EXCEPT ![q] = c] /\ at' = [at EXCEPT ![q] = next]
        /\ at[q] = "enter" /\ UNCHANGED <<rows, own, call>>
        /\ \/ /\ IsSuperAdmin(call[q]) /\ c \in SystemConns \cup ScriptConns
              /\ UNCHANGED <<scope, tenant>>
           \/ /\ ~IsSuperAdmin(call[q])
              /\ \E u \in ActiveUsers(call[q].subject) :
                   /\ tenant' = [tenant EXCEPT ![q] = u.tenant]
                   /\ scope' = [scope EXCEPT ![conn'[q]] =
                                  [role |-> "posnet_app", tenant |-> u.tenant]]
  BY <1>1 DEF EnterTenant, EnterSystem, Take, Conns
<1>3. \A p \in Requests : /\ at'[p] = IF p = q THEN next ELSE at[p]
                          /\ conn'[p] = IF p = q THEN c ELSE conn[p]
  BY <1>2 DEF ApiInv, Functions
<1>4. /\ \A d \in Conns \ {c} : scope'[d] = scope[d]
      /\ \A p \in Requests \ {q} : tenant'[p] = tenant[p]
  BY <1>2, <1>3 DEF ApiInv, Functions
<1>5. \A p \in Requests : Running(p)' <=> Running(p) \/ p = q
  BY <1>3 DEF Running
<1>6. Functions'
  BY <1>2 DEF ApiInv, Functions
<1>7. PoolInv'
  <2>1. \A p \in Requests : conn'[p] # None <=> Running(p)'
    BY <1>3, <1>5, ConnsAreNotNone DEF ApiInv, PoolInv
  <2>2. \A p, r \in Requests : conn'[p] # None /\ conn'[p] = conn'[r] => p = r
    BY <1>2, <1>3 DEF ApiInv, PoolInv
  <2>3. ASSUME NEW d \in Conns, \A p \in Requests : conn'[p] # d PROVE scope'[d] = LoginScope(d)
    <3>1. d # c /\ \A p \in Requests : conn[p] # d
      <4>1. d # c
        BY <1>3, <2>3
      <4>2. conn[q] # d
        BY <1>2, ConnsAreNotNone DEF ApiInv, PoolInv, Running
      <4> QED
        BY <1>3, <2>3, <4>1, <4>2
    <3> QED
      BY <1>4, <3>1 DEF ApiInv, PoolInv
  <2> QED
    BY <2>1, <2>2, <2>3 DEF PoolInv, LoginScope
<1>8. ScopeInv'
  <2>1. ASSUME NEW p \in Requests, Running(p)'
        PROVE  IF IsSuperAdmin(call[p])
                 THEN scope'[conn'[p]].role = "owner"
                 ELSE /\ scope'[conn'[p]] = [role |-> "posnet_app", tenant |-> tenant'[p]]
                      /\ \E u \in ActiveUsers(call[p].subject) : u.tenant = tenant'[p]
    <3>1. CASE p # q
      <4>1. conn[p] \in Conns \ {c} /\ Running(p)
        BY <1>2, <1>5, <2>1, <3>1 DEF ApiInv, Functions, PoolInv
      <4> QED
        BY <1>3, <1>4, <3>1, <4>1 DEF ApiInv, ScopeInv
    <3>2. CASE p = q /\ IsSuperAdmin(call[q])
      <4>1. scope[c] = LoginScope(c)
        BY <1>2 DEF ApiInv, PoolInv
      <4> QED
        BY <1>2, <1>3, <3>2, <4>1 DEF LoginScope
    <3>3. CASE p = q /\ ~IsSuperAdmin(call[q])
      BY <1>2, <1>3, <3>3 DEF ApiInv, Functions
    <3> QED
      BY <3>1, <3>2, <3>3
  <2>2. \A subject : ActiveUsers(subject)' = ActiveUsers(subject)
    BY <1>2 DEF ActiveUsers, HasSubject, Of
  <2> QED
    BY <1>2, <2>1, <2>2 DEF ScopeInv, IsSuperAdmin
<1>9. UsersStay'
  BY <1>2, <1>3 DEF ApiInv, UsersStay, NamedForTable
<1>10. OwnInv'
  BY <1>2, <1>4, <1>5 DEF ApiInv, OwnInv, IsSuperAdmin, Running
<1> QED
  BY <1>6, <1>7, <1>8, <1>9, <1>10 DEF ApiInv

LEMMA BeginKeeps == ASSUME ApiInv, NEW q \in Requests, Receive(q) PROVE ApiInv'
<1>1. /\ at[q] = "idle" /\ at' = [at EXCEPT ![q] = "enter"]
      /\ \E c : call' = [call EXCEPT ![q] = c]
      /\ UNCHANGED <<rows, own, conn, scope, tenant>>
  BY DEF Receive
<1>2. \A p \in Requests : /\ at'[p] = IF p = q THEN "enter" ELSE at[p]
                          /\ p # q => call'[p] = call[p]
  BY <1>1 DEF ApiInv, Functions
<1>3. \A p \in Requests : Running(p)' <=> Running(p)
  BY <1>1, <1>2 DEF Running
<1>4. Functions'
  BY <1>1 DEF ApiInv, Functions
<1>5. PoolInv'
  BY <1>1, <1>3 DEF ApiInv, PoolInv, LoginScope
<1>6. \A p \in Requests : Running(p) => call'[p] = call[p]
  BY <1>1, <1>2 DEF Running
<1>7. ScopeInv'
  BY <1>1, <1>3, <1>6 DEF ApiInv, ScopeInv, IsSuperAdmin, ActiveUsers, HasSubject, Of
<1>8. UsersStay'
  BY <1>1, <1>2 DEF ApiInv, UsersStay, NamedForTable
<1>9. OwnInv'
  BY <1>1, <1>3, <1>6 DEF ApiInv, OwnInv, IsSuperAdmin
<1> QED
  BY <1>4, <1>5, <1>7, <1>8, <1>9 DEF ApiInv

LEMMA AnswerKeeps == ASSUME ApiInv, NEW q \in Requests, Reply(q) PROVE ApiInv'
<1>1. /\ Running(q) /\ at' = [at EXCEPT ![q] = "commit"]
      /\ UNCHANGED <<rows, own, call, conn, scope, tenant>>
  BY DEF Reply, Running
<1> QED
  BY <1>1, GoOnKeeps DEF ApiInv, Functions, UsersStay, OwnInv

(***************************************************************************)
(* The steps keep what is known of the rows.                               *)
(***************************************************************************)
(* Nothing is written: a transaction goes on, or its rows are dropped.     *)
LEMMA QuietKeeps ==
  ASSUME ApiInv, StoreInv, NEW q \in Requests, at[q] # "done", rows' = rows,
         \A p \in Requests \ {q} : /\ at'[p] = at[p] /\ own'[p] = own[p]
                                   /\ call'[p] = call[p] /\ tenant'[p] = tenant[p],
         own'[q] \in {own[q], {}},
         at'[q] \in {"read", "write"} => own'[q] = {},
         own'[q] # {} => call'[q] = call[q] /\ tenant'[q] = tenant[q],
         Caller(q)'
  PROVE  StoreInv'
<1>1. MadeInv'
  <2>1. ASSUME NEW r \in rows, r.id[1] \in Requests
        PROVE  at'[r.id[1]] = "done" /\ AsCalled(r, r.id[1])'
    <3>1. r.id[1] # q /\ at[r.id[1]] = "done" /\ AsCalled(r, r.id[1])
      BY <2>1 DEF StoreInv, MadeInv
    <3> QED
      BY <2>1, <3>1 DEF AsCalled, Given
  <2>2. ASSUME NEW p \in Requests, NEW r \in own'[p] PROVE AsCalled(r, p)'
    <3>1. r \in own[p] /\ call'[p] = call[p] /\ tenant'[p] = tenant[p]
      BY <2>2
    <3>2. AsCalled(r, p)
      BY <3>1 DEF StoreInv, MadeInv
    <3> QED
      BY <3>1, <3>2 DEF AsCalled, Given
  <2>3. \A p \in Requests : at'[p] \in {"read", "write"} => own'[p] = {}
    BY DEF StoreInv, MadeInv
  <2>4. \A p \in Requests : \A r \in own'[p] : r.id[1] # p => r.table \notin WrittenOnce /\ r.id \in Ids(rows)
    BY DEF StoreInv, MadeInv
  <2> QED
    BY <2>1, <2>2, <2>3, <2>4 DEF StoreInv, MadeInv, Ids
<1>2. \A p \in Requests : own'[p] = own[p] \/ own'[p] = {}
  OBVIOUS
<1>3. LockInv'
  BY <1>2 DEF StoreInv, LockInv, Unique
<1>4. ReferInv'
  BY <1>2 DEF StoreInv, ReferInv, Fits, Told
<1>5. CallerInv'
  <2>1. ASSUME NEW p \in Requests \ {q} PROVE Caller(p)'
    BY DEF StoreInv, CallerInv, Caller, Running, IsSuperAdmin, OfOperator, Here, Known
  <2> QED
    BY <2>1 DEF CallerInv
<1> QED
  BY <1>1, <1>3, <1>4, <1>5 DEF StoreInv

(* A transaction writes its rows.                                          *)
LEMMA WriteKeeps ==
  ASSUME ApiInv, StoreInv, NEW q \in Requests, at[q] \in {"read", "write"}, NEW new,
         UNCHANGED <<rows, call, tenant>>,
         \A p \in Requests \ {q} : at'[p] = at[p] /\ own'[p] = own[p],
         at'[q] \in {"reply", "commit"}, own'[q] = new,
         Unique(new), Fits(new, rows \cup new), Told(new, rows \cup new),
         \A r \in new : /\ r.id[1] # q => r.table \notin WrittenOnce /\ r.id \in Ids(rows)
                        /\ AsCalled(r, q),
         \A p \in Requests \ {q} : \A r \in new, s \in own[p] :
           r.id # s.id /\ r.keys \cap s.keys = {},
         \A r \in new, s \in rows : /\ r.keys \cap s.keys # {} => r.id = s.id
                                    /\ r.id = s.id => r.tenant = s.tenant
  PROVE  StoreInv'
<1>1. MadeInv'
  <2>1. \A p \in Requests : at[p] = "done" => at'[p] = "done"
    OBVIOUS
  <2>2. \A r, p : AsCalled(r, p)' <=> AsCalled(r, p)
    BY DEF AsCalled, Given
  <2> QED
    BY <2>1, <2>2 DEF StoreInv, MadeInv, Ids
<1>2. LockInv'
  <2>1. ASSUME NEW p \in Requests, NEW u \in Requests, NEW r \in own'[p], NEW s \in own'[u],
               r.id = s.id \/ r.keys \cap s.keys # {}
        PROVE  p = u
    <3>1. CASE p # q /\ u # q
      BY <2>1, <3>1 DEF StoreInv, LockInv
    <3>2. CASE p = q /\ u # q
      BY <2>1, <3>2
    <3>3. CASE p # q /\ u = q
      <4>1. s.id # r.id /\ s.keys \cap r.keys = {}
        BY <3>3
      <4> QED
        BY <2>1, <4>1
    <3> QED
      BY <3>1, <3>2, <3>3
  <2> QED
    BY <2>1 DEF StoreInv, LockInv, Unique
<1>3. ReferInv'
  <2>1. /\ Fits(own'[q], rows \cup own'[q]) /\ Told(own'[q], rows \cup own'[q])
        /\ \A p \in Requests \ {q} : /\ Fits(own'[p], rows \cup own'[p])
                                      /\ Told(own'[p], rows \cup own'[p])
    BY DEF StoreInv, ReferInv
  <2>2. Fits(rows, rows) /\ Told(rows, rows)
    BY DEF StoreInv, ReferInv
  <2>3. \A p \in Requests : /\ Fits(own'[p], rows' \cup own'[p])
                             /\ Told(own'[p], rows' \cup own'[p])
    BY <2>1
  <2>4. Fits(rows', rows') /\ Told(rows', rows')
    BY <2>2
  <2> QED
    BY <2>3, <2>4 DEF ReferInv, Fits, Told, Tells
<1>4. CallerInv'
  <2>1. \A p \in Requests : Running(p)' <=> Running(p)
    BY DEF Running
  <2>2. \A p \in Requests : at'[p] = "write" => at[p] = "write"
    OBVIOUS
  <2> QED
    BY <2>1, <2>2 DEF StoreInv, CallerInv, Caller, IsSuperAdmin, OfOperator, Here, Known
<1> QED
  BY <1>1, <1>2, <1>3, <1>4 DEF StoreInv

LEMMA InsertKeepsStore ==
  ASSUME ApiInv, StoreInv, NEW q \in Requests, at[q] \in {"read", "write"}, InsertStep(q)
  PROVE  StoreInv'
<1>1. PICK new : /\ own' = [own EXCEPT ![q] = @ \cup new]
                 /\ Fresh(q, new) /\ Fits(new, rows \cup new)
                 /\ Awaited(q, new) = {} /\ ~Violates(q, new) /\ Through(q)
  BY DEF InsertStep
<1>2. own[q] = {}
  BY DEF StoreInv, MadeInv
<1>3. own'[q] = new /\ \A p \in Requests \ {q} : own'[p] = own[p]
  BY <1>1, <1>2 DEF ApiInv, Functions
<1>4. /\ at'[q] \in {"reply", "commit"} /\ \A p \in Requests \ {q} : at'[p] = at[p]
      /\ UNCHANGED <<rows, call, tenant>>
  BY <1>1 DEF Through, Proceed, ApiInv, Functions
<1>5. Unique(new)
  BY <1>1 DEF Fresh, Violates, Unique
<1>6. \A s \in rows : s.id[1] # q
  BY DEF StoreInv, MadeInv
<1>7. ASSUME NEW p \in Requests \ {q}, NEW r \in new, NEW s \in own[p]
      PROVE  r.id # s.id /\ r.keys \cap s.keys = {}
  <2>1. r.id[1] = q
    BY <1>1 DEF Fresh
  <2>2. s.id[1] = p \/ s.id \in Ids(rows)
    BY DEF StoreInv, MadeInv
  <2>3. r.id # s.id
    BY <1>6, <2>1, <2>2 DEF Ids
  <2>4. p \notin Awaited(q, new)
    BY <1>1
  <2>5. s.keys \subseteq Keys(own[p] \cup {t \in rows : t.id \in Ids(own[p])}) /\ r.keys \subseteq Keys(new)
    BY DEF Keys
  <2> QED
    BY <2>3, <2>4, <2>5 DEF Awaited
<1>8. ASSUME NEW r \in new, NEW s \in rows PROVE r.keys \cap s.keys = {} /\ r.id # s.id
  <2>1. r.id[1] = q
    BY <1>1 DEF Fresh
  <2>2. r.keys \subseteq Keys(new) /\ s.keys \subseteq Keys(rows \cup own[q])
    BY DEF Keys
  <2>3. Keys(new) \cap Keys(rows \cup own[q]) = {}
    BY <1>1 DEF Violates
  <2> QED
    BY <1>6, <2>1, <2>2, <2>3
<1>9. Told(new, rows \cup new)
  BY <1>1 DEF Fresh, Told
<1>10. \A r \in new : r.id[1] = q /\ AsCalled(r, q)
  BY <1>1 DEF Fresh
<1> QED
  BY <1>1, <1>3, <1>4, <1>5, <1>7, <1>8, <1>9, <1>10, WriteKeeps

LEMMA UpdateKeepsStore ==
  ASSUME ApiInv, StoreInv, NEW q \in Requests, at[q] \in {"read", "write"}, UpdateStep(q)
  PROVE  StoreInv'
<1>1. PICK changed, new :
        /\ own' = [own EXCEPT ![q] = @ \cup changed \cup new]
        /\ Fresh(q, new) /\ Fits(new, rows \cup new)
        /\ \A r \in new : r.tenant = tenant[q] /\ r.table # "users" /\ r.keys = {}
        /\ \A t \in changed : Changed(q, t)
        /\ \A t, u \in changed : t.id = u.id => t = u
        /\ Unlocked(q, changed)
        /\ Through(q)
  BY DEF UpdateStep
<1>2. own[q] = {}
  BY DEF StoreInv, MadeInv
<1> DEFINE all == changed \cup new
<1>3. own'[q] = all /\ \A p \in Requests \ {q} : own'[p] = own[p]
  BY <1>1, <1>2 DEF ApiInv, Functions
<1>4. /\ at'[q] \in {"reply", "commit"} /\ \A p \in Requests \ {q} : at'[p] = at[p]
      /\ UNCHANGED <<rows, call, tenant>>
  BY <1>1 DEF Through, Proceed, ApiInv, Functions
<1> DEFINE Was(t, s) == /\ t.id = s.id /\ t.table = s.table /\ t.tenant = s.tenant
                        /\ t.refs = s.refs /\ t.keys \subseteq s.keys
<1>5. \A t \in changed : t.table \notin WrittenOnce /\ \E s \in rows : Was(t, s)
  BY <1>1, <1>2 DEF Changed, Visible
<1>6. \A r \in new : r.id[1] = q /\ AsCalled(r, q) /\ r.keys = {}
  BY <1>1 DEF Fresh
<1>7. \A s \in rows : s.id[1] # q
  BY DEF StoreInv, MadeInv
<1> HIDE DEF Was
<1>8. \A r, s \in rows : r.id = s.id \/ r.keys \cap s.keys # {} => r = s
  BY DEF StoreInv, LockInv, Unique
<1>9. Unique(all)
  <2>1. ASSUME NEW t \in changed, NEW u \in changed, t.keys \cap u.keys # {} PROVE t.id = u.id
    <3>1. PICK s \in rows, v \in rows : Was(t, s) /\ Was(u, v)
      BY <1>5
    <3>2. s.keys \cap v.keys # {}
      BY <2>1, <3>1 DEF Was
    <3> QED
      BY <1>8, <3>1, <3>2 DEF Was
  <2>2. \A t \in changed : t.id[1] # q
    BY <1>5, <1>7 DEF Was
  <2>3. ASSUME NEW r \in all, NEW s \in all, r.id = s.id \/ r.keys \cap s.keys # {} PROVE r = s
    <3>1. CASE r \in changed /\ s \in changed
      BY <1>1, <2>1, <2>3, <3>1
    <3>2. CASE r \in new /\ s \in new
      BY <1>1, <1>6, <2>3, <3>2 DEF Fresh
    <3>3. CASE r \in new /\ s \in changed
      BY <1>6, <2>2, <2>3, <3>3
    <3>4. CASE r \in changed /\ s \in new
      BY <1>6, <2>2, <2>3, <3>4
    <3> QED
      BY <3>1, <3>2, <3>3, <3>4
  <2> QED
    BY <2>3 DEF Unique
<1>10. Fits(all, rows \cup all)
  <2>1. ASSUME NEW t \in changed, NEW id \in t.refs \cup {t.tenant}
        PROVE  \E r \in rows \cup all : r.id = id /\ r.tenant = t.tenant
    <3>1. PICK s \in rows : Was(t, s)
      BY <1>5
    <3> QED
      BY <2>1, <3>1 DEF Was, StoreInv, ReferInv, Fits
  <2> QED
    BY <1>1, <2>1 DEF Fits
<1>11. Told(all, rows \cup all)
  <2>1. ASSUME NEW t \in changed, t.table \in Announced, t.id[1] \in Requests
        PROVE  \E e \in rows \cup all : Tells(e, t)
    <3>1. PICK s \in rows : Was(t, s)
      BY <1>5
    <3>2. PICK e \in rows : Tells(e, s)
      BY <2>1, <3>1 DEF Was, StoreInv, ReferInv, Told
    <3>3. Tells(e, t)
      BY <3>1, <3>2 DEF Was, Tells
    <3> QED
      BY <3>3
  <2> QED
    BY <1>1, <2>1 DEF Fresh, Told
<1>12. \A r \in all : /\ r.id[1] # q => r.table \notin WrittenOnce /\ r.id \in Ids(rows)
                      /\ AsCalled(r, q)
  <2>1. \A t \in changed : t.table \notin WrittenOnce /\ t.id \in Ids(rows)
    BY <1>5 DEF Was, Ids
  <2> QED
    BY <1>6, <2>1 DEF AsCalled, WrittenOnce
<1>13. ASSUME NEW p \in Requests \ {q}, NEW r \in all, NEW s \in own[p]
       PROVE  r.id # s.id /\ r.keys \cap s.keys = {}
  <2>1. CASE r \in new
    <3>1. s.id[1] = p \/ s.id \in Ids(rows)
      BY DEF StoreInv, MadeInv
    <3> QED
      BY <1>6, <1>7, <2>1, <3>1 DEF Ids
  <2>2. CASE r \in changed
    <3>1. r.id # s.id
      BY <1>1, <2>2 DEF Unlocked, Ids
    <3>2. PICK v \in rows : Was(r, v)
      BY <1>5, <2>2
    <3>3. s.keys \cap v.keys # {} => s.id = v.id
      BY DEF StoreInv, LockInv
    <3> QED
      BY <3>1, <3>2, <3>3 DEF Was
  <2> QED
    BY <2>1, <2>2
<1>14. ASSUME NEW r \in all, NEW s \in rows
       PROVE  /\ r.keys \cap s.keys # {} => r.id = s.id
              /\ r.id = s.id => r.tenant = s.tenant
  <2>1. CASE r \in new
    BY <1>6, <1>7, <2>1
  <2>2. CASE r \in changed
    <3>1. PICK v \in rows : Was(r, v)
      BY <1>5, <2>2
    <3> QED
      BY <1>8, <3>1 DEF Was
  <2> QED
    BY <2>1, <2>2
<1> HIDE DEF all
<1> QED
  BY <1>3, <1>4, <1>9, <1>10, <1>11, <1>12, <1>13, <1>14, WriteKeeps

(* A commit keeps every row, or what it is and refers to.                  *)
LEMMA CommitKeepsStore ==
  ASSUME ApiInv, StoreInv, NEW q \in Requests, Commit(q) PROVE StoreInv'
<1>1. /\ at[q] = "commit" /\ at' = [at EXCEPT ![q] = "done"] /\ own' = [own EXCEPT ![q] = {}]
      /\ rows' = {r \in rows : r.id \notin Ids(own[q])} \cup own[q]
      /\ UNCHANGED <<call, tenant>>
  BY DEF Commit, Leave
<1>2. /\ \A p \in Requests : at'[p] = IF p = q THEN "done" ELSE at[p]
      /\ \A p \in Requests : own'[p] = IF p = q THEN {} ELSE own[p]
  BY <1>1 DEF ApiInv, Functions
<1>3. \A r \in rows' : \/ r \in own[q]
                       \/ r \in rows /\ \A s \in own[q] : r.id # s.id
  BY <1>1 DEF Ids
<1>4. ASSUME NEW s \in rows PROVE \E t \in rows' : t.id = s.id /\ t.tenant = s.tenant
  <2>1. CASE s.id \in Ids(own[q])
    <3>1. PICK t \in own[q] : t.id = s.id
      BY <2>1 DEF Ids
    <3>2. t.tenant = s.tenant
      BY <3>1 DEF StoreInv, LockInv
    <3> QED
      BY <1>1, <3>1, <3>2
  <2>2. CASE s.id \notin Ids(own[q])
    BY <1>1, <2>2
  <2> QED
    BY <2>1, <2>2
<1>5. Ids(rows) \subseteq Ids(rows')
  BY <1>4 DEF Ids
<1>6. \A r \in own[q] : /\ r.id[1] # q => r.table \notin WrittenOnce /\ r.id \in Ids(rows)
                        /\ AsCalled(r, q)
  BY DEF StoreInv, MadeInv
<1>7. \A r, p : AsCalled(r, p)' <=> AsCalled(r, p)
  BY <1>1 DEF AsCalled, Given
<1>8. MadeInv'
  <2>1. ASSUME NEW r \in rows', r.id[1] \in Requests
        PROVE  at'[r.id[1]] = "done" /\ AsCalled(r, r.id[1])
    <3>1. CASE r \in rows
      BY <1>2, <2>1, <3>1 DEF StoreInv, MadeInv
    <3>2. CASE r \in own[q] /\ r.id[1] = q
      BY <1>2, <1>6, <3>2
    <3>3. CASE r \in own[q] /\ r.id[1] # q
      <4>1. PICK s \in rows : s.id = r.id
        BY <1>6, <3>3 DEF Ids
      <4>2. at[r.id[1]] = "done"
        BY <2>1, <4>1 DEF StoreInv, MadeInv
      <4> QED
        BY <1>2, <1>6, <2>1, <3>3, <4>2 DEF AsCalled, WrittenOnce
    <3> QED
      BY <1>3, <3>1, <3>2, <3>3
  <2>2. \A p \in Requests : at'[p] \in {"read", "write"} => own'[p] = {}
    BY <1>2 DEF StoreInv, MadeInv
  <2>3. ASSUME NEW p \in Requests, NEW r \in own'[p]
        PROVE  /\ r.id[1] # p => r.table \notin WrittenOnce /\ r.id \in Ids(rows')
               /\ AsCalled(r, p)
    BY <1>2, <1>5, <2>3 DEF StoreInv, MadeInv
  <2>4. Ids(rows)' = Ids(rows')
    BY DEF Ids
  <2>5. \A r \in rows' : r.table = "users" /\ r.id[1] \notin Requests => r \in InitialRows
    BY <1>3, <1>6 DEF StoreInv, MadeInv, WrittenOnce
  <2> QED
    BY <1>7, <2>1, <2>2, <2>3, <2>4, <2>5 DEF MadeInv
<1>9. LockInv'
  <2>1. ASSUME NEW r \in rows', NEW s \in rows', r.id = s.id \/ r.keys \cap s.keys # {}
        PROVE  r = s
    <3>1. CASE r \in own[q] /\ s \in own[q]
      BY <2>1, <3>1 DEF StoreInv, LockInv, Unique
    <3>2. CASE r \in own[q] /\ s \notin own[q]
      <4>1. r.id = s.id
        BY <1>3, <2>1, <3>2 DEF StoreInv, LockInv
      <4> QED
        BY <1>3, <3>2, <4>1
    <3>3. CASE r \notin own[q] /\ s \in own[q]
      <4>1. s.keys \cap r.keys # {} => s.id = r.id
        BY <1>3, <3>3 DEF StoreInv, LockInv
      <4> QED
        BY <1>3, <2>1, <3>3, <4>1
    <3>4. CASE r \notin own[q] /\ s \notin own[q]
      BY <1>3, <2>1, <3>4 DEF StoreInv, LockInv, Unique
    <3> QED
      BY <3>1, <3>2, <3>3, <3>4
  <2>2. ASSUME NEW p \in Requests, NEW r \in own'[p], NEW s \in rows'
        PROVE  /\ r.keys \cap s.keys # {} => r.id = s.id
               /\ r.id = s.id => r.tenant = s.tenant
    <3>1. p # q /\ r \in own[p]
      BY <1>2, <2>2
    <3>2. CASE s \in own[q]
      <4>1. ~(r.id = s.id \/ r.keys \cap s.keys # {})
        BY <3>1, <3>2 DEF StoreInv, LockInv
      <4> QED
        BY <4>1
    <3>3. CASE s \in rows
      BY <3>1, <3>3 DEF StoreInv, LockInv
    <3> QED
      BY <1>3, <3>2, <3>3
  <2>3. \A p \in Requests : own'[p] = own[p] \/ own'[p] = {}
    BY <1>2
  <2>4. /\ \A p \in Requests : Unique(own'[p])
        /\ \A p, u \in Requests : \A r \in own'[p], s \in own'[u] :
             r.id = s.id \/ r.keys \cap s.keys # {} => p = u
    BY <2>3 DEF StoreInv, LockInv, Unique
  <2>5. Unique(rows')
    BY <2>1 DEF Unique
  <2> QED
    BY <2>2, <2>4, <2>5 DEF LockInv, Unique
<1>10. ReferInv'
  <2>2. ASSUME NEW p \in Requests, NEW id, NEW of,
               \E t \in rows \cup own[p] : t.id = id /\ t.tenant = of
        PROVE  \E t \in rows' \cup own[p] : t.id = id /\ t.tenant = of
    BY <1>4, <2>2
  <2>3. own[q] \subseteq rows'
    BY <1>1
  <2>4. Fits(rows', rows')
    <3>1. ASSUME NEW r \in rows', NEW id \in r.refs \cup {r.tenant}
          PROVE  \E t \in rows' : t.id = id /\ t.tenant = r.tenant
      <4>1. CASE r \in own[q]
        <5>1. \E t \in rows \cup own[q] : t.id = id /\ t.tenant = r.tenant
          BY <3>1, <4>1 DEF StoreInv, ReferInv, Fits
        <5>2. \E t \in rows' \cup own[q] : t.id = id /\ t.tenant = r.tenant
          BY <2>2, <5>1
        <5> QED
          BY <2>3, <5>2
      <4>2. CASE r \in rows
        <5>1. \E t \in rows : t.id = id /\ t.tenant = r.tenant
          BY <3>1, <4>2 DEF StoreInv, ReferInv, Fits
        <5> QED
          BY <1>4, <5>1
      <4> QED
        BY <1>3, <4>1, <4>2
    <3> QED
      BY <3>1 DEF Fits
  <2>5. ASSUME NEW p \in Requests PROVE Fits(own'[p], rows' \cup own'[p])
    <3>1. CASE p = q
      BY <1>2, <3>1 DEF Fits
    <3>2. CASE p # q
      <4>1. own'[p] = own[p]
        BY <1>2, <3>2
      <4>2. Fits(own[p], rows \cup own[p])
        BY DEF StoreInv, ReferInv
      <4>3. ASSUME NEW r \in own[p], NEW id \in r.refs \cup {r.tenant}
            PROVE  \E t \in rows' \cup own[p] : t.id = id /\ t.tenant = r.tenant
        <5>1. \E t \in rows \cup own[p] : t.id = id /\ t.tenant = r.tenant
          BY <4>2, <4>3 DEF Fits
        <5> QED
          BY <2>2, <5>1
      <4> QED
        BY <4>1, <4>3 DEF Fits
    <3> QED
      BY <3>1, <3>2
  <2>6. ASSUME NEW e \in rows, e.table = "outbox_events" PROVE e \in rows'
    <3>1. ASSUME NEW s \in own[q], s.id = e.id PROVE FALSE
      <4>1. NamedForTable(s) /\ NamedForTable(e)
        BY DEF ApiInv, UsersStay
      <4>2. s.table = "outbox_events"
        BY <2>6, <3>1, <4>1 DEF NamedForTable
      <4>3. e.id[1] = q
        BY <1>6, <3>1, <4>2 DEF WrittenOnce
      <4> QED
        BY <1>1, <4>3 DEF StoreInv, MadeInv
    <3> QED
      BY <1>1, <3>1 DEF Ids
  <2>7. ASSUME NEW p \in Requests, NEW r, \E e \in rows \cup own[p] : Tells(e, r)
        PROVE  \E e \in rows' \cup own[p] : Tells(e, r)
    BY <2>6, <2>7 DEF Tells
  <2>8. Told(rows', rows')
    <3>1. ASSUME NEW r \in rows', r.table \in Announced, r.id[1] \in Requests
          PROVE  \E e \in rows' : Tells(e, r)
      <4>1. CASE r \in own[q]
        <5>1. \E e \in rows \cup own[q] : Tells(e, r)
          BY <3>1, <4>1 DEF StoreInv, ReferInv, Told
        <5>2. \E e \in rows' \cup own[q] : Tells(e, r)
          BY <2>7, <5>1
        <5> QED
          BY <2>3, <5>2
      <4>2. CASE r \in rows
        <5>1. PICK e \in rows : Tells(e, r)
          BY <3>1, <4>2 DEF StoreInv, ReferInv, Told
        <5> QED
          BY <2>6, <5>1 DEF Tells
      <4> QED
        BY <1>3, <4>1, <4>2
    <3> QED
      BY <3>1 DEF Told
  <2>9. ASSUME NEW p \in Requests PROVE Told(own'[p], rows' \cup own'[p])
    <3>1. CASE p = q
      BY <1>2, <3>1 DEF Told
    <3>2. CASE p # q
      <4>1. own'[p] = own[p]
        BY <1>2, <3>2
      <4>2. Told(own[p], rows \cup own[p])
        BY DEF StoreInv, ReferInv
      <4>3. Told(own[p], rows' \cup own[p])
        BY <2>7, <4>2 DEF Told
      <4> QED
        BY <4>1, <4>3
    <3> QED
      BY <3>1, <3>2
  <2> QED
    BY <2>4, <2>5, <2>8, <2>9 DEF ReferInv, Fits, Told, Tells
<1>11. CallerInv'
  <2>1. ASSUME NEW p \in Requests PROVE Caller(p)'
    <3>1. CASE p = q
      BY <1>2, <3>1 DEF Caller, Running
    <3>2. CASE p # q
      <4>1. Caller(p) /\ at'[p] = at[p]
        BY <1>2, <3>2 DEF StoreInv, CallerInv
      <4>2. \A id : Here(p, id) => Here(p, id)'
        BY <1>1, <1>4 DEF Here
      <4> QED
        BY <1>1, <4>1, <4>2 DEF Caller, Running, IsSuperAdmin, OfOperator, Known
    <3> QED
      BY <3>1, <3>2
  <2> QED
    BY <2>1 DEF CallerInv
<1> QED
  BY <1>8, <1>9, <1>10, <1>11 DEF StoreInv

LEMMA EndKeepsStore ==
  ASSUME ApiInv, StoreInv, NEW q \in Requests, at[q] # "done", RefuseStep(q) \/ Crash(q)
  PROVE  StoreInv'
<1>1. Leave(q) /\ at' = [at EXCEPT ![q] = "done"] /\ UNCHANGED <<rows, call, tenant>>
  BY DEF RefuseStep, Refuse, Crash
<1>2. /\ \A p \in Requests : at'[p] = IF p = q THEN "done" ELSE at[p]
      /\ \A p \in Requests : own'[p] = IF p = q THEN {} ELSE own[p]
  BY <1>1 DEF Leave, ApiInv, Functions
<1>3. Caller(q)'
  BY <1>2 DEF Caller, Running
<1> QED
  BY <1>1, <1>2, <1>3, QuietKeeps

LEMMA MoveKeepsStore ==
  ASSUME ApiInv, StoreInv, NEW q \in Requests, at[q] \in {"read", "write"}, MoveStep(q)
  PROVE  StoreInv'
<1>1. PICK to \in {"write", "reply", "commit"} : Proceed(q, to) /\ (to = "write" => Known(q))
  BY DEF MoveStep, Through
<1>2. own' = own /\ own[q] = {}
  BY DEF MoveStep, StoreInv, MadeInv
<1>3. /\ \A p \in Requests : at'[p] = IF p = q THEN to ELSE at[p]
      /\ UNCHANGED <<rows, call, tenant>>
  BY <1>1 DEF Proceed, ApiInv, Functions
<1>4. Caller(q)'
  BY <1>1, <1>3 DEF StoreInv, CallerInv, Caller, Running, IsSuperAdmin, OfOperator, Here, Known
<1> QED
  BY <1>2, <1>3, <1>4, QuietKeeps

LEMMA AnswerKeepsStore ==
  ASSUME ApiInv, StoreInv, NEW q \in Requests, Reply(q) PROVE StoreInv'
<1>1. /\ at[q] = "reply" /\ \A p \in Requests : at'[p] = IF p = q THEN "commit" ELSE at[p]
      /\ UNCHANGED <<rows, own, call, tenant>>
  BY DEF Reply, ApiInv, Functions
<1>2. Caller(q)'
  BY <1>1 DEF StoreInv, CallerInv, Caller, Running, IsSuperAdmin, OfOperator, Here, Known
<1> QED
  BY <1>1, <1>2, QuietKeeps

LEMMA BeginKeepsStore ==
  ASSUME ApiInv, StoreInv, NEW q \in Requests, Receive(q) PROVE StoreInv'
<1>1. /\ at[q] = "idle" /\ \A p \in Requests : at'[p] = IF p = q THEN "enter" ELSE at[p]
      /\ \E c : call' = [call EXCEPT ![q] = c]
      /\ UNCHANGED <<rows, own, tenant>>
  BY DEF Receive, ApiInv, Functions
<1>2. own[q] = {}
  BY <1>1 DEF ApiInv, OwnInv, Running
<1>3. Caller(q)'
  BY <1>1 DEF Caller, Running
<1>4. \A p \in Requests \ {q} : call'[p] = call[p]
  BY <1>1 DEF ApiInv, Functions
<1> QED
  BY <1>1, <1>2, <1>3, <1>4, QuietKeeps

(* The tenant of a caller's user is that tenant's row.                     *)
LEMMA EnterKeepsStore ==
  ASSUME ApiInv, StoreInv, NEW q \in Requests, EnterStep(q) PROVE StoreInv'
<1>1. PICK next \in {"read", "write"} :
        /\ next = "write" => Needs(call[q]) = {}
        /\ \/ ~OfOperator(q) /\ EnterTenant(q, next)
           \/ /\ OfOperator(q)
              /\ EnterSystem(q, SystemConns, next) \/ EnterSystem(q, ScriptConns, next)
  BY DEF EnterStep
<1>2. /\ at[q] = "enter" /\ at' = [at EXCEPT ![q] = next] /\ UNCHANGED <<rows, own, call>>
      /\ \/ IsSuperAdmin(call[q]) /\ OfOperator(q) /\ UNCHANGED tenant
         \/ /\ ~IsSuperAdmin(call[q]) /\ ~OfOperator(q)
            /\ \E u \in ActiveUsers(call[q].subject) : tenant' = [tenant EXCEPT ![q] = u.tenant]
  BY <1>1 DEF EnterTenant, EnterSystem, Take
<1>3. \A p \in Requests : at'[p] = IF p = q THEN next ELSE at[p]
  BY <1>2 DEF ApiInv, Functions
<1>4. \A p \in Requests \ {q} : tenant'[p] = tenant[p]
  BY <1>2 DEF ApiInv, Functions
<1>5. own[q] = {}
  BY <1>2 DEF ApiInv, OwnInv, Running
<1>6. ~OfOperator(q) => \E s \in rows : s.id = tenant'[q] /\ s.tenant = tenant'[q]
  <2>1. ASSUME ~OfOperator(q) PROVE \E s \in rows : s.id = tenant'[q] /\ s.tenant = tenant'[q]
    <3>1. PICK u \in ActiveUsers(call[q].subject) : tenant' = [tenant EXCEPT ![q] = u.tenant]
      BY <1>2, <2>1
    <3>2. tenant'[q] = u.tenant
      BY <3>1 DEF ApiInv, Functions
    <3>3. u \in rows
      BY DEF ActiveUsers, Of
    <3> QED
      BY <3>2, <3>3 DEF StoreInv, ReferInv, Fits
  <2> QED
    BY <2>1
<1>7. Caller(q)'
  <2>1. next = "write" => Needs(call'[q]) = {}
    BY <1>1, <1>2
  <2>2. IsSuperAdmin(call'[q]) <=> OfOperator(q)'
    BY <1>2 DEF IsSuperAdmin, OfOperator
  <2>3. ~OfOperator(q)' => Here(q, tenant[q])'
    BY <1>2, <1>6 DEF OfOperator, Here
  <2>4. at'[q] = "write" => Known(q)'
    BY <1>2, <1>3, <2>1 DEF Known
  <2> QED
    BY <2>2, <2>3, <2>4 DEF Caller
<1> QED
  BY <1>2, <1>3, <1>4, <1>5, <1>7, QuietKeeps

LEMMA ServeKeeps ==
  ASSUME ApiInv, StoreInv, NEW q \in Requests, at[q] \in {"enter", "read", "write"},
         AccountCall(q) \/ CatalogCall(q) \/ TradeCall(q)
  PROVE  ApiInv' /\ StoreInv'
<1>1. CallStep(q)
  BY AccountCallIsStep, CatalogCallIsStep, TradeCallIsStep
<1>2. ApiInv'
  BY <1>1, EndKeeps, EnterKeeps, MoveOnKeeps, InsertKeeps, UpdateKeeps DEF CallStep
<1>3. StoreInv'
  BY <1>1, EndKeepsStore, EnterKeepsStore, MoveKeepsStore, InsertKeepsStore, UpdateKeepsStore
     DEF CallStep
<1> QED
  BY <1>2, <1>3

LEMMA ApiStep == ApiInv /\ StoreInv /\ [ApiNext]_apiVars => ApiInv' /\ StoreInv'
<1> SUFFICES ASSUME ApiInv, StoreInv, [ApiNext]_apiVars PROVE ApiInv' /\ StoreInv'
  OBVIOUS
<1>1. CASE UNCHANGED vars
  <2>1. UNCHANGED <<rows, own, call, at, tenant, conn, scope>>
    BY <1>1 DEF vars, requestVars
  <2>2. Functions' /\ PoolInv'
    BY <2>1 DEF ApiInv, Functions, PoolInv, Running, LoginScope
  <2>3. ScopeInv'
    BY <2>1 DEF ApiInv, ScopeInv, Running, IsSuperAdmin, ActiveUsers, HasSubject, Of
  <2>4. UsersStay'
    BY <2>1 DEF ApiInv, UsersStay, NamedForTable
  <2>5. OwnInv'
    BY <2>1 DEF ApiInv, OwnInv, Running, IsSuperAdmin
  <2>6. MadeInv' /\ LockInv'
    BY <2>1 DEF StoreInv, MadeInv, AsCalled, Given, Ids, LockInv, Unique
  <2>7. ReferInv'
    BY <2>1 DEF StoreInv, ReferInv, Fits, Told, Tells
  <2>8. CallerInv'
    BY <2>1 DEF StoreInv, CallerInv, Caller, Running, IsSuperAdmin, OfOperator, Here, Known
  <2> QED
    BY <2>2, <2>3, <2>4, <2>5, <2>6, <2>7, <2>8 DEF ApiInv, StoreInv
<1>2. ASSUME NEW q \in Requests, Begin(q) \/ Serve(q) \/ Answer(q) \/ Finish(q) \/ Lose(q)
      PROVE  ApiInv' /\ StoreInv'
  <2>1. CASE Begin(q)
    BY <2>1, BeginKeeps, BeginKeepsStore DEF Begin
  <2>2. CASE Serve(q)
    BY <2>2, ServeKeeps DEF Serve
  <2>3. CASE Answer(q)
    BY <2>3, AnswerKeeps, AnswerKeepsStore DEF Answer
  <2>4. CASE Finish(q)
    BY <2>4, CommitKeeps, CommitKeepsStore DEF Finish
  <2>5. CASE Lose(q)
    BY <2>5, EndKeeps, EndKeepsStore DEF Lose, Crash
  <2> QED
    BY <1>2, <2>1, <2>2, <2>3, <2>4, <2>5
<1> QED
  BY <1>1, <1>2 DEF ApiNext, AllDone, apiVars

LEMMA ApiHolds == ApiSpec => [](ApiInv /\ StoreInv)
  BY ApiStart, StoreStart, ApiStep, PTL DEF ApiSpec

(* Tenants stay apart, whatever the connection of a transaction was used   *)
(* for before and whoever commits meanwhile.                               *)
THEOREM TenantsStayApart == ApiSpec => []ScopeIsTheCallers
<1>1. ApiInv => ScopeIsTheCallers
  <2> SUFFICES ASSUME ApiInv, NEW q \in Requests, Running(q)
               PROVE  LET now == {r \in rows : r.id \notin Ids(own[q])} \cup own[q] IN
                        IF IsSuperAdmin(call[q])
                          THEN Visible(q) = now
                          ELSE \E u \in ActiveUsers(call[q].subject) :
                                 /\ Visible(q) = {r \in now : r.tenant = u.tenant}
                                 /\ \A r \in own[q] : r.tenant = u.tenant
    BY DEF ScopeIsTheCallers
  <2>1. CASE IsSuperAdmin(call[q])
    BY <2>1 DEF ApiInv, ScopeInv, Visible
  <2>2. CASE ~IsSuperAdmin(call[q])
    <3>1. PICK u \in ActiveUsers(call[q].subject) :
            u.tenant = tenant[q] /\ scope[conn[q]] = [role |-> "posnet_app", tenant |-> u.tenant]
      BY <2>2 DEF ApiInv, ScopeInv
    <3>2. \A r \in own[q] : r.tenant = u.tenant
      BY <2>2, <3>1 DEF ApiInv, OwnInv
    <3>3. Visible(q) = {r \in {s \in rows : s.id \notin Ids(own[q])} \cup own[q] :
                          r.tenant = u.tenant}
      BY <3>1 DEF Visible
    <3> QED
      BY <2>2, <3>2, <3>3
  <2> QED
    BY <2>1, <2>2
<1> QED
  BY <1>1, ApiHolds, PTL

(* The users of before are in the index on external_subject.               *)
SubjectsIndexed ==
  \A r \in Of("users", InitialRows) : \A k \in r.keys :
    k[1] = "ix_users_external_subject" => k = SubjectKey(k[2])

(* What a request gave its user is in an index over all tenants, in which  *)
(* insertions that race wait for each other's entries: no other user has   *)
(* the subject, whichever requests made the two.                           *)
THEOREM SubjectsHaveOneTenant == SubjectsIndexed => (ApiSpec => []OneTenantPerSubject)
<1> SUFFICES ASSUME SubjectsIndexed PROVE ApiSpec => []OneTenantPerSubject
  OBVIOUS
<1>1. ApiInv /\ StoreInv => OneTenantPerSubject
  <2> SUFFICES ASSUME ApiInv, StoreInv,
                      NEW q \in Requests, NEW r \in Of("users", rows),
                      Id(q, "users") \in Ids(rows), Given(q) # None, r.id # Id(q, "users"),
                      Bears(r, Given(q))
               PROVE  FALSE
    BY DEF OneTenantPerSubject
  <2>1. PICK u \in rows : u.id = <<q, "users">>
    BY DEF Ids, Id
  <2>2. u.id[1] = q /\ u.table = "users"
    BY <2>1 DEF ApiInv, UsersStay, NamedForTable
  <2>3. SubjectKey(Given(q)) \in u.keys
    BY <2>2 DEF StoreInv, MadeInv, AsCalled
  <2>4. r \in rows /\ r.table = "users" /\ r.id # u.id
    BY <2>1 DEF Of, Id
  <2>5. SubjectKey(Given(q)) \in r.keys
    <3>1. CASE r.id[1] \in Requests
      <4>1. AsCalled(r, r.id[1])
        BY <2>4, <3>1 DEF StoreInv, MadeInv
      <4>2. Given(r.id[1]) = Given(q)
        BY <3>1 DEF Bears
      <4> QED
        BY <2>4, <4>1, <4>2 DEF AsCalled
    <3>2. CASE r.id[1] \notin Requests
      <4>1. r \in Of("users", InitialRows)
        BY <2>4, <3>2 DEF StoreInv, MadeInv, Of
      <4>2. PICK k \in r.keys : k[1] = "ix_users_external_subject" /\ k[2] = Given(q)
        BY <3>2 DEF Bears, HasSubject
      <4>3. k = SubjectKey(Given(q))
        BY <4>1, <4>2 DEF SubjectsIndexed
      <4> QED
        BY <4>2, <4>3
    <3> QED
      BY <3>1, <3>2
  <2>6. r = u
    BY <2>3, <2>4, <2>5 DEF StoreInv, LockInv, Unique
  <2> QED
    BY <2>4, <2>6
<1> QED
  BY <1>1, ApiHolds, PTL

(* The indexes on SKU and barcode: two variants that two requests of a     *)
(* tenant added are told apart by a scan.                                  *)
THEOREM ScansFindOneVariant == ApiSpec => []ScanFindsOne
<1>1. ApiInv /\ StoreInv => ScanFindsOne
  <2> SUFFICES ASSUME ApiInv, StoreInv, NEW p \in Requests, NEW q \in Requests, p # q,
                      {Id(p, "variants"), Id(q, "variants")} \subseteq Ids(rows),
                      tenant[p] = tenant[q]
               PROVE  /\ call[p].sku # call[q].sku
                      /\ call[p].barcode = None \/ call[p].barcode # call[q].barcode
    BY DEF ScanFindsOne
  <2>1. PICK r \in rows, s \in rows : r.id = <<p, "variants">> /\ s.id = <<q, "variants">>
    BY DEF Ids, Id
  <2>2. r.id[1] = p /\ s.id[1] = q /\ r.table = "variants" /\ s.table = "variants"
    BY <2>1 DEF ApiInv, UsersStay, NamedForTable
  <2>3. /\ r.keys = VariantKeys(tenant[p], call[p].sku, call[p].barcode)
        /\ s.keys = VariantKeys(tenant[q], call[q].sku, call[q].barcode)
    BY <2>2 DEF StoreInv, MadeInv, AsCalled
  <2>4. r.keys \cap s.keys = {}
    BY <2>2 DEF StoreInv, LockInv, Unique
  <2>5. call[p].sku # call[q].sku
    BY <2>3, <2>4 DEF VariantKeys
  <2>6. ASSUME call[p].barcode # None, call[p].barcode = call[q].barcode PROVE FALSE
    BY <2>3, <2>4, <2>6 DEF VariantKeys
  <2> QED
    BY <2>5, <2>6
<1> QED
  BY <1>1, ApiHolds, PTL

(* The look-ups in the caller's tenant: though a foreign key takes any id, *)
(* and the row looked up may be replaced before the insertion commits, no  *)
(* row refers into another tenant.                                         *)
THEOREM ReferencesStayInTheTenant == ApiSpec => []RefsStayInTenant
<1>1. StoreInv => RefsStayInTenant
  <2> SUFFICES ASSUME StoreInv, NEW r \in rows, NEW s \in rows, s.id \in r.refs
               PROVE  s.tenant = r.tenant
    BY DEF RefsStayInTenant
  <2>1. PICK t \in rows : t.id = s.id /\ t.tenant = r.tenant
    BY DEF StoreInv, ReferInv, Fits
  <2>2. t = s
    BY <2>1 DEF StoreInv, LockInv, Unique
  <2> QED
    BY <2>1, <2>2
<1> QED
  BY <1>1, ApiHolds, PTL

(* The outbox row shares the transaction of what it tells of: neither is   *)
(* committed without the other, whoever crashes or replaces a row.         *)
THEOREM EventsComeWithTheirRows == ApiSpec => []EventsMatchRows
<1>1. StoreInv => EventsMatchRows
  <2> SUFFICES ASSUME StoreInv PROVE EventsMatchRows
    OBVIOUS
  <2>1. ASSUME NEW r \in rows,
               r.table \in {"tenants", "products", "variants", "price_overrides", "stock_movements"},
               r.id[1] \in Requests
        PROVE  \E e \in Of("outbox_events", rows) :
                 /\ e.tenant = r.tenant /\ e.id[1] = r.id[1]
                 /\ r.id \in e.refs \/ r.refs = e.refs \cup {r.tenant}
    <3>1. PICK e \in rows : Tells(e, r)
      BY <2>1 DEF StoreInv, ReferInv, Told, Announced
    <3> QED
      BY <3>1 DEF Tells, Of
  <2>2. ASSUME NEW e \in Of("outbox_events", rows) PROVE e.refs \subseteq Ids(rows)
    BY DEF StoreInv, ReferInv, Fits, Of, Ids
  <2> QED
    BY <2>1, <2>2 DEF EventsMatchRows
<1> QED
  BY <1>1, ApiHolds, PTL
=============================================================================
