--------------------------- MODULE TenantSession ---------------------------
(***************************************************************************)
(* The transaction of one API request (services/core/app/api/deps.py,      *)
(* infrastructure/db/tenant.py) over the tables the API writes: the gate   *)
(* on the token's roles, a pooled connection, the caller's tenant, row     *)
(* level security, unique indexes, the answer, and the commit, which the   *)
(* exit of the session dependency does after the answer is sent.  READ     *)
(* COMMITTED; no call deletes a row.                                       *)
(***************************************************************************)
EXTENDS Integers, FiniteSets

CONSTANTS
  Requests,
  Calls,           \* what clients may ask for
  AppConns,        \* the pool of posnet_app
  SystemConns,     \* the pool of the owner; the same one without DATABASE_APP_URL
  ScriptConns,     \* what a script connects with, as the owner
  InitialRows,
  None

ASSUME NoneAssumption == None \notin AppConns \cup SystemConns \cup ScriptConns \cup Calls

(* Rows are named for their maker and table; those of before were made by  *)
(* nobody who is served now.                                               *)
ASSUME RowsAssumption == \A r \in InitialRows : r.table = r.id[2] /\ r.id[1] \notin Requests

(* They are in the indexes, and refer to rows of their tenant.             *)
ASSUME IndexAssumption ==
  \A r, s \in InitialRows : r.id = s.id \/ r.keys \cap s.keys # {} => r = s
ASSUME ReferenceAssumption ==
  \A r \in InitialRows : \A id \in r.refs \cup {r.tenant} :
    \E t \in InitialRows : t.id = id /\ t.tenant = r.tenant

Conns == AppConns \cup SystemConns \cup ScriptConns

VARIABLES
  rows,            \* the committed rows
  own,             \* the rows each open transaction has written
  call,            \* what each request asks for
  at,              \* what it does next
  conn,            \* its connection
  scope,           \* the role and app.current_tenant in force on a connection
  tenant,          \* request.state.tenant_id
  answered         \* the status it answers with

requestVars == <<call, at, tenant, answered>>
vars == <<rows, own, requestVars, conn, scope>>

(* One shape for all tables: what made a row and its table, its tenant     *)
(* (its own id, for a tenant), the entries it has in unique indexes, the   *)
(* rows it refers to, and the one column that is ever updated.             *)
Row(id, table, of, keys, refs, on) ==
  [id |-> id, table |-> table, tenant |-> of, keys |-> keys, refs |-> refs, on |-> on]

Id(maker, table) == <<maker, table>>

(* An outbox row (libs/eventbus/outbox.py): the rows it tells of are named *)
(* in its payload.                                                         *)
Event(q, of, about) ==
  Row(<<q, "outbox_events", about>>, "outbox_events", of, {}, about, TRUE)
Of(table, seen) == {r \in seen : r.table = table}
Ids(some) == {r.id : r \in some}
Keys(some) == UNION {r.keys : r \in some}

(* The settings a connection has between transactions.                     *)
LoginScope(c) ==
  [role |-> IF c \in SystemConns \cup ScriptConns THEN "owner" ELSE "posnet_app",
   tenant |-> None]

TypeOK ==
  /\ call \in [Requests -> Calls \cup {None}]
  /\ at \in [Requests -> {"idle", "enter", "read", "write", "reply", "commit", "done"}]
  /\ conn \in [Requests -> Conns \cup {None}]
  /\ \A q \in Requests : conn[q] # None <=> at[q] \in {"read", "write", "reply", "commit"}
  /\ \A p, q \in Requests : conn[p] = conn[q] /\ conn[p] # None => p = q
  /\ \A q \in Requests : own[q] # {} => at[q] \in {"write", "reply", "commit"}
  /\ \A r, s \in rows : r.id = s.id => r = s
  /\ \A r \in rows : r.tenant \in Ids(rows)
  /\ \A q \in Requests : tenant[q] # None => tenant[q] \in Ids(rows)

Init ==
  /\ rows = InitialRows
  /\ own = [q \in Requests |-> {}]
  /\ call = [q \in Requests |-> None]
  /\ at = [q \in Requests |-> "idle"]
  /\ conn = [q \in Requests |-> None]
  /\ scope = [c \in Conns |-> LoginScope(c)]
  /\ tenant = [q \in Requests |-> None]
  /\ answered = [q \in Requests |-> "none"]

(***************************************************************************)
(* Who may call (libs/auth/rbac.py).                                       *)
(***************************************************************************)
(* ROLE_PERMISSIONS, as far as the calls modelled here are gated by it.    *)
RolePermissions(role) ==
  CASE role \in {"super_admin", "tenant_admin", "store_manager"} ->
         {"catalog", "inventory", "pricing", "shift"} \X {"read", "write"}
    [] role = "clerk" -> {"catalog", "inventory"} \X {"read", "write"}
    [] role = "cashier" ->
         {"catalog", "inventory"} \X {"read"} \cup {"shift"} \X {"read", "write"}
    [] OTHER -> {}

IsSuperAdmin(c) == "super_admin" \in c.roles

HasRole(c, role) == IsSuperAdmin(c) \/ role \in c.roles

HasPermission(c, resource, action) ==
  \E role \in c.roles : <<resource, action>> \in RolePermissions(role)

(***************************************************************************)
(* The session of a request.                                               *)
(***************************************************************************)
(* What row level security shows a transaction: all of it to the owner,    *)
(* its tenant's rows to posnet_app; its own writes in place of the rows    *)
(* they replace.                                                           *)
Visible(q) ==
  LET now == {r \in rows : r.id \notin Ids(own[q])} \cup own[q] IN
    {r \in now : \/ scope[conn[q]].role = "owner"
                 \/ r.tenant = scope[conn[q]].tenant}

(* A row of one table, by primary key.                                     *)
Named(q, table, id) == {r \in Of(table, Visible(q)) : r.id = id}
Found(q, table, id) == Named(q, table, id) # {}
StoreKnown(q) == call[q].store = None \/ Found(q, "stores", call[q].store)

(* The column external_subject of a row, which is read off its index entry.*)
SubjectKey(subject) == <<"ix_users_external_subject", subject>>
HasSubject(r, subject) == \E k \in r.keys : k[1] = "ix_users_external_subject" /\ k[2] = subject

(* posnet_resolve_tenant: SECURITY DEFINER, so no row is hidden from it.   *)
ActiveUsers(subject) == {r \in Of("users", rows) : HasSubject(r, subject) /\ r.on}

(* Mutant: SET and set_config(..., false), which outlive the transaction.  *)
LeaveScoped(q) ==
  /\ own' = [own EXCEPT ![q] = {}]
  /\ conn' = [conn EXCEPT ![q] = None]
  /\ UNCHANGED scope

(* The end of a transaction: SET LOCAL is undone, the connection is back   *)
(* in its pool.                                                            *)
Leave(q) ==
  /\ own' = [own EXCEPT ![q] = {}]
  /\ conn' = [conn EXCEPT ![q] = None]
  /\ scope' = [c \in Conns |-> IF c = conn[q] THEN LoginScope(c) ELSE scope[c]]

(* An error is raised through the dependency: rollback, then the answer.   *)
Refuse(q, code) ==
  /\ at' = [at EXCEPT ![q] = "done"]
  /\ answered' = [answered EXCEPT ![q] = code]
  /\ Leave(q)
  /\ UNCHANGED <<rows, call, tenant>>

Proceed(q, next) ==
  /\ at' = [at EXCEPT ![q] = next]
  /\ UNCHANGED <<rows, call, tenant, answered, conn, scope>>

(* A client knows an id from before or from an answer.                     *)
KnownIds == Ids(InitialRows) \cup
            {id \in UNION {Ids(own[q]) : q \in Requests} \cup Ids(rows) :
               id[1] \in Requests => answered[id[1]] = "201"}

(* A token of the caller comes in with its call.                           *)
Receive(q) ==
  /\ at[q] = "idle"
  /\ \E c \in Calls :
       /\ c.ids \subseteq KnownIds
       /\ call' = [call EXCEPT ![q] = c]
  /\ at' = [at EXCEPT ![q] = "enter"]
  /\ UNCHANGED <<rows, own, conn, scope, tenant, answered>>

(* The role or permission gate comes before the session.                   *)
Forbid(q, permitted) ==
  /\ at[q] = "enter" /\ ~permitted
  /\ Refuse(q, "403")

Take(q, pool, next) ==
  \E c \in pool :
    /\ \A p \in Requests : conn[p] # c
    /\ conn' = [conn EXCEPT ![q] = c]
    /\ at' = [at EXCEPT ![q] = next]

(* super_admin: a connection of the system pool, nothing set on it; so a   *)
(* script, with a connection of its own.                                   *)
EnterSystem(q, pool, next) ==
  /\ at[q] = "enter" /\ IsSuperAdmin(call[q])
  /\ Take(q, pool, next)
  /\ UNCHANGED <<rows, own, call, scope, tenant, answered>>

(* Anyone else: a connection of the app pool, scoped to the tenant of the  *)
(* caller's active user.                                                   *)
EnterTenant(q, next) ==
  /\ at[q] = "enter" /\ ~IsSuperAdmin(call[q])
  /\ Take(q, AppConns, next)
  /\ \E u \in ActiveUsers(call[q].subject) :
       /\ tenant' = [tenant EXCEPT ![q] = u.tenant]
       /\ scope' = [scope EXCEPT ![conn'[q]] = [role |-> "posnet_app", tenant |-> u.tenant]]
  /\ UNCHANGED <<rows, own, call, answered>>

(* No active membership; or require_tenant, for a super_admin.  The        *)
(* connection it is found out on goes back unscoped.                       *)
NoTenant(q) ==
  /\ at[q] = "enter"
  /\ IsSuperAdmin(call[q]) \/ ActiveUsers(call[q].subject) = {}
  /\ Refuse(q, "403")

(* requires_permission, require_tenant and get_tenant_session.             *)
Admit(q, resource, action, next) ==
  \/ Forbid(q, HasPermission(call[q], resource, action))
  \/ HasPermission(call[q], resource, action) /\ (NoTenant(q) \/ EnterTenant(q, next))

(* What an INSERT waits for: another transaction that has written an entry *)
(* with a key of it, or replaced one.                                      *)
Awaited(q, new) ==
  {p \in Requests \ {q} :
     Keys(own[p] \cup {r \in rows : r.id \in Ids(own[p])}) \cap Keys(new) # {}}

(* What it fails on: a committed key, the same key twice, or a reference   *)
(* to no row.  Indexes and foreign keys look past row level security.      *)
Violates(q, new) ==
  \/ Keys(new) \cap Keys(rows \cup own[q]) # {}
  \/ \E r, s \in new : r # s /\ r.keys \cap s.keys # {}
  \/ ~ UNION {r.refs : r \in new} \subseteq Ids(rows \cup own[q] \cup new)

(* WITH CHECK of the policies.                                             *)
Checked(q, new) ==
  scope[conn[q]].role = "owner" \/ \A r \in new : r.tenant = scope[conn[q]].tenant

(* An endpoint answers; a script has nobody to answer.                     *)
Through(q) == Proceed(q, IF call[q].what = "seed" THEN "commit" ELSE "reply")

(* Mutant: the event is stored by a transaction of its own.                *)
InsertEventsApart(q, new, code) ==
  /\ Awaited(q, new) = {}
  /\ \/ /\ ~Violates(q, new) /\ Checked(q, new)
        /\ rows' = rows \cup Of("outbox_events", new)
        /\ own' = [own EXCEPT ![q] = @ \cup new]
        /\ at' = [at EXCEPT ![q] = "reply"]
        /\ UNCHANGED <<call, tenant, answered, conn, scope>>
     \/ (Violates(q, new) \/ ~Checked(q, new)) /\ Refuse(q, code)

(* A flush: the rows are written, or IntegrityError ends in "code", or     *)
(* row level security in a 500.                                            *)
Insert(q, new, code) ==
  /\ Awaited(q, new) = {}
  /\ \/ /\ ~Violates(q, new) /\ Checked(q, new)
        /\ own' = [own EXCEPT ![q] = @ \cup new]
        /\ Through(q)
     \/ Checked(q, new) /\ Violates(q, new) /\ Refuse(q, code)
     \/ ~Checked(q, new) /\ Refuse(q, "500")

(* Look-ups in the tenant before an INSERT.                                *)
InsertKnowing(q, known, new, code) ==
  \/ at[q] = "read" /\ ~known /\ Refuse(q, "404")
  \/ at[q] = "read" /\ known /\ Proceed(q, "write") /\ UNCHANGED own
  \/ at[q] = "write" /\ Insert(q, new, code)

(* An UPDATE, or a SELECT FOR UPDATE, waits for whoever has updated a row. *)
Unlocked(q, some) == \A p \in Requests \ {q} : Ids(own[p]) \cap Ids(some) = {}

Update(q, changed, new) ==
  /\ Unlocked(q, changed)
  /\ own' = [own EXCEPT ![q] = @ \cup changed \cup new]
  /\ Through(q)

(* A call that only reads is through with its statements.                  *)
Read(q) == Through(q) /\ UNCHANGED own

(* A list, of what is visible; and the detail of a row, if it is.          *)
List(q) == at[q] = "read" /\ Read(q)
Get(q, table, id) ==
  at[q] = "read" /\ IF Found(q, table, id) THEN Read(q) ELSE Refuse(q, "404")

(* The answer leaves before the dependency exits.                          *)
Reply(q) ==
  /\ at[q] = "reply"
  /\ answered' = [answered EXCEPT ![q] = "201"]
  /\ at' = [at EXCEPT ![q] = "commit"]
  /\ UNCHANGED <<rows, own, call, conn, scope, tenant>>

Commit(q) ==
  /\ at[q] = "commit"
  /\ rows' = {r \in rows : r.id \notin Ids(own[q])} \cup own[q]
  /\ at' = [at EXCEPT ![q] = "done"]
  /\ Leave(q)
  /\ UNCHANGED <<call, tenant, answered>>

(* The connection or the process is lost.                                  *)
Crash(q) ==
  /\ at[q] \in {"read", "write", "reply", "commit"}
  /\ at' = [at EXCEPT ![q] = "done"]
  /\ Leave(q)
  /\ UNCHANGED <<rows, call, tenant, answered>>
=============================================================================
