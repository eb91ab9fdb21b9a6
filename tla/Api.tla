-------------------------------- MODULE Api --------------------------------
(***************************************************************************)
(* Requests of several tenants, of the operator and of the seed script, at *)
(* the same time, over the same tables and connections.                    *)
(***************************************************************************)
EXTENDS Accounts, Catalog, Trade

VARIABLE
  offered          \* history: variants whose event found its product published,
                   \* had the dispatcher handled each event at its commit

apiVars == <<vars, offered>>

ApiInit == Init /\ offered = {}

(* What _on_variant_added lets through, of the events of a commit.         *)
Passed(q, now) ==
  {v \in Ids(Of("variants", now)) :
     /\ \E e \in Of("outbox_events", own[q]) : v \in e.refs
     /\ \E p \in Of("products", now), r \in now : r.id = v /\ p.id \in r.refs /\ p.on}

Begin(q) == Receive(q) /\ UNCHANGED offered
Answer(q) == Reply(q) /\ UNCHANGED offered
Lose(q) == Crash(q) /\ UNCHANGED offered
Finish(q) == Commit(q) /\ offered' = offered \cup Passed(q, rows')

(* The endpoint the call is for.                                           *)
Serve(q) ==
  /\ at[q] \in {"enter", "read", "write"}
  /\ AccountCall(q) \/ CatalogCall(q) \/ TradeCall(q)
  /\ UNCHANGED offered

AllDone == (\A q \in Requests : at[q] = "done") /\ UNCHANGED apiVars

ApiNext ==
  \/ \E q \in Requests :
       Begin(q) \/ Serve(q) \/ Answer(q) \/ Finish(q) \/ Lose(q)
  \/ AllDone

ApiSpec == ApiInit /\ [][ApiNext]_apiVars

-----------------------------------------------------------------------------
(***************************************************************************)
(* Correctness.                                                            *)
(***************************************************************************)
Running(q) == at[q] \in {"read", "write", "reply", "commit"}

(* Whatever its connection was used for before, a transaction sees and     *)
(* writes its caller's tenant and nothing else; a super_admin's sees all.  *)
ScopeIsTheCallers ==
  \A q \in Requests : Running(q) =>
    LET now == {r \in rows : r.id \notin Ids(own[q])} \cup own[q] IN
      IF IsSuperAdmin(call[q])
        THEN Visible(q) = now
        ELSE \E u \in ActiveUsers(call[q].subject) :
               /\ Visible(q) = {r \in now : r.tenant = u.tenant}
               /\ \A r \in own[q] : r.tenant = u.tenant

(* What a row that is written refers to belongs to its tenant, though the  *)
(* foreign keys would take any id that exists.                             *)
RefsStayInTenant ==
  \A r \in rows \ InitialRows, s \in rows : s.id \in r.refs => s.tenant = r.tenant

(* A subject resolves to one tenant, whoever onboards, seeds or adds it at *)
(* the same time: what one request gave its user, it gave no other user    *)
(* that another request made or that was there before.                     *)
Given(q) == IF call[q].what = "create_user" THEN call[q].user_subject ELSE call[q].admin

Bears(r, subject) ==
  IF r.id[1] \in Requests THEN Given(r.id[1]) = subject ELSE HasSubject(r, subject)

OneTenantPerSubject ==
  \A q \in Requests, r \in Of("users", rows) :
    Id(q, "users") \in Ids(rows) /\ Given(q) # None /\ r.id # Id(q, "users")
      => ~Bears(r, Given(q))

(* A scan finds one variant: no two of a tenant share a SKU or a barcode.  *)
ScanFindsOne ==
  \A p, q \in Requests :
    p # q /\ {Id(p, "variants"), Id(q, "variants")} \subseteq Ids(rows) /\ tenant[p] = tenant[q]
      => /\ call[p].sku # call[q].sku
         /\ call[p].barcode = None \/ call[p].barcode # call[q].barcode

(* A tenant, product, variant, override or movement is committed with its  *)
(* event, and no event tells of a row that is not there.                   *)
EventsMatchRows ==
  /\ \A r \in rows :
       /\ r.table \in {"tenants", "products", "variants", "price_overrides", "stock_movements"}
       /\ r.id[1] \in Requests
       => \E e \in Of("outbox_events", rows) :
            /\ e.tenant = r.tenant /\ e.id[1] = r.id[1]
            /\ r.id \in e.refs \/ r.refs = e.refs \cup {r.tenant}
  /\ \A e \in Of("outbox_events", rows) : e.refs \subseteq Ids(rows)

-----------------------------------------------------------------------------
(***************************************************************************)
(* Promised and not kept: TLC refutes the following (README, section       *)
(* "Where the code and its documentation disagree").                       *)
(***************************************************************************)

(* "a user with this email or subject already exists", "this role          *)
(* assignment already exists": an assignment is there once.                *)
NoDuplicateAssignment ==
  \A r, s \in Of("user_roles", rows) :
    r.id[1] \in Requests /\ s.id[1] \in Requests
      /\ call[r.id[1]].user = call[s.id[1]].user /\ call[r.id[1]].role = call[s.id[1]].role
      /\ call[r.id[1]].store = call[s.id[1]].store => r = s

(* "this is what stops a tenant assigning across the boundary".            *)
StoresStayInTenant ==
  \A r \in Of("user_roles", rows) : r.id[1] \in Requests =>
    \A s \in Of("stores", rows) : call[r.id[1]].store = s.id => s.tenant = r.tenant

(* "upserts a per-tenant override".                                        *)
UpsertsSucceed ==
  \A q \in Requests : call[q] # None => ~(call[q].what = "set_flag" /\ answered[q] = "500")

(* A row a client was told of is there for its next call.                  *)
ReadYourWrites ==
  \A q \in Requests : call[q] # None /\ answered[q] = "404" =>
    \A id \in call[q].ids : id[1] \in Requests => answered[id[1]] # "201"

(* "so the dispatcher pushes them to active channels now that they're      *)
(* eligible": no variant of a published product is left out.               *)
EveryVariantIsOffered ==
  (\A q \in Requests : at[q] = "done") =>
    \A p \in Of("products", rows) : p.on => Ids(Variants(p.id, rows)) \subseteq offered
=============================================================================
