------------------------------- MODULE MCApi -------------------------------
(* Two tenants, each with an administrator, a role, a store, a product, a  *)
(* variant, a warehouse and an open till; a third is onboarded.            *)
EXTENDS Api, TLC

CONSTANTS t1, t2, q1, q2, q3, c1, c2, c3

TwoTenants == {t1, t2}
ThreeRequests == {q1, q2, q3}
SharedPool == {c1, c2}
Script == {c3}
Symmetric == Permutations(ThreeRequests) \cup Permutations(SharedPool)

AdminOf(t) == IF t = t1 THEN "admin1" ELSE "admin2"

RowsOf(t) ==
  LET of == Id(t, "tenants") IN
    {TenantRow(of),
     UserRow(Id(t, "users"), of, "owner@", AdminOf(t)),
     Row(Id(t, "roles"), "roles", of, {<<"uq_roles_tenant_name", of, "till">>}, {of}, TRUE),
     Row(Id(t, "stores"), "stores", of, {}, {of}, TRUE),
     ProductRow(Id(t, "products"), of, None, FALSE),
     VariantRow(Id(t, "variants"), of, Id(t, "products"), "s", None),
     Row(Id(t, "warehouses"), "warehouses", of, {}, {of}, TRUE),
     ShiftRow(Id(t, "shifts"), of, Id(t, "stores"), Id(t, "users"))}

TenantRows == RowsOf(t1) \cup RowsOf(t2)

(* Callers: the token's subject and roles.                                 *)
As(subject, roles, what, ids) ==
  [subject |-> subject, roles |-> roles, what |-> what, ids |-> ids]
Admin(t, what, ids) == As(AdminOf(t), {"tenant_admin"}, what, ids)
Root(what) == As("root", {"super_admin"}, what, {})

NewAdmin == {[admin |-> "newcomer", email |-> "owner@"] @@ Root(what) : what \in {"onboard", "seed"}}

UserCalls ==
  {[email |-> "a@", user_subject |-> s] @@ Admin(t2, "create_user", {}) :
     s \in {"newcomer", "admin1"}} \cup
  {[email |-> "a@", user_subject |-> None] @@ Admin(t1, "create_user", {})}

RoleCalls ==
  {[name |-> "boss", permissions |-> p] @@ Admin(t1, "create_role", {}) :
     p \in {<<"x">>, <<"x", "x">>}}

Assignment(role, store) ==
  [user |-> Id(t1, "users"), role |-> role, store |-> store]
    @@ Admin(t1, "assign_role", {Id(t1, "users"), role})

AssignCalls ==
  {Assignment(Id(t1, "roles"), None), Assignment(Id(t1, "roles"), Id(t2, "stores")),
   Assignment(Id(t2, "roles"), None)}

FlagCalls ==
  {[key |-> "beta", on |-> on] @@ Admin(t1, "set_flag", {}) : on \in BOOLEAN} \cup
  {[key |-> "gone", on |-> TRUE] @@ Admin(t1, "set_flag", {})}

ListCalls ==
  {As("newcomer", {"cashier"}, "list_flags", {}), Root("list_flags"),
   Admin(t2, "list_accounts", {}), As("admin2", {"cashier"}, "list_products", {}),
   As("admin2", {"cashier"}, "list_channels", {})}

ProductCalls ==
  {[store |-> Id(t, "stores"), images |-> {"u"}] @@ Admin(t1, "create_product", {}) :
     t \in TwoTenants} \cup
  {[store |-> None, images |-> {}] @@ As("admin1", {"cashier"}, "create_product", {})}

VariantCall(product, sku, barcode) ==
  [product |-> product, sku |-> sku, barcode |-> barcode] @@ Admin(t1, "add_variant", {product})

VariantCalls ==
  {VariantCall(Id(t1, "products"), sku, "b") : sku \in {"k", "m"}} \cup
  {VariantCall(Id(t2, "products"), "k", None)} \cup
  {VariantCall(Id(q, "products"), "k", None) : q \in ThreeRequests}

PublishCalls ==
  {[product |-> Id(t1, "products"), on |-> on]
     @@ Admin(t1, "set_online_published", {Id(t1, "products")}) : on \in BOOLEAN}

ScanCalls ==
  {[sku |-> s, barcode |-> None] @@ Admin(t1, "lookup", {}) : s \in {None, "k"}} \cup
  {[product |-> Id(t2, "products")] @@ Admin(t1, "detail", {})}

PriceCalls ==
  {[variant |-> Id(t1, "variants"), store |-> Id(t, "stores")]
     @@ Admin(t1, "set_override", {}) : t \in TwoTenants} \cup
  {[variant |-> Id(t2, "variants")] @@ Admin(t1, "resolve_price", {})}

StockCalls ==
  {[variant |-> Id(t1, "variants"), warehouse |-> Id(t, "warehouses"), kind |-> "in"]
     @@ Admin(t1, "move", {}) : t \in TwoTenants} \cup
  {[variant |-> Id(t1, "variants"), warehouse |-> Id(t1, "warehouses"), kind |-> "out"]
     @@ Admin(t1, "move", {}),
   Admin(t1, "create_warehouse", {}), Admin(t1, "list_stock", {})}

TillCalls ==
  {[store |-> Id(t1, "stores"), cashier |-> Id(t, "users")]
     @@ Admin(t1, "open_shift", {}) : t \in TwoTenants} \cup
  {[shift |-> Id(t1, "shifts")] @@ Admin(t1, what, {}) :
     what \in {"close_shift", "record_cash"}} \cup
  {[shift |-> s] @@ Admin(t1, "read_shifts", {}) : s \in {None, Id(t2, "shifts")}}

Parts ==
  {NewAdmin \cup UserCalls \cup RoleCalls \cup AssignCalls, FlagCalls \cup ListCalls,
   ProductCalls \cup VariantCalls \cup PublishCalls \cup ScanCalls,
   PriceCalls \cup StockCalls, TillCalls}

ApiCalls == UNION Parts

PartNames == {{c.what : c \in part} : part \in Parts}

(* Any two calls together, and any three of one part of the API.           *)
ThreeOfOnePart ==
  \/ \E q \in Requests : at[q] = "idle"
  \/ \E part \in PartNames : \A q \in Requests : call[q].what \in part
=============================================================================
