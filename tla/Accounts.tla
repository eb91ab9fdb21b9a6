------------------------------ MODULE Accounts ------------------------------
(***************************************************************************)
(* Tenants, users, roles and feature flags                                 *)
(* (services/core/app/domain/onboarding.py, identity.py, feature_flags.py  *)
(* and their routers in api/v1).                                           *)
(***************************************************************************)
EXTENDS TenantSession

CONSTANTS Flags    \* the keys of the flag registry

(* Mutant: an index on (tenant_id, external_subject), as on the email.     *)
UserRowPerTenant(id, of, email, subject) ==
  Row(id, "users", of,
      {<<"uq_users_tenant_email", of, email>>}
        \cup (IF subject = None THEN {}
             ELSE {<<"ix_users_external_subject", subject, of>>}),
      {of}, TRUE)

UserRow(id, of, email, subject) ==
  Row(id, "users", of,
      {<<"uq_users_tenant_email", of, email>>}
        \cup (IF subject = None THEN {} ELSE {SubjectKey(subject)}),
      {of}, TRUE)

(***************************************************************************)
(* Onboarding: the API call of a super_admin, and the seed script.         *)
(***************************************************************************)
TenantId(q) == Id(q, "tenants")

TenantRow(id) == Row(id, "tenants", id, {}, {}, TRUE)

(* The tenant, its first user and the event.                               *)
OnboardRows(q) ==
  {TenantRow(TenantId(q)),
   UserRow(Id(q, "users"), TenantId(q), call[q].email, call[q].admin),
   Event(q, TenantId(q), {TenantId(q)})}

Onboard(q) ==
  /\ call[q].what = "onboard"
  /\ \/ Forbid(q, HasRole(call[q], "super_admin"))
     \/ HasRole(call[q], "super_admin") /\ EnterSystem(q, SystemConns, "write")
     \/ at[q] = "write" /\ Insert(q, OnboardRows(q), "409")

(* seed_first_tenant: skip if the subject exists, else onboard.            *)
SeedFirstTenant(q) ==
  \/ /\ at[q] = "read"
     /\ \E r \in Visible(q) : HasSubject(r, call[q].admin)
     /\ Read(q)
  \/ /\ at[q] = "read"
     /\ \A r \in Visible(q) : ~HasSubject(r, call[q].admin)
     /\ Proceed(q, "write") /\ UNCHANGED own
  \/ at[q] = "write" /\ Insert(q, OnboardRows(q), "500")

(* The script: an engine of its own; nobody catches the IntegrityError of  *)
(* a race.                                                                 *)
Seed(q) ==
  /\ call[q].what = "seed"
  /\ EnterSystem(q, ScriptConns, "read") \/ SeedFirstTenant(q)

(***************************************************************************)
(* Users and roles: for a tenant_admin with a tenant.                      *)
(***************************************************************************)
AdminEnters(q, next) ==
  \/ Forbid(q, HasRole(call[q], "tenant_admin"))
  \/ HasRole(call[q], "tenant_admin") /\ (NoTenant(q) \/ EnterTenant(q, next))

NewUser(q) == UserRow(Id(q, "users"), tenant[q], call[q].email, call[q].user_subject)

CreateUser(q) ==
  /\ call[q].what = "create_user"
  /\ \/ AdminEnters(q, "write")
     \/ at[q] = "write" /\ Insert(q, {NewUser(q)}, "409")

(* The role and its permissions; a permission named twice trips the index  *)
(* of permissions, and the answer blames the role's name.                  *)
PermissionRow(q, i) ==
  Row(<<q, "permissions", i>>, "permissions", tenant[q],
      {<<"uq_permissions_role_res_act", Id(q, "roles"), call[q].permissions[i]>>},
      {tenant[q], Id(q, "roles")}, TRUE)

RoleRow(q) ==
  Row(Id(q, "roles"), "roles", tenant[q], {<<"uq_roles_tenant_name", tenant[q], call[q].name>>},
      {tenant[q]}, TRUE)

RoleRows(q) == {RoleRow(q)} \cup {PermissionRow(q, i) : i \in DOMAIN call[q].permissions}

CreateRole(q) ==
  /\ call[q].what = "create_role"
  /\ \/ AdminEnters(q, "write")
     \/ at[q] = "write" /\ Insert(q, RoleRows(q), "409")

(* A NULL store is equal to no other in the index; the store is not looked *)
(* up, and its column has no foreign key.                                  *)
AssignmentRow(q) ==
  Row(Id(q, "user_roles"), "user_roles", tenant[q],
      IF call[q].store = None THEN {}
        ELSE {<<"uq_user_roles_user_role_store", call[q].user, call[q].role, call[q].store>>},
      {tenant[q], call[q].user, call[q].role}, TRUE)

(* Mutant: the foreign keys are left to find a wrong id.                   *)
AssignRoleUnseen(q) ==
  /\ call[q].what = "assign_role"
  /\ \/ AdminEnters(q, "write")
     \/ at[q] = "write" /\ Insert(q, {AssignmentRow(q)}, "409")

(* Both ids are looked up in the caller's tenant before the INSERT.        *)
AssignKnown(q) ==
  InsertKnowing(q, Found(q, "users", call[q].user) /\ Found(q, "roles", call[q].role),
                {AssignmentRow(q)}, "409")

AssignRole(q) ==
  /\ call[q].what = "assign_role"
  /\ AdminEnters(q, "read") \/ AssignKnown(q)

(***************************************************************************)
(* Feature flags: an override per tenant and key.                          *)
(***************************************************************************)
FlagRow(id, of, key, on) ==
  Row(id, "feature_flags", of, {<<"uq_feature_flags_tenant_key", of, key>>}, {of}, on)

Overrides(seen, key) ==
  {r \in Of("feature_flags", seen) :
     <<"uq_feature_flags_tenant_key", r.tenant, key>> \in r.keys}

Declared(key) == key \in Flags

(* set_flag: an override that is found is updated, if it changes; else it  *)
(* is inserted, and losing a race for that is an error nobody catches.     *)
UpsertFlag(q) ==
  LET found == Overrides(Visible(q), call[q].key) IN
    \/ /\ at[q] = "read" /\ found = {}
       /\ Proceed(q, "write") /\ UNCHANGED own
    \/ /\ at[q] = "read"
       /\ \E r \in found :
            IF r.on = call[q].on THEN Read(q)
                                 ELSE Update(q, {[r EXCEPT !.on = call[q].on]}, {})
    \/ /\ at[q] = "write"
       /\ Insert(q, {FlagRow(Id(q, "feature_flags"), tenant[q], call[q].key, call[q].on)},
                 "500")

SetFlag(q) ==
  /\ call[q].what = "set_flag"
  /\ \/ AdminEnters(q, "read")
     \/ at[q] = "read" /\ ~Declared(call[q].key) /\ Refuse(q, "404")
     \/ Declared(call[q].key) /\ UpsertFlag(q)

(* The lists: users and roles for a tenant_admin, flags for any member.    *)
ListAccounts(q) ==
  /\ call[q].what = "list_accounts"
  /\ AdminEnters(q, "read") \/ List(q)

ListFlags(q) ==
  /\ call[q].what = "list_flags"
  /\ NoTenant(q) \/ EnterTenant(q, "read") \/ List(q)

AccountCall(q) ==
  \/ Onboard(q) \/ Seed(q) \/ CreateUser(q) \/ CreateRole(q) \/ AssignRole(q)
  \/ SetFlag(q) \/ ListAccounts(q) \/ ListFlags(q)
=============================================================================
