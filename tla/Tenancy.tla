------------------------------- MODULE Tenancy -------------------------------
(***************************************************************************)
(* Tenants, their users and their billing rows.  The platform's staff      *)
(* onboards and deletes tenants (routes/platform.py), a tenant's admins    *)
(* manage its users (routes/tenant_users.py), and any user may onboard a   *)
(* tenant of his own and move there (routes/tenants.py).                   *)
(*                                                                         *)
(* A handler reads, is suspended, and commits: Begin and Commit.  What it  *)
(* read together is read in one step.  Staff and the tenant's users are    *)
(* checked when a request begins, and not again.  E-mail addresses are     *)
(* unique and stand for their user.                                        *)
(***************************************************************************)
EXTENDS Access

CONSTANTS
  Users,         \* ids of users, given in ascending order and used once
  GivenRoles     \* the roles requests ask for (TLC)

ASSUME TenancyAssumption ==
  /\ Users \subseteq Nat /\ None \notin Users
  /\ GivenRoles \subseteq TenantRoles

VARIABLES
  fk,            \* whether the database enforces foreign keys
  tenant,        \* per tenant: "unborn", "live" or "deleted"
  user,          \* per user: its tenant and role, "unborn" or "gone"
  billing,       \* tenants with a billing row
  cited,         \* users some audit row names
  audited,       \* tenants some audit row names
  request,       \* per handler: what its request has read
  begun,         \* how many of them there were
  led            \* history, per tenant: "never" had an admin, is "led" by one,
                 \* or "excused": a request committed over another's change
                 \* there, or an admin moved away

tenancyVars == <<fk, tenant, user, billing, cited, audited, request, begun, led>>

Row == [tenant : Tenants, role : TenantRoles]
Unborn == [tenant |-> None, role |-> "unborn"]
Gone == [tenant |-> None, role |-> "gone"]
IsRow(u) == user[u].tenant # None
NewUser(u) == user[u] = Unborn /\ \A v \in Users : v < u => user[v] # Unborn
NewTenant(t) == tenant[t] = "unborn" /\ \A v \in Tenants : v < t => tenant[v] # "unborn"

Of(t) == {u \in Users : IsRow(u) /\ user[u].tenant = t}
Admins(t) == {u \in Of(t) : user[u].role = "admin"}
May(u, cap) == IsRow(u) /\ TenantCan(user[u].role, cap)

Idle == [op |-> "idle"]
Request ==
  {Idle}
    \cup [op : {"role", "remove"}, target : Users, read : Row,
          admins : SUBSET Users, role : TenantRoles]
    \cup [op : {"delete"}, of : Tenants]
    \cup [op : {"onboard"}, of : Tenants, by : Users]

TenancyTypeOK ==
  /\ fk \in BOOLEAN
  /\ tenant \in [Tenants -> {"unborn", "live", "deleted"}]
  /\ user \in [Users -> Row \cup {Unborn, Gone}]
  /\ billing \subseteq Tenants
  /\ cited \subseteq Users /\ audited \subseteq Tenants
  /\ request \in [Handlers -> Request] /\ begun \in 0..MaxRequests
  /\ led \in [Tenants -> {"never", "led", "excused"}]

TenancyInit ==
  /\ fk \in BOOLEAN
  /\ tenant = [t \in Tenants |-> "unborn"]
  /\ user = [u \in Users |-> Unborn]
  /\ billing = {}
  /\ cited = {} /\ audited = {}
  /\ request = [h \in Handlers |-> Idle] /\ begun = 0
  /\ led = [t \in Tenants |-> "never"]

\* A handler reads, and is suspended.
Reads(h, r) ==
  /\ request[h] = Idle /\ begun < MaxRequests
  /\ request' = [request EXCEPT ![h] = r]
  /\ begun' = begun + 1

-------------------------------------------------------------------------------
(* The platform's staff.                                                   *)

\* A client: the tenant, its first admin and its billing row, in one commit.
\* A billing row left under the id makes the insert fail (tenant_id is unique).
OnboardTenant(t, u) ==
  /\ NewTenant(t) /\ NewUser(u) /\ t \notin billing
  /\ tenant' = [tenant EXCEPT ![t] = "live"]
  /\ user' = [user EXCEPT ![u] = [tenant |-> t, role |-> "admin"]]
  /\ billing' = billing \cup {t}
  /\ audited' = audited \cup {t}
  /\ led' = [led EXCEPT ![t] = "led"]
  /\ UNCHANGED <<fk, cited, request, begun>>

\* A plan creates the billing row where there is none; the tenant itself is
\* looked up by the foreign key alone.
UpdatePlan(t) ==
  /\ t \notin billing /\ (fk => tenant[t] = "live")
  /\ billing' = billing \cup {t}
  /\ UNCHANGED <<fk, tenant, user, cited, audited, request, begun, led>>

DeleteTenantBegin(h, t) ==
  /\ tenant[t] = "live"
  /\ Reads(h, [op |-> "delete", of |-> t])
  /\ UNCHANGED <<fk, tenant, user, billing, cited, audited, led>>

\* Something refers to the tenant: a user, a billing row, an audit row.
Referred(t) == Of(t) # {} \/ t \in billing \/ t \in audited

\* Findings, tickets and connectors go with the tenant; nothing else does.
\* Where foreign keys are enforced a reference makes the deletion fail; else what
\* referred to the tenant is left behind.
DeleteTenantCommit(h) ==
  LET r == request[h]
  IN  /\ r.op = "delete"
      /\ request' = [request EXCEPT ![h] = Idle] /\ UNCHANGED begun
      /\ tenant' = IF fk /\ Referred(r.of) THEN tenant
                   ELSE [tenant EXCEPT ![r.of] = "deleted"]
      /\ UNCHANGED <<fk, user, billing, cited, audited, led>>

-------------------------------------------------------------------------------
(* A tenant's admins.                                                      *)

AddUser(by, u, role) ==
  /\ May(by, "manage_tenant") /\ NewUser(u)
  /\ user' = [user EXCEPT ![u] = [tenant |-> user[by].tenant, role |-> role]]
  /\ cited' = cited \cup {by}
  /\ UNCHANGED <<fk, tenant, billing, audited, request, begun, led>>

\* The count of admins that lets one of them go.
\* Mutant: one admin is enough.
EnoughAdminsOffByOne(admins) == admins # {}
EnoughAdmins(admins) == \E a, b \in admins : a # b

\* The target belongs to the caller's tenant; the last admin stays one.
UpdateRoleBegin(h, by, target, role) ==
  /\ May(by, "manage_tenant")
  /\ IsRow(target) /\ user[target].tenant = user[by].tenant
  /\ (user[target].role = "admin" /\ role # "admin") => EnoughAdmins(Admins(user[by].tenant))
  /\ Reads(h,
       [op |-> "role", target |-> target, read |-> user[target],
        admins |-> Admins(user[by].tenant), role |-> role])
  /\ UNCHANGED <<fk, tenant, user, billing, cited, audited, led>>

RemoveUserBegin(h, by, target) ==
  /\ May(by, "manage_tenant") /\ target # by
  /\ IsRow(target) /\ user[target].tenant = user[by].tenant
  /\ user[target].role = "admin" => EnoughAdmins(Admins(user[by].tenant))
  /\ Reads(h,
       [op |-> "remove", target |-> target, read |-> user[target],
        admins |-> Admins(user[by].tenant), role |-> user[target].role])
  /\ UNCHANGED <<fk, tenant, user, billing, cited, audited, led>>

\* What the request read is no longer so: its target, or one of the admins it
\* counted.  It commits all the same.
Overtaken(r) ==
  \/ user[r.target] # r.read
  \/ \E a \in r.admins : ~IsRow(a) \/ user[a] # [tenant |-> r.read.tenant, role |-> "admin"]

TenantsOf(r) == {r.read.tenant, user[r.target].tenant}

Noted(r) ==
  IF Overtaken(r) THEN [t \in Tenants |-> IF t \in TenantsOf(r) THEN "excused" ELSE led[t]]
  ELSE led

\* The role is written by id, if it differs from the one that was read; a row
\* that is gone by then makes the UPDATE, and the request, fail.
UpdateRoleCommit(h) ==
  LET r == request[h]
  IN  /\ r.op = "role"
      /\ request' = [request EXCEPT ![h] = Idle] /\ UNCHANGED begun
      /\ IF IsRow(r.target) /\ r.role # r.read.role
         THEN user' = [user EXCEPT ![r.target].role = r.role] /\ led' = Noted(r)
         ELSE UNCHANGED <<user, led>>
      /\ UNCHANGED <<fk, tenant, billing, cited, audited>>

\* A row that is gone already is not missed; one an audit row names stays.
RemoveUserCommit(h) ==
  LET r == request[h]
  IN  /\ r.op = "remove"
      /\ request' = [request EXCEPT ![h] = Idle] /\ UNCHANGED begun
      /\ IF IsRow(r.target) /\ ~(fk /\ r.target \in cited)
         THEN user' = [user EXCEPT ![r.target] = Gone] /\ led' = Noted(r)
         ELSE UNCHANGED <<user, led>>
      /\ UNCHANGED <<fk, tenant, billing, cited, audited>>

-------------------------------------------------------------------------------
(* A user onboards a tenant of his own: one commit creates it, a second    *)
(* one moves him there, with the role he has.                              *)

OnboardBegin(h, by, t) ==
  /\ IsRow(by) /\ NewTenant(t)
  /\ tenant' = [tenant EXCEPT ![t] = "live"]
  /\ Reads(h, [op |-> "onboard", of |-> t, by |-> by])
  /\ UNCHANGED <<fk, user, billing, cited, audited, led>>

OnboardCommit(h) ==
  LET r == request[h]
  IN  /\ r.op = "onboard"
      /\ request' = [request EXCEPT ![h] = Idle] /\ UNCHANGED begun
      /\ IF IsRow(r.by) /\ (fk => tenant[r.of] = "live")
         THEN /\ user' = [user EXCEPT ![r.by].tenant = r.of]
              /\ cited' = cited \cup {r.by}
              /\ audited' = audited \cup {r.of}
              /\ led' = IF user[r.by].role # "admin" THEN led
                        ELSE [led EXCEPT ![user[r.by].tenant] = "excused", ![r.of] = "led"]
         ELSE UNCHANGED <<user, cited, audited, led>>
      /\ UNCHANGED <<fk, tenant, billing>>

\* Changing the active framework leaves an audit row that names the admin.
UpdateTenant(by) ==
  /\ May(by, "manage_tenant") /\ tenant[user[by].tenant] = "live"
  /\ cited' = cited \cup {by}
  /\ UNCHANGED <<fk, tenant, user, billing, audited, request, begun, led>>

-------------------------------------------------------------------------------
Staff ==
  \E t \in Tenants :
    \/ \E u \in Users : OnboardTenant(t, u)
    \/ UpdatePlan(t)
    \/ \E h \in Handlers : DeleteTenantBegin(h, t)

Manage ==
  \E by, u \in Users, role \in GivenRoles :
    \/ AddUser(by, u, role)
    \/ \E h \in Handlers : UpdateRoleBegin(h, by, u, role)

Finish(h) ==
  \/ DeleteTenantCommit(h)
  \/ UpdateRoleCommit(h)
  \/ RemoveUserCommit(h)
  \/ OnboardCommit(h)

TenancyNext ==
  \/ Staff
  \/ Manage
  \/ \E by, u \in Users, h \in Handlers : RemoveUserBegin(h, by, u)
  \/ \E by \in Users, t \in Tenants, h \in Handlers : OnboardBegin(h, by, t)
  \/ \E by \in Users : UpdateTenant(by)
  \/ \E h \in Handlers : Finish(h)

TenancySpec == TenancyInit /\ [][TenancyNext]_tenancyVars

-------------------------------------------------------------------------------
(* Properties.                                                             *)

\* A tenant that has had an admin keeps one, unless a request committed over
\* another's change there or an admin left for a tenant of his own (the checks
\* of tenant_users.py, lines 81-86 and 99-104).
AdminLeft == \A t \in Tenants : led[t] = "led" => Admins(t) # {}
===============================================================================
