-------------------------------- MODULE Access --------------------------------
(***************************************************************************)
(* Who may do what: the roles of a tenant's users and of the platform's    *)
(* own staff, and the capabilities each holds, which every handler checks  *)
(* first (core/tenant_guard.py, core/platform_security.py).  The modules   *)
(* of the platform's components extend it.                                 *)
(***************************************************************************)
EXTENDS Naturals, FiniteSets

CONSTANTS
  Tenants,       \* ids of tenants, given in ascending order and used once
  Handlers,      \* request slots: handlers that may be suspended at an await
  MaxRequests,   \* bound on the requests of a kind that read and then commit (TLC)
  None           \* the absent value

ASSUME AccessAssumption == Tenants \subseteq Nat /\ None \notin Tenants /\ MaxRequests \in Nat

\* The roles a tenant's admin may give.
TenantRoles == {"admin", "manager", "engineer", "auditor"}

\* The capability matrix of the tenant layer.
TENANT_CAPABILITIES ==
  [ manage_tenant     |-> {"admin"},
    manage_connectors |-> {"admin", "engineer"},
    work_tickets      |-> {"admin", "manager", "engineer"},
    approve_tickets   |-> {"admin", "manager"},
    manage_evidence   |-> {"admin", "manager", "engineer"},
    view              |-> TenantRoles ]

\* An unknown capability is held by nobody.
TenantCan(role, cap) ==
  cap \in DOMAIN TENANT_CAPABILITIES /\ role \in TENANT_CAPABILITIES[cap]

\* The roles of the platform's staff, and what each may do.
PlatformRoles == {"super_admin", "admin", "analyst", "read_only"}

CAPABILITIES ==
  [ view           |-> PlatformRoles,
    work_in_tenant |-> {"super_admin", "admin", "analyst"},
    impersonate    |-> {"super_admin", "admin", "analyst"},
    manage_tenants |-> {"super_admin", "admin"},
    manage_team    |-> {"super_admin", "admin"},
    manage_billing |-> {"super_admin"} ]

StaffCan(role, cap) == cap \in DOMAIN CAPABILITIES /\ role \in CAPABILITIES[cap]
===============================================================================
