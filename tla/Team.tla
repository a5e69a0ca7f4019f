--------------------------------- MODULE Team ---------------------------------
(***************************************************************************)
(* The platform's own staff (routes/platform.py, "Internal team            *)
(* management"): members are added, given roles and removed by those who   *)
(* manage the team.  Only a super admin makes another; the last one may    *)
(* be neither demoted nor removed.  As in Tenancy a request reads, is      *)
(* suspended, and commits.  is_active is never changed.                    *)
(***************************************************************************)
EXTENDS Access

CONSTANTS
  Members,       \* ids of the staff, given in ascending order and used once
  First          \* the super admin the platform is set up with

ASSUME TeamAssumption == Members \subseteq Nat /\ First \in Members

VARIABLES
  staff,         \* per id: its role, "unborn" or "gone"
  teamRequest,   \* per handler: what its request has read
  teamBegun,     \* how many of them there were
  raced          \* history: a request committed over another's change

teamVars == <<staff, teamRequest, teamBegun, raced>>

Supers == {m \in Members : staff[m] = "super_admin"}
IsMember(m) == staff[m] \in PlatformRoles
NewMember(m) == staff[m] = "unborn" /\ \A n \in Members : n < m => staff[n] # "unborn"

TeamIdle == [op |-> "idle"]
TeamRequest ==
  {TeamIdle} \cup [op : {"role", "remove"}, target : Members, read : PlatformRoles,
                   role : PlatformRoles, supers : SUBSET Members]

TeamTypeOK ==
  /\ staff \in [Members -> PlatformRoles \cup {"unborn", "gone"}]
  /\ teamRequest \in [Handlers -> TeamRequest]
  /\ teamBegun \in 0..MaxRequests
  /\ raced \in BOOLEAN

TeamInit ==
  /\ staff = [m \in Members |-> IF m = First THEN "super_admin" ELSE "unborn"]
  /\ teamRequest = [h \in Handlers |-> TeamIdle]
  /\ teamBegun = 0
  /\ raced = FALSE

\* Who manages the team gives any role but super_admin, which a super admin
\* gives alone.
MayGive(by, role) ==
  /\ StaffCan(staff[by], "manage_team")
  /\ role = "super_admin" => staff[by] = "super_admin"

AddTeamMember(by, m, role) ==
  /\ NewMember(m) /\ MayGive(by, role)
  /\ staff' = [staff EXCEPT ![m] = role]
  /\ UNCHANGED <<teamRequest, teamBegun, raced>>

\* The count of super admins that lets one of them go.
\* Mutant: one is enough.
EnoughSupersOffByOne(supers) == supers # {}
EnoughSupers(supers) == \E a, b \in supers : a # b

TeamReads(h, op, target, role) ==
  /\ teamRequest[h] = TeamIdle /\ teamBegun < MaxRequests /\ IsMember(target)
  /\ (staff[target] = "super_admin" /\ role # "super_admin") => EnoughSupers(Supers)
  /\ teamRequest' = [teamRequest EXCEPT ![h] =
       [op |-> op, target |-> target, read |-> staff[target], role |-> role, supers |-> Supers]]
  /\ teamBegun' = teamBegun + 1
  /\ UNCHANGED <<staff, raced>>

UpdateTeamRoleBegin(h, by, target, role) ==
  MayGive(by, role) /\ TeamReads(h, "role", target, role)

\* A removal asks for the same count; the role it carries is not used.
RemoveTeamMemberBegin(h, by, target) ==
  /\ StaffCan(staff[by], "manage_team") /\ target # by
  /\ TeamReads(h, "remove", target, "read_only")

\* The target, or one of the super admins counted, is no longer what was read.
TeamOvertaken(r) == staff[r.target] # r.read \/ ~(r.supers \subseteq Supers)

TeamWrite(h, op, value) ==
  LET r == teamRequest[h]
  IN  /\ r.op = op
      /\ teamRequest' = [teamRequest EXCEPT ![h] = TeamIdle]
      /\ IF IsMember(r.target) /\ value # r.read
         THEN /\ staff' = [staff EXCEPT ![r.target] = value]
              /\ raced' = (raced \/ TeamOvertaken(r))
         ELSE UNCHANGED <<staff, raced>>
      /\ UNCHANGED teamBegun

\* Written by id, when it differs from the role read; an UPDATE of a row that
\* is gone fails, a second DELETE of one is not missed.
UpdateTeamRoleCommit(h) == TeamWrite(h, "role", teamRequest[h].role)
RemoveTeamMemberCommit(h) == TeamWrite(h, "remove", "gone")

TeamNext ==
  \/ \E by, m \in Members, role \in PlatformRoles :
       \/ AddTeamMember(by, m, role)
       \/ \E h \in Handlers : UpdateTeamRoleBegin(h, by, m, role)
  \/ \E by, m \in Members, h \in Handlers : RemoveTeamMemberBegin(h, by, m)
  \/ \E h \in Handlers : UpdateTeamRoleCommit(h) \/ RemoveTeamMemberCommit(h)

TeamSpec == TeamInit /\ [][TeamNext]_teamVars

\* A super admin is left, unless a request committed over another's change:
\* then each of two may have counted the other (platform.py, lines 328-331
\* and 346-349).
SuperLeft == raced \/ Supers # {}
===============================================================================
