------------------------------ MODULE ScanJobs ------------------------------
(***************************************************************************)
(* Scan jobs on the platform: the scan_jobs table, the console operations  *)
(* that queue a job, and the two collector endpoints that dispatch and     *)
(* complete it (backend/app/api/routes/collector_ingest.py).  A handler is *)
(* a coroutine with its own database session: what it read before an await *)
(* may be stale when it commits, and SQLAlchemy then writes the columns it *)
(* changed, by primary key and unconditionally.                            *)
(*                                                                         *)
(* A job's findings carry its number as their connector_id, so a re-scan   *)
(* of the connector that has this number, of whatever tenant, clears them  *)
(* (_run_scan, connectors.py).  The rest of a scan is in Findings.         *)
(*                                                                         *)
(* Left out: job attributes the handlers only copy (system_type, target,   *)
(* framework, origin, time stamps), the agents' display columns, and the   *)
(* tickets that keep a finding from being cleared.                         *)
(***************************************************************************)
EXTENDS Naturals, FiniteSets

CONSTANTS
  Tenants,
  Collectors,
  TenantOf,    \* TenantOf[c]: the tenant collector c was registered for
  Jobs,        \* job ids, each queued at most once
  ConnOf,      \* ConnOf[j]: the tenant of the connector with number j, or None
  Polls,       \* slots for poll_jobs requests in progress
  Submits,     \* slots for submit_results requests in progress
  Scans,       \* slots for re-scans of connectors in progress
  MaxRuns,     \* bound: submissions stored per job
  MaxLosses,   \* bound: poll answers that get lost
  EnforceFK,   \* does the database enforce foreign keys (PostgreSQL does)?
  None

ASSUME ScanJobsAssumption ==
  /\ TenantOf \in [Collectors -> Tenants]
  /\ ConnOf \in [Jobs -> Tenants \cup {None}]
  /\ MaxRuns \in Nat /\ MaxLosses \in Nat
  /\ EnforceFK \in BOOLEAN
  /\ None \notin Tenants \cup Collectors \cup Jobs

VARIABLES
  live,        \* collectors not deleted
  status,      \* ScanJob.status, or "none" before the job is queued
  owner,       \* ScanJob.tenant_id
  aim,         \* ScanJob.collector_id, None when not given
  poll,        \* poll[p]: the collector polling and the jobs it selected
  sub,         \* sub[s]: the submission in progress, its job as it was read
  held,        \* held[c]: jobs collector c was told to run
  scan,        \* scan[r]: the connector scanned, the reports it will clear
  found,       \* history: found[t]: jobs findings were stored for under tenant t
  stored,      \* history: stored[j]: reports on j whose findings were stored
  rows,        \* rows[j]: those of 1..stored[j] whose findings are there
  scanned,     \* history: scanned[j]: reports stored when the last scan to clear
               \* findings of j selected them
  handed,      \* history: jobs a poll has committed as dispatched
  before,      \* history: before[p]: handed when poll p made its query
  losses       \* poll answers lost so far

findVars == <<scan, found, stored, rows, scanned>>
handVars == <<handed, before>>
vars == <<live, status, owner, aim, poll, sub, held, findVars, handVars, losses>>

Statuses == {"none", "pending", "dispatched", "done", "error"}
IdlePoll == [col |-> None, sel |-> {}]
IdleSub  == [col |-> None, job |-> None, read |-> "none"]
IdleScan == [job |-> None, sel |-> {}, upto |-> 0]

TypeOK ==
  /\ live \subseteq Collectors
  /\ status \in [Jobs -> Statuses]
  /\ owner \in [Jobs -> Tenants \cup {None}]
  /\ aim \in [Jobs -> Collectors \cup {None}]
  /\ poll \in [Polls -> [col : Collectors \cup {None}, sel : SUBSET Jobs]]
  /\ sub \in [Submits -> [col : Collectors \cup {None}, job : Jobs \cup {None},
                          read : Statuses]]
  /\ held \in [Collectors -> SUBSET Jobs]
  /\ scan \in [Scans -> [job : Jobs \cup {None}, sel : SUBSET Nat, upto : Nat]]
  /\ found \in [Tenants -> SUBSET Jobs]
  /\ stored \in [Jobs -> Nat]
  /\ rows \in [Jobs -> SUBSET Nat]
  /\ scanned \in [Jobs -> Nat]
  /\ handed \subseteq Jobs
  /\ before \in [Polls -> SUBSET Jobs]
  /\ losses \in Nat

Init ==
  /\ live = Collectors
  /\ status = [j \in Jobs |-> "none"]
  /\ owner = [j \in Jobs |-> None]
  /\ aim = [j \in Jobs |-> None]
  /\ poll = [p \in Polls |-> IdlePoll]
  /\ sub = [s \in Submits |-> IdleSub]
  /\ held = [c \in Collectors |-> {}]
  /\ scan = [r \in Scans |-> IdleScan]
  /\ found = [t \in Tenants |-> {}]
  /\ stored = [j \in Jobs |-> 0]
  /\ rows = [j \in Jobs |-> {}]
  /\ scanned = [j \in Jobs |-> 0]
  /\ handed = {}
  /\ before = [p \in Polls |-> {}]
  /\ losses = 0
-----------------------------------------------------------------------------
(***************************************************************************)
(* The console.                                                            *)
(***************************************************************************)

\* A user of tenant t queues a job (scan_now), or the job of one agent of an
\* asset group (scan_group, the scheduler).  c is the collector it names: the
\* agent's, or the one given in the request, which is not checked, or None.
Queue(j, t, c) ==
  /\ status[j] = "none"
  /\ EnforceFK /\ c # None => c \in live
  /\ status' = [status EXCEPT ![j] = "pending"]
  /\ owner' = [owner EXCEPT ![j] = t]
  /\ aim' = [aim EXCEPT ![j] = c]
  /\ UNCHANGED <<live, poll, sub, held, findVars, handVars, losses>>

\* An admin deletes a collector; where foreign keys are enforced a job that
\* names it makes the deletion fail.
DeleteCollector(c) ==
  /\ c \in live
  /\ EnforceFK => \A j \in Jobs : aim[j] # c
  /\ live' = live \ {c}
  /\ UNCHANGED <<status, owner, aim, poll, sub, held, findVars, handVars, losses>>
-----------------------------------------------------------------------------
(***************************************************************************)
(* GET /api/collector/jobs.                                                *)
(***************************************************************************)

\* Mutant: the tenant filter is forgotten.
SelectableAnyTenant(c) == {j \in Jobs : status[j] = "pending"}

\* The query: every pending job of the tenant, whatever collector it names.
Selectable(c) == {j \in Jobs : status[j] = "pending" /\ owner[j] = TenantOf[c]}

PollRead(p, c) ==
  /\ poll[p] = IdlePoll
  /\ c \in live
  /\ poll' = [poll EXCEPT ![p] = [col |-> c, sel |-> Selectable(c)]]
  /\ before' = [before EXCEPT ![p] = handed]
  /\ UNCHANGED <<live, status, owner, aim, sub, held, findVars, handed, losses>>

\* Mutant: the statuses are left alone (the commit is forgotten).
MarkNothing(p) == status

\* The UPDATE of every row selected, by id.
MarkDispatched(p) ==
  [j \in Jobs |-> IF j \in poll[p].sel THEN "dispatched" ELSE status[j]]

\* A poll that ends: its slot is free, and what it wrote is handed out.
PollEnds(p, sel) ==
  /\ poll' = [poll EXCEPT ![p] = IdlePoll]
  /\ handed' = handed \cup sel
  /\ before' = [before EXCEPT ![p] = {}]

\* The commit; the answer reaches the collector.
PollCommit(p) ==
  /\ poll[p] # IdlePoll
  /\ status' = MarkDispatched(p)
  /\ held' = [held EXCEPT ![poll[p].col] = @ \cup poll[p].sel]
  /\ PollEnds(p, poll[p].sel)
  /\ UNCHANGED <<live, owner, aim, sub, findVars, losses>>

\* The commit; the answer does not reach the collector.
PollCommitLost(p) ==
  /\ poll[p] # IdlePoll
  /\ losses < MaxLosses
  /\ losses' = losses + 1
  /\ status' = MarkDispatched(p)
  /\ PollEnds(p, poll[p].sel)
  /\ UNCHANGED <<live, owner, aim, sub, held, findVars>>

\* The backend stops between the query and the commit.
PollAbort(p) ==
  /\ poll[p] # IdlePoll
  /\ losses < MaxLosses
  /\ losses' = losses + 1
  /\ PollEnds(p, {})
  /\ UNCHANGED <<live, status, owner, aim, sub, held, findVars>>
-----------------------------------------------------------------------------
(***************************************************************************)
(* POST /api/collector/results.                                            *)
(***************************************************************************)

\* The job must exist and be of the collector's tenant; anything else is 404.
MayReport(c, j) == status[j] # "none" /\ owner[j] = TenantOf[c]

\* Collector c reports on j, a job it holds or any id it may come up with;
\* j = None is a result without a job, which is what the agents send.
SubmitRead(s, c, j) ==
  /\ sub[s] = IdleSub
  /\ c \in live
  /\ j \in Jobs => MayReport(c, j) /\ stored[j] < MaxRuns
  /\ sub' = [sub EXCEPT ![s] =
               [col |-> c, job |-> j,
                read |-> IF j \in Jobs THEN status[j] ELSE "none"]]
  /\ UNCHANGED <<live, status, owner, aim, poll, held, findVars, handVars, losses>>

\* An attribute set to the value that was read is not part of the UPDATE.
SetStatus(s, new) ==
  status' = IF sub[s].job \in Jobs /\ sub[s].read # new
            THEN [status EXCEPT ![sub[s].job] = new]
            ELSE status

\* Mutant: the status is committed first, and the findings are lost.
StoreNothing(s, j) == UNCHANGED <<found, stored, rows>>

\* The findings for job j, each stamped with the tenant of the token.
StoreFindings(s, j) ==
  /\ found' = [found EXCEPT ![TenantOf[sub[s].col]] = @ \cup {j}]
  /\ stored' = [stored EXCEPT ![j] = @ + 1]
  /\ rows' = [rows EXCEPT ![j] = @ \cup {stored[j] + 1}]

\* The output parses: findings and status in one commit.  Where foreign keys
\* are enforced and no connector has the job's number, only a report without
\* findings comes through.
SubmitStore(s) ==
  /\ sub[s] # IdleSub
  /\ \/ /\ sub[s].job \in Jobs
        /\ stored[sub[s].job] < MaxRuns
        /\ StoreFindings(s, sub[s].job)
     \/ sub[s].job = None /\ UNCHANGED <<found, stored, rows>>
  /\ SetStatus(s, "done")
  /\ sub' = [sub EXCEPT ![s] = IdleSub]
  /\ UNCHANGED <<live, owner, aim, poll, held, scan, scanned, handVars, losses>>

\* The parser raises: the job becomes "error", the answer is 400.
SubmitUnparsable(s) ==
  /\ sub[s] # IdleSub
  /\ SetStatus(s, "error")
  /\ sub' = [sub EXCEPT ![s] = IdleSub]
  /\ UNCHANGED <<live, owner, aim, poll, held, findVars, handVars, losses>>

\* The system type is unknown (400), the database refuses the findings (they
\* carry the job's id as connector_id, a foreign key of connectors), or the
\* request dies: nothing is written.
SubmitDropped(s) ==
  /\ sub[s] # IdleSub
  /\ sub' = [sub EXCEPT ![s] = IdleSub]
  /\ UNCHANGED <<live, status, owner, aim, poll, held, findVars, handVars, losses>>
-----------------------------------------------------------------------------
(***************************************************************************)
(* The re-scan of the connector with number j, as far as the findings of   *)
(* job j go.                                                               *)
(***************************************************************************)

\* The scanner has returned; the open findings whose connector_id is j are
\* selected, whoever stored them and under whatever tenant.
RescanRead(r, j) ==
  /\ scan[r] = IdleScan
  /\ ConnOf[j] # None
  /\ scan' = [scan EXCEPT ![r] = [job |-> j, sel |-> rows[j], upto |-> stored[j]]]
  /\ UNCHANGED <<live, status, owner, aim, poll, sub, held, found, stored, rows,
                 scanned, handVars, losses>>

\* The commit deletes what was selected.
RescanCommit(r) ==
  /\ scan[r] # IdleScan
  /\ LET j == scan[r].job  n == scan[r].upto
     IN  /\ rows' = [rows EXCEPT ![j] = @ \ scan[r].sel]
         /\ scanned' = [scanned EXCEPT ![j] = IF @ < n THEN n ELSE @]
  /\ scan' = [scan EXCEPT ![r] = IdleScan]
  /\ UNCHANGED <<live, status, owner, aim, poll, sub, held, found, stored, handVars,
                 losses>>

\* The commit is refused, or the backend stops.
RescanAbort(r) ==
  /\ scan[r] # IdleScan
  /\ scan' = [scan EXCEPT ![r] = IdleScan]
  /\ UNCHANGED <<live, status, owner, aim, poll, sub, held, found, stored, rows,
                 scanned, handVars, losses>>
-----------------------------------------------------------------------------
QueueAny    == \E j \in Jobs, t \in Tenants, c \in Collectors \cup {None} :
                 Queue(j, t, c)
DeleteAny   == \E c \in Collectors : DeleteCollector(c)
PollNext    == \E p \in Polls : \/ \E c \in Collectors : PollRead(p, c)
                                \/ PollCommit(p)
                                \/ PollCommitLost(p)
                                \/ PollAbort(p)
SubmitNext  == \E s \in Submits : \/ \E c \in Collectors, j \in Jobs \cup {None} :
                                       SubmitRead(s, c, j)
                                  \/ SubmitStore(s)
                                  \/ SubmitUnparsable(s)
                                  \/ SubmitDropped(s)

RescanNext  == \E r \in Scans : \/ \E j \in Jobs : RescanRead(r, j)
                                \/ RescanCommit(r)
                                \/ RescanAbort(r)

Next == QueueAny \/ DeleteAny \/ PollNext \/ SubmitNext \/ RescanNext

Spec == Init /\ [][Next]_vars
-----------------------------------------------------------------------------
(***************************************************************************)
(* Properties.                                                             *)
(***************************************************************************)

\* Tenants are isolated, whatever ids collectors send and however requests
\* overlap: a collector is told only of jobs of its own tenant, and findings
\* for a job are stored under the tenant that queued it
\* (collector_ingest.py: "Tenant is derived from the token").
TenantIsolation ==
  /\ \A c \in Collectors : \A j \in held[c] : owner[j] = TenantOf[c]
  /\ \A t \in Tenants : \A j \in found[t] : owner[j] = t

\* What makes it inductive: requests in progress are of one tenant too.
IsolationInv ==
  /\ TypeOK
  /\ TenantIsolation
  /\ \A j \in Jobs : status[j] = "none" <=> owner[j] = None
  /\ \A p \in Polls : \A j \in poll[p].sel :
       poll[p].col \in Collectors /\ owner[j] = TenantOf[poll[p].col]
  /\ \A p \in Polls : poll[p].col = None => poll[p] = IdlePoll
  /\ \A s \in Submits : sub[s].col = None => sub[s] = IdleSub
  /\ \A s \in Submits : sub[s].job \in Jobs =>
       sub[s].col \in Collectors /\ owner[sub[s].job] = TenantOf[sub[s].col]

\* A job is never shown as done without its findings.  Status and findings are
\* one commit, and no late poll or report takes them back; only a re-scan of
\* the connector with the job's number does, and never the findings of a
\* report that was stored after the scan had selected what it clears.
DoneHasFindings ==
  \A j \in Jobs :
    /\ status[j] = "done" => stored[j] > 0
    /\ (scanned[j] + 1) .. stored[j] \subseteq rows[j]

\* What makes it inductive.
FindingsInv ==
  /\ DoneHasFindings
  /\ \A j \in Jobs : rows[j] \subseteq 1 .. stored[j]
  /\ \A r \in Scans : /\ scan[r].sel \subseteq 1 .. scan[r].upto
                      /\ scan[r].job = None => scan[r] = IdleScan

\* "mark them dispatched": a job that a poll has handed out is not handed out
\* by a poll that comes later, whatever reports, failures and slow polls came
\* between; only overlapping polls hand it out twice.  So a job whose answer
\* was lost is not handed out again either.
HandedOutOnce ==
  \A p \in Polls : poll[p].sel \cap before[p] = {}

\* What makes it inductive: a job handed out is never pending again.
HandedInv ==
  /\ HandedOutOnce
  /\ \A j \in handed : status[j] \notin {"none", "pending"}
=============================================================================
