------------------------------ MODULE Scheduler ------------------------------
(***************************************************************************)
(* Asset groups and the scheduling engine.  A background task of the       *)
(* backend (services/scheduler_engine.py) repeats a pass: it loads the     *)
(* groups that are due, queues one scan job for each of their agents,      *)
(* moves each group's next run on, and commits once for all of them.       *)
(* Meanwhile users create, change, scan and delete groups                  *)
(* (api/routes/scheduler.py) and delete agents with their collector.       *)
(* Every transaction writes the columns it changed, by id; a row it is to  *)
(* update that is gone, or a job naming an agent that is gone where        *)
(* foreign keys are enforced, rolls all of it back.                        *)
(*                                                                         *)
(* Left out: names, descriptions, last_run_at (shown, never read back) and *)
(* what a job carries besides its agent; ScanJobs has the life of a job.   *)
(***************************************************************************)
EXTENDS NextRun, FiniteSets

CONSTANTS
  Groups,      \* ids of asset groups, each used once
  Agents,      \* the agents registered at first
  TenantOf,    \* the tenant of a group or an agent
  PlanSet,     \* the schedules users ask for
  MemberSets,  \* the lists of agents users ask for, whoever they belong to
  Requests,    \* slots for requests in progress
  LastDay,     \* bound: the clock stops at the end of this day
  MaxRequests, \* bound: requests to change or scan a group
  MaxCrashes,  \* bound: stops of the backend
  EnforceFK    \* does the database enforce foreign keys (PostgreSQL does)?

ASSUME SchedulerAssumption ==
  /\ PlanSet \subseteq Plans
  /\ MemberSets \subseteq SUBSET Agents
  /\ LastDay \in Nat /\ MonthStart[0] = 0 /\ LastDay < MonthStart[Months]
  /\ MaxRequests \in Nat /\ MaxCrashes \in Nat
  /\ EnforceFK \in BOOLEAN
  /\ IsFiniteSet(Agents)

VARIABLES
  now,         \* datetime.utcnow()
  stored,      \* the groups in the table
  used,        \* the ids ever given to a group
  row,         \* row[g]: schedule, time, day, agent_ids and next_run_at of g
  agents,      \* the agents not deleted
  jobs,        \* <<g, a>> for the jobs queued for agent a as a member of g
  pass,        \* the pass in progress
  req,         \* req[r]: the request in progress
  requests,    \* requests so far
  crashes,     \* stops so far
  runs,        \* history: how often each group ran on a schedule the code knows
  served,      \* history: the due instants those runs were for
  raced        \* history: groups written while another writer had them loaded

history == <<runs, served, raced>>
vars == <<now, stored, used, row, agents, jobs, pass, req, requests, crashes, history>>

Times == Instants \cup {None}
Rows  == [kind : Kinds, tod : Tods, day : Days, members : SUBSET Agents, next : Times]

Blank   == [kind |-> "manual", tod |-> 0, day |-> [weekday |-> 0, dom |-> 1],
            members |-> {}, next |-> None]
NoPass  == [due |-> {}, left |-> {}, old |-> [g \in Groups |-> Blank],
            new |-> [g \in Groups |-> Blank], jobs |-> {}]
IdleReq == [kind |-> "idle", groups |-> {}, old |-> Blank, new |-> Blank, jobs |-> {}]

Work == SUBSET (Groups \X Agents)

TypeOK ==
  /\ now \in Instants
  /\ stored \subseteq used /\ used \subseteq Groups
  /\ row \in [Groups -> Rows]
  /\ agents \subseteq Agents
  /\ jobs \in Work
  /\ pass \in [due : SUBSET Groups, left : SUBSET Groups, old : [Groups -> Rows],
               new : [Groups -> Rows], jobs : Work]
  /\ req \in [Requests -> [kind : {"idle", "update", "scan"}, groups : SUBSET Groups,
                           old : Rows, new : Rows, jobs : Work]]
  /\ requests \in Nat /\ crashes \in Nat
  /\ runs \in [Groups -> Nat]
  /\ served \in [Groups -> SUBSET Instants]
  /\ raced \subseteq Groups

Init ==
  /\ now = At(0, 0)
  /\ stored = {} /\ used = {}
  /\ row = [g \in Groups |-> Blank]
  /\ agents = Agents
  /\ jobs = {}
  /\ pass = NoPass
  /\ req = [r \in Requests |-> IdleReq]
  /\ requests = 0 /\ crashes = 0
  /\ runs = [g \in Groups |-> 0]
  /\ served = [g \in Groups |-> {}]
  /\ raced = {}
-----------------------------------------------------------------------------
\* What an UPDATE leaves of a row: the columns that were changed are written.
Merge(current, old, new) ==
  [f \in DOMAIN current |-> IF new[f] # old[f] THEN new[f] ELSE current[f]]

\* A schedule and a list of agents, with the next run computed from now.
Planned(plan, members) ==
  [kind |-> plan.kind, tod |-> plan.tod, day |-> plan.day, members |-> members,
   next |-> NextOf(plan, now)]

\* Mutant: any agent whose id is listed.
ResolvedAny(g, members) == {<<g, a>> : a \in members \cap agents}

\* One job for each listed agent that is there and of the group's tenant.
Resolved(g, members) ==
  {<<g, a>> : a \in {b \in members \cap agents : TenantOf[b] = TenantOf[g]}}

\* Can a transaction that updates the groups and inserts the jobs commit?
Storable(groups, new) ==
  /\ groups \subseteq stored
  /\ EnforceFK => \A w \in new : w[2] \in agents

\* A request that is going to update the row of g.
Updates(r, g) == req[r].kind = "update" /\ g \in req[r].groups

\* The clock.
Tick ==
  /\ now' = IF now.tod < MaxTod THEN At(now.day, now.tod + 1) ELSE At(now.day + 1, 0)
  /\ now'.day <= LastDay
  /\ UNCHANGED <<stored, used, row, agents, jobs, pass, req, requests, crashes, history>>
-----------------------------------------------------------------------------
(***************************************************************************)
(* The engine's pass.                                                      *)
(***************************************************************************)

IsDue(g) ==
  /\ g \in stored /\ row[g].kind # "manual"
  /\ row[g].next # None /\ ~Later(row[g].next, now)

PassBegin ==
  /\ pass = NoPass
  /\ \E g \in Groups : IsDue(g)
  /\ LET due == {g \in Groups : IsDue(g)}
     IN  pass' = [due |-> due, left |-> due, old |-> row, new |-> row, jobs |-> {}]
  /\ UNCHANGED <<now, stored, used, row, agents, jobs, req, requests, crashes, history>>

\* Mutant: next_run_at is left as it was.
AdvancedNot(g) == pass.old[g]

Advanced(g) == [pass.old[g] EXCEPT !.next = NextOf(pass.old[g], now)]

\* One group of the loop: its agents are read, its row is changed in memory.
PassResolve(g) ==
  /\ g \in pass.left
  /\ pass' = [pass EXCEPT !.left = @ \ {g},
                          !.new[g] = Advanced(g),
                          !.jobs = @ \cup Resolved(g, pass.old[g].members)]
  /\ UNCHANGED <<now, stored, used, row, agents, jobs, req, requests, crashes, history>>

\* The groups of the pass that a daily, weekly or monthly schedule made due.  Any
\* other schedule string makes its group due again at once (Other of NextRun), and
\* what it repeats is no run of the history.
OnSchedule == {g \in pass.due : pass.old[g].kind # "other"}

\* One commit for all the groups of the pass.
PassCommit ==
  /\ pass # NoPass /\ pass.left = {}
  /\ Storable(pass.due, pass.jobs)
  /\ row' = [g \in Groups |-> IF g \in pass.due
                              THEN Merge(row[g], pass.old[g], pass.new[g])
                              ELSE row[g]]
  /\ jobs' = jobs \cup pass.jobs
  /\ runs' = [g \in Groups |-> IF g \in OnSchedule THEN runs[g] + 1 ELSE runs[g]]
  /\ served' = [g \in Groups |-> IF g \in OnSchedule
                                 THEN served[g] \cup {pass.old[g].next}
                                 ELSE served[g]]
  /\ raced' = raced \cup {g \in pass.due : \E r \in Requests : Updates(r, g)}
  /\ pass' = NoPass
  /\ UNCHANGED <<now, stored, used, agents, req, requests, crashes>>

\* Mutant: the exception ends the loop, there is no further pass.
PassRefusedForGood ==
  /\ pass # NoPass /\ pass.left = {}
  /\ ~Storable(pass.due, pass.jobs)
  /\ UNCHANGED vars

\* The commit fails, for all the groups; the loop logs it and goes on.
PassRefused ==
  /\ pass # NoPass /\ pass.left = {}
  /\ ~Storable(pass.due, pass.jobs)
  /\ pass' = NoPass
  /\ UNCHANGED <<now, stored, used, row, agents, jobs, req, requests, crashes, history>>
-----------------------------------------------------------------------------
(***************************************************************************)
(* The console.                                                            *)
(***************************************************************************)

CreateGroup(g, plan, members) ==
  /\ g \notin used
  /\ used' = used \cup {g}
  /\ stored' = stored \cup {g}
  /\ row' = [row EXCEPT ![g] = Planned(plan, members)]
  /\ UNCHANGED <<now, agents, jobs, pass, req, requests, crashes, history>>

DeleteGroup(g) ==
  /\ g \in stored
  /\ stored' = stored \ {g}
  /\ UNCHANGED <<now, used, row, agents, jobs, pass, req, requests, crashes, history>>

\* Mutant: next_run_at is not recomputed when the schedule changes.
ChangedStale(g, plan, members) == [Planned(plan, members) EXCEPT !.next = row[g].next]

\* The row after update_group.  What the request leaves out keeps its value (to
\* change the name alone is to ask for PlanOf(g) and the members there are), and
\* next_run_at is computed in any case.
Changed(g, plan, members) == Planned(plan, members)

PlanOf(g) == [kind |-> row[g].kind, tod |-> row[g].tod, day |-> row[g].day]

\* update_group loads the row and changes it.
UpdateRead(r, g, plan, members) ==
  /\ req[r] = IdleReq /\ requests < MaxRequests
  /\ g \in stored
  /\ requests' = requests + 1
  /\ req' = [req EXCEPT ![r] = [kind |-> "update", groups |-> {g}, old |-> row[g],
                                new |-> Changed(g, plan, members), jobs |-> {}]]
  /\ UNCHANGED <<now, stored, used, row, agents, jobs, pass, crashes, history>>

\* scan_group loads the row and the agents.
ScanRead(r, g) ==
  /\ req[r] = IdleReq /\ requests < MaxRequests
  /\ g \in stored
  /\ requests' = requests + 1
  /\ req' = [req EXCEPT ![r] = [kind |-> "scan", groups |-> {g}, old |-> row[g],
                                new |-> row[g], jobs |-> Resolved(g, row[g].members)]]
  /\ UNCHANGED <<now, stored, used, row, agents, jobs, pass, crashes, history>>

RequestCommit(r) ==
  /\ req[r] # IdleReq
  /\ Storable(req[r].groups, req[r].jobs)
  /\ row' = [g \in Groups |-> IF g \in req[r].groups
                              THEN Merge(row[g], req[r].old, req[r].new)
                              ELSE row[g]]
  /\ jobs' = jobs \cup req[r].jobs
  /\ raced' = IF req[r].kind = "update"
              THEN raced \cup {g \in req[r].groups :
                               \/ g \in pass.due
                               \/ \E q \in Requests \ {r} : Updates(q, g)}
              ELSE raced
  /\ req' = [req EXCEPT ![r] = IdleReq]
  /\ UNCHANGED <<now, stored, used, agents, pass, requests, crashes, runs, served>>

\* 500, and nothing is written.
RequestRefused(r) ==
  /\ req[r] # IdleReq
  /\ ~Storable(req[r].groups, req[r].jobs)
  /\ req' = [req EXCEPT ![r] = IdleReq]
  /\ UNCHANGED <<now, stored, used, row, agents, jobs, pass, requests, crashes, history>>

\* An agent goes with its collector, unless a job refers to it.
DeleteAgent(a) ==
  /\ a \in agents
  /\ EnforceFK => \A w \in jobs : w[2] # a
  /\ agents' = agents \ {a}
  /\ UNCHANGED <<now, stored, used, row, jobs, pass, req, requests, crashes, history>>
-----------------------------------------------------------------------------
\* The backend stops; what was not committed is gone.
Crash ==
  /\ crashes < MaxCrashes
  /\ crashes' = crashes + 1
  /\ pass' = NoPass
  /\ req' = [r \in Requests |-> IdleReq]
  /\ UNCHANGED <<now, stored, used, row, agents, jobs, requests, history>>

Engine == PassBegin \/ (\E g \in Groups : PassResolve(g)) \/ PassCommit \/ PassRefused

Console ==
  \/ \E g \in Groups :
       \/ \E plan \in PlanSet, members \in MemberSets : CreateGroup(g, plan, members)
       \/ DeleteGroup(g)
  \/ \E r \in Requests, g \in Groups :
       \/ \E plan \in PlanSet \cup {PlanOf(g)},
             members \in MemberSets \cup {row[g].members} : UpdateRead(r, g, plan, members)
       \/ ScanRead(r, g)
  \/ \E r \in Requests : RequestCommit(r) \/ RequestRefused(r)
  \/ \E a \in Agents : DeleteAgent(a)

Next == Tick \/ Engine \/ Console \/ Crash

Spec == Init /\ [][Next]_vars

\* The loop goes on for as long as the backend runs, and a restart starts it.
FairSpec == Spec /\ WF_vars(Engine)
-----------------------------------------------------------------------------
(***************************************************************************)
(* Properties.                                                             *)
(***************************************************************************)

\* A group queues jobs for agents of its own tenant only, whatever ids its
\* list contains.
JobsStayInTenant == \A w \in jobs : TenantOf[w[1]] = TenantOf[w[2]]

\* No due instant of a daily, weekly or monthly schedule is run twice: not by the
\* pass after a failed one, not after a restart, and not because the group had
\* another schedule string meanwhile, under which the engine queues it at every
\* pass; unless a pass or a request and another request overlapped.
RunsOnce == \A g \in Groups \ raced : runs[g] = Cardinality(served[g])

\* The next run shown is one of the group's schedule, and a group on manual
\* has none, unless two writers overlapped.
NextFitsPlan ==
  \A g \in stored \ raced :
    /\ row[g].kind = "manual" <=> row[g].next = None
    /\ row[g].next # None => Matches(row[g], row[g].next)

\* A group due by a schedule the code knows does not stay due: a failing pass is
\* repeated, a deleted group or agent holds the others up for one pass only, and
\* so does a group that another schedule string makes due at every pass.
DueSettles == \A g \in Groups : IsDue(g) ~> ~IsDue(g) \/ row[g].kind = "other"

\* "A due scan fires on the next tick rather than being lost": as long as the
\* schedule stays the same the next run moves on only when the due one ran.
DueIsServed ==
  [][\A g \in Groups :
       IsDue(g) /\ row'[g].next # row[g].next
         /\ row'[g].kind = row[g].kind /\ row'[g].tod = row[g].tod
         /\ row'[g].day = row[g].day
       => row[g].next \in served'[g]]_vars
=============================================================================
