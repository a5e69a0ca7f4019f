-------------------------- MODULE Scheduler_proofs --------------------------
(***************************************************************************)
(* Proofs about Scheduler for any tenants, groups, agents and overlapping  *)
(* requests.                                                               *)
(***************************************************************************)
EXTENDS Scheduler, FiniteSetTheorems, TLAPS

-------------------------------------------------------------------------------
(* The computed next run is the first instant of the plan after now, for   *)
(* every plan, every instant and every table of months.                    *)

\* Anything with the fields of a plan: a group's row, too.
IsPlan(p) == p.kind \in Kinds /\ p.tod \in Tods /\ p.day \in Days

\* The days the table of months covers.
CoveredDays == MonthStart[0] .. MonthStart[Months] - 1

\* The month of a day is the one of the table that contains it.
LEMMA MonthFound ==
  ASSUME NEW t \in Instants, t.day \in CoveredDays
  PROVE  /\ MonthOf(t) \in 0 .. Months - 1
         /\ MonthStart[MonthOf(t)] <= t.day
         /\ t.day < MonthStart[MonthOf(t) + 1]
  BY NextRunAssumption DEF CoveredDays, MonthOf

\* A daily plan runs at its time, today or tomorrow.
LEMMA DailyFirst ==
  ASSUME NEW p, IsPlan(p), p.kind = "daily", NEW t \in Instants
  PROVE  Daily(p, t) \in Instants /\ IsFirstAfter(p, t, Daily(p, t))
  BY NextRunAssumption DEF IsPlan, Instants, Tods, IsFirstAfter, Matches, Later, At, Daily

\* The days that fall on a weekday: one in every seven.
LEMMA Weekdays ==
  ASSUME NEW w \in 0 .. 6, NEW d \in Nat
  PROVE  LET delta == (w - d) % 7
         IN  /\ delta \in 0 .. 6
             /\ (d + delta) % 7 = w /\ (d + delta + 7) % 7 = w
             /\ \A e \in Nat : e >= d /\ e % 7 = w =>
                  e = d + delta \/ e = d + delta + 7 \/ e > d + delta + 7
  OBVIOUS

\* A weekly plan runs on its weekday, within seven days.
LEMMA WeeklyFirst ==
  ASSUME NEW p, IsPlan(p), p.kind = "weekly", NEW t \in Instants
  PROVE  Weekly(p, t) \in Instants /\ IsFirstAfter(p, t, Weekly(p, t))
<1>. DEFINE delta == (p.day.weekday - t.day) % 7
            nxt   == At(t.day + delta, p.tod)
            res   == IF Later(nxt, t) THEN nxt ELSE At(t.day + delta + 7, p.tod)
<1>1. /\ t.day \in Nat /\ t.tod \in 0 .. MaxTod
      /\ p.day.weekday \in 0 .. 6 /\ p.tod \in 0 .. MaxTod /\ MaxTod \in Nat
  BY NextRunAssumption DEF Instants, Tods, IsPlan, Days
<1>2. /\ delta \in 0 .. 6
      /\ (t.day + delta) % 7 = p.day.weekday /\ (t.day + delta + 7) % 7 = p.day.weekday
      /\ \A e \in Nat : e >= t.day /\ e % 7 = p.day.weekday =>
           e = t.day + delta \/ e = t.day + delta + 7 \/ e > t.day + delta + 7
  BY <1>1, Weekdays
<1>. HIDE DEF delta
<1>3. Matches(p, res) /\ Later(res, t) /\ res.day \in Nat
  <2>1. Matches(p, nxt) /\ Matches(p, At(t.day + delta + 7, p.tod))
    BY <1>2 DEF Matches, At
  <2>2. Later(At(t.day + delta + 7, p.tod), t)
    BY <1>1, <1>2 DEF Later, At
  <2>3. t.day + delta \in Nat /\ t.day + delta + 7 \in Nat
    <3>1. delta \in 0 .. 6
      BY <1>2
    <3>2. t.day \in Nat
      BY <1>1
    <3>. QED  BY <3>1, <3>2
  <2>. QED  BY <2>1, <2>2, <2>3 DEF At
<1>4. ASSUME NEW d \in t.day .. res.day, NEW s \in Tods,
             Matches(p, At(d, s)), Later(At(d, s), t)
      PROVE  ~Later(res, At(d, s))
  <2>1. d \in Nat /\ d >= t.day /\ d % 7 = p.day.weekday /\ s = p.tod
    BY <1>1, <1>3, <1>4 DEF Matches, At
  <2>2. d = t.day + delta \/ d = t.day + delta + 7 \/ d > t.day + delta + 7
    BY <1>2, <2>1
  <2>. QED  BY <1>1, <1>2, <1>4, <2>1, <2>2 DEF Later, At
<1>5. res \in Instants
  BY <1>1, <1>3 DEF Instants, Tods, At
<1>. QED
  BY <1>3, <1>4, <1>5 DEF IsFirstAfter, Weekly, delta

\* A monthly plan runs on its day of this month or of the next one.
LEMMA MonthlyFirst ==
  ASSUME NEW p, IsPlan(p), p.kind = "monthly", NEW t \in Instants, t.day \in CoveredDays
  PROVE  Monthly(p, t) \in Instants /\ IsFirstAfter(p, t, Monthly(p, t))
<1>. DEFINE m   == MonthOf(t)
            off == DayOfMonth(p) - 1
            nxt == At(MonthStart[m] + off, p.tod)
            res == IF Later(nxt, t) THEN nxt ELSE At(MonthStart[m + 1] + off, p.tod)
<1>1. /\ t.day \in Nat /\ t.tod \in 0 .. MaxTod
      /\ p.tod \in 0 .. MaxTod /\ MaxTod \in Nat
      /\ off \in 0 .. 27
  <2>1. p.day.dom \in 1 .. 31
    BY DEF IsPlan, Days
  <2>2. DayOfMonth(p) \in 1 .. 28
    BY <2>1 DEF DayOfMonth
  <2>. QED  BY <2>2, NextRunAssumption DEF Instants, Tods, IsPlan
<1>2. /\ m \in 0 .. Months - 1 /\ Months \in Nat
      /\ MonthStart[m] <= t.day /\ t.day < MonthStart[m + 1]
      /\ \A k \in 0 .. Months : MonthStart[k] \in Nat
      /\ \A k, n \in 0 .. Months : k < n => MonthStart[k] + 28 <= MonthStart[n]
  BY MonthFound, NextRunAssumption
<1>. HIDE DEF m, off
<1>3. Matches(p, res) /\ Later(res, t) /\ res.day \in Nat
  <2>1. m \in 0 .. Months /\ m + 1 \in 0 .. Months
    BY <1>2
  <2>2. Matches(p, nxt) /\ Matches(p, At(MonthStart[m + 1] + off, p.tod))
    BY <2>1 DEF Matches, At, off
  <2>. QED  BY <1>1, <1>2, <2>1, <2>2 DEF Later, At
<1>4. ASSUME NEW d \in t.day .. res.day, NEW s \in Tods,
             Matches(p, At(d, s)), Later(At(d, s), t)
      PROVE  ~Later(res, At(d, s))
  <2>1. PICK k \in 0 .. Months : d = MonthStart[k] + off
    BY <1>4 DEF Matches, At, off
  <2>2. s = p.tod
    BY <1>4 DEF Matches, At
  <2>3. d \in Nat /\ d >= t.day /\ d <= res.day
    BY <1>1, <1>3
  <2>4. CASE k < m
    BY <1>1, <1>2, <2>1, <2>3, <2>4
  <2>5. CASE k = m
    BY <1>1, <1>2, <1>4, <2>1, <2>2, <2>5 DEF Later, At
  <2>6. CASE k = m + 1
    BY <1>1, <1>2, <2>1, <2>2, <2>6 DEF Later, At
  <2>7. CASE k > m + 1
    <3>1. MonthStart[m] + 28 <= MonthStart[m + 1] /\ MonthStart[m + 1] + 28 <= MonthStart[k]
      BY <1>2, <2>7
    <3>. QED  BY <1>1, <1>2, <2>1, <2>2, <3>1 DEF Later, At
  <2>. QED  BY <1>2, <2>4, <2>5, <2>6, <2>7
<1>5. res \in Instants
  BY <1>1, <1>3 DEF Instants, Tods, At
<1>. QED
  BY <1>3, <1>4, <1>5 DEF IsFirstAfter, Monthly, m, off

\* The next run that _next_run returns is the first instant of a daily, weekly
\* or monthly plan after now, on every day the table of months covers.
THEOREM NextFirst ==
  ASSUME NEW p, IsPlan(p), p.kind \in {"daily", "weekly", "monthly"},
         NEW t \in Instants, t.day \in CoveredDays
  PROVE  NextOf(p, t) \in Instants /\ IsFirstAfter(p, t, NextOf(p, t))
  BY DailyFirst, WeeklyFirst, MonthlyFirst DEF NextOf

-------------------------------------------------------------------------------
(* The scheduler.                                                          *)


\* Work that stays in its tenant.
Own(work) == \A w \in work : TenantOf[w[1]] = TenantOf[w[2]]

\* A pass is a record with these fields, whatever they hold.
IsPass(p) == p = [due |-> p.due, left |-> p.left, old |-> p.old, new |-> p.new, jobs |-> p.jobs]

\* Stored jobs, and the jobs of the pass and of the requests that have not
\* committed, stay in their tenant.
OwnInv ==
  /\ Own(jobs)
  /\ IsPass(pass) /\ Own(pass.jobs)
  /\ req = [r \in Requests |-> req[r]]
  /\ \A r \in Requests : Own(req[r].jobs)

LEMMA ResolvedOwn ==
  ASSUME NEW g, NEW members
  PROVE  Own(Resolved(g, members))
  BY DEF Own, Resolved

LEMMA OwnInit == Init => OwnInv
  BY DEF Init, OwnInv, Own, IsPass, NoPass, IdleReq

LEMMA OwnStep == OwnInv /\ [Next]_vars => OwnInv'
<1>. SUFFICES ASSUME OwnInv, [Next]_vars PROVE OwnInv'
  OBVIOUS
<1>. USE DEF OwnInv
<1>1. ASSUME UNCHANGED <<jobs, pass, req>> PROVE OwnInv'
  BY <1>1
<1>2. CASE PassBegin
  BY <1>2 DEF PassBegin, Own, IsPass
<1>3. ASSUME NEW g \in Groups, PassResolve(g) PROVE OwnInv'
  <2>1. pass' = [due |-> pass.due, left |-> pass.left \ {g}, old |-> pass.old,
                 new |-> [pass.new EXCEPT ![g] = Advanced(g)],
                 jobs |-> pass.jobs \cup Resolved(g, pass.old[g].members)]
    BY <1>3 DEF PassResolve, IsPass
  <2>2. IsPass(pass') /\ Own(pass'.jobs)
    BY <2>1, ResolvedOwn DEF IsPass, Own
  <2>. QED  BY <1>3, <2>2 DEF PassResolve
<1>4. CASE PassCommit
  BY <1>4 DEF PassCommit, Own, IsPass, NoPass
<1>5. CASE PassRefused
  BY <1>5 DEF PassRefused, Own, IsPass, NoPass
<1>6. ASSUME NEW r \in Requests, NEW g \in Groups, NEW plan, NEW members,
             UpdateRead(r, g, plan, members)
      PROVE  OwnInv'
  BY <1>6 DEF UpdateRead, Own
<1>7. ASSUME NEW r \in Requests, NEW g \in Groups, ScanRead(r, g)
      PROVE  OwnInv'
  <2>1. Own(Resolved(g, row[g].members))
    BY ResolvedOwn
  <2>. QED  BY <1>7, <2>1 DEF ScanRead
<1>8. ASSUME NEW r \in Requests, RequestCommit(r) PROVE OwnInv'
  BY <1>8 DEF RequestCommit, Own, IdleReq
<1>9. ASSUME NEW r \in Requests, RequestRefused(r) PROVE OwnInv'
  BY <1>9 DEF RequestRefused, Own, IdleReq
<1>10. CASE Crash
  BY <1>10 DEF Crash, Own, IsPass, NoPass, IdleReq
<1>11. CASE Tick
  BY <1>1, <1>11 DEF Tick
<1>12. ASSUME NEW g \in Groups, NEW plan, NEW members, CreateGroup(g, plan, members)
       PROVE  OwnInv'
  BY <1>1, <1>12 DEF CreateGroup
<1>13. ASSUME NEW g \in Groups, DeleteGroup(g) PROVE OwnInv'
  BY <1>1, <1>13 DEF DeleteGroup
<1>14. ASSUME NEW a \in Agents, DeleteAgent(a) PROVE OwnInv'
  BY <1>1, <1>14 DEF DeleteAgent
<1>15. CASE UNCHANGED vars
  BY <1>1, <1>15 DEF vars
<1>. QED
  BY <1>2, <1>3, <1>4, <1>5, <1>6, <1>7, <1>8, <1>9, <1>10, <1>11, <1>12, <1>13,
     <1>14, <1>15
  DEF Next, Engine, Console

\* A group queues jobs for agents of its own tenant only, whatever its list
\* holds and however passes, requests and deletions overlap.
THEOREM JobsInTenant == Spec => []JobsStayInTenant
<1>1. OwnInv => JobsStayInTenant
  BY DEF OwnInv, Own, JobsStayInTenant
<1>. QED
  BY OwnInit, OwnStep, <1>1, PTL DEF Spec

-----------------------------------------------------------------------------
(***************************************************************************)
(* The engine runs no due instant twice, and what is shown as the next run *)
(* is one of the schedule's.  Both rest on what a pass and a request know  *)
(* of the rows they have loaded: unless another writer overlapped, the row *)
(* is still the one they loaded, so that their UPDATE leaves exactly what  *)
(* they computed; and a next run that was computed for a schedule the code *)
(* knows is later than every instant served.                               *)
(***************************************************************************)

\* A row whose next run is one of its schedule.
Fits(w) ==
  /\ w.kind = "manual" <=> w.next = None
  /\ w.next # None => Matches(w, w.next)

\* Is the schedule of the row one the code knows?
Known(w) == w.kind # "other"

\* A row whose next run, if any, has not been served yet.
Fresh(w, g) == Known(w) /\ w.next # None => \A s \in served[g] : Later(w.next, s)

\* What the row of a due group becomes: its next run moves on.
MovesOn(old, new) ==
  \E t \in Instants : /\ Matches(old, t)
                      /\ Known(old) => Later(t, old.next)
                      /\ new = [old EXCEPT !.next = t]

RowInv ==
  /\ \A g \in Groups :
       /\ IsFiniteSet(served[g])
       /\ g \notin used => served[g] = {}
       /\ \A s \in served[g] : ~Later(s, now)
  /\ \A g \in Groups \ raced :
       /\ Fits(row[g]) /\ Fresh(row[g], g)
       /\ runs[g] = Cardinality(served[g])

PassInv ==
  /\ pass.left \subseteq pass.due /\ pass.due \subseteq used
  /\ \A g \in pass.due :
       /\ pass.old[g].next \in Instants /\ ~Later(pass.old[g].next, now)
       /\ pass.old[g].kind # "manual"
       /\ g \notin pass.left => MovesOn(pass.old[g], pass.new[g])
       /\ g \notin raced => pass.old[g] = row[g]

ReqInv ==
  \A r \in Requests :
    /\ req[r].groups \subseteq used
    /\ req[r].kind # "update" => req[r].old = req[r].new
    /\ req[r].kind = "update" => Fits(req[r].new)
    /\ \A g \in Groups \ raced :
         Updates(r, g) => req[r].old = row[g] /\ Fresh(req[r].new, g)

RunInv == TypeOK /\ now.day <= LastDay /\ RowInv /\ PassInv /\ ReqInv

\* Of two instants and a later one.
LEMMA LaterFacts ==
  /\ \A a, b, c \in Instants : Later(a, b) /\ ~Later(c, b) => Later(a, c)
  /\ \A a, b, c \in Instants : ~Later(a, b) /\ ~Later(b, c) => ~Later(a, c)
  /\ \A a, b, c \in Instants : Later(a, b) /\ Later(b, c) => Later(a, c)
  /\ \A a \in Instants : ~Later(a, a)
  BY NextRunAssumption DEF Later, Instants, Tods

\* None is no instant.
LEMMA NoneIsNone == None \notin Instants
  BY DEF None, Instants

\* What the code computes for a row: an instant of the plan after now, or none.
\* Only a schedule string it does not know may give an instant that has passed.
LEMMA Computed ==
  ASSUME NEW p, IsPlan(p), now \in Instants, now.day <= LastDay
  PROVE  /\ p.kind = "manual" => NextOf(p, now) = None
         /\ p.kind # "manual" => /\ NextOf(p, now) \in Instants
                                 /\ Matches(p, NextOf(p, now))
                                 /\ p.kind # "other" => Later(NextOf(p, now), now)
<1>1. now.day \in CoveredDays
  BY SchedulerAssumption, NextRunAssumption DEF CoveredDays, Instants
<1>2. CASE p.kind = "manual"
  BY <1>2 DEF NextOf
<1>3. CASE p.kind \notin {"manual", "other"}
  <2>1. p.kind \in {"daily", "weekly", "monthly"}
    BY <1>3 DEF IsPlan, Kinds
  <2>. QED  BY <1>1, <1>3, <2>1, NextFirst DEF IsFirstAfter
<1>4. CASE p.kind = "other"
  <2>1. NextOf(p, now) = [day |-> now.day, tod |-> p.tod]
    BY <1>4 DEF NextOf, Other, At
  <2>2. now.day \in Nat /\ p.tod \in Tods
    BY DEF Instants, IsPlan
  <2>3. NextOf(p, now) \in Instants
    BY <2>1, <2>2 DEF Instants
  <2>4. Matches(p, NextOf(p, now))
    BY <1>4, <2>1 DEF Matches
  <2>. QED  BY <1>4, <2>3, <2>4
<1>. QED  BY <1>2, <1>3, <1>4

\* Writing what was computed from the row as it still is leaves what was computed.
LEMMA MergeFresh ==
  ASSUME NEW old \in Rows, NEW new \in Rows
  PROVE  Merge(old, old, new) = new
  BY DEF Merge, Rows

\* Writing nothing leaves the row as it is.
LEMMA MergeNothing ==
  ASSUME NEW current \in Rows, NEW old \in Rows
  PROVE  Merge(current, old, old) = current
  BY DEF Merge, Rows

\* Each column is one of the two writers'.
LEMMA MergeType ==
  ASSUME NEW current \in Rows, NEW old \in Rows, NEW new \in Rows
  PROVE  /\ Merge(current, old, new) \in Rows
         /\ Merge(current, old, new).kind \in {current.kind, new.kind}
  BY DEF Merge, Rows

LEMMA BlankType == Blank \in Rows /\ Blank.kind = "manual" /\ Blank.next = None
  BY NextRunAssumption DEF Blank, Rows, Kinds, Tods, Days, Times

LEMMA PlannedType ==
  ASSUME NEW plan, IsPlan(plan), NEW members \in SUBSET Agents,
         now \in Instants, now.day <= LastDay
  PROVE  /\ Planned(plan, members) \in Rows
         /\ Fits(Planned(plan, members))
         /\ Known(Planned(plan, members)) /\ Planned(plan, members).next # None =>
              Later(Planned(plan, members).next, now)
<1>. DEFINE w == Planned(plan, members)
<1>1. w = [kind |-> plan.kind, tod |-> plan.tod, day |-> plan.day, members |-> members,
           next |-> NextOf(plan, now)]
  BY DEF Planned
<1>2. Matches(plan, NextOf(plan, now)) <=> Matches(w, w.next)
  BY <1>1 DEF Matches, DayOfMonth
<1>. HIDE DEF w
<1>3. /\ plan.kind = "manual" => w.next = None
      /\ plan.kind # "manual" => /\ w.next \in Instants /\ w.next # None
                                 /\ Matches(w, w.next)
                                 /\ plan.kind # "other" => Later(w.next, now)
  <2>1. plan.kind # "manual" => /\ NextOf(plan, now) \in Instants
                                /\ Matches(plan, NextOf(plan, now))
                                /\ plan.kind # "other" => Later(NextOf(plan, now), now)
    BY Computed, Zenon
  <2>2. plan.kind = "manual" => NextOf(plan, now) = None
    BY Computed, Zenon
  <2>. QED  BY <1>1, <1>2, <2>1, <2>2, NoneIsNone
<1>4. w.kind = plan.kind /\ w.next \in Times
  BY <1>1, <1>3 DEF Times
<1>5. w \in Rows
  BY <1>1, <1>4 DEF Rows, IsPlan
<1>6. CASE plan.kind = "manual"
  BY <1>6, <1>3, <1>4, <1>5 DEF Fits, Known, w
<1>7. CASE plan.kind # "manual"
  BY <1>7, <1>3, <1>4, <1>5 DEF Fits, Known, w
<1>. QED  BY <1>6, <1>7

LEMMA RunInit == Init => RunInv
<1>. SUFFICES ASSUME Init PROVE RunInv
  OBVIOUS
<1>. USE BlankType
<1>1. now \in Instants /\ now.day <= LastDay
  BY NextRunAssumption, SchedulerAssumption DEF Init, At, Instants, Tods
<1>2. NoPass \in [due : SUBSET Groups, left : SUBSET Groups, old : [Groups -> Rows],
                 new : [Groups -> Rows], jobs : Work]
  BY DEF NoPass, Work
<1>3. IdleReq \in [kind : {"idle", "update", "scan"}, groups : SUBSET Groups,
                  old : Rows, new : Rows, jobs : Work]
  BY DEF IdleReq, Work
<1>4. TypeOK
  BY <1>1, <1>2, <1>3 DEF Init, TypeOK, Work
<1>5. RowInv
  BY FS_EmptySet DEF Init, RowInv, Fits, Fresh, Known
<1>6. PassInv
  BY DEF Init, PassInv, NoPass
<1>7. ReqInv
  BY DEF Init, ReqInv, IdleReq, Updates
<1>. QED  BY <1>1, <1>4, <1>5, <1>6, <1>7 DEF RunInv

\* A job of a group's own is work.
LEMMA ResolvedType ==
  ASSUME NEW g \in Groups, NEW members \in SUBSET Agents, agents \subseteq Agents
  PROVE  Resolved(g, members) \in Work
  BY DEF Resolved, Work

-----------------------------------------------------------------------------
(***************************************************************************)
(* The engine's steps.                                                     *)
(***************************************************************************)

LEMMA PassBeginStep == RunInv /\ PassBegin => RunInv'
<1>. SUFFICES ASSUME RunInv, PassBegin PROVE RunInv'
  OBVIOUS
<1>. DEFINE due == {g \in Groups : IsDue(g)}
<1>1. pass' = [due |-> due, left |-> due, old |-> row, new |-> row, jobs |-> {}]
  BY DEF PassBegin
<1>2. TypeOK'
  BY <1>1 DEF RunInv, TypeOK, PassBegin, Work, history
<1>3. RowInv'
  BY DEF RunInv, RowInv, PassBegin, history, Fits, Fresh, Known
<1>4. PassInv'
  <2>1. due \subseteq used
    BY DEF RunInv, TypeOK, IsDue
  <2>2. ASSUME NEW g \in due
        PROVE  /\ row[g].next \in Instants /\ ~Later(row[g].next, now)
               /\ row[g].kind # "manual"
    BY DEF RunInv, TypeOK, RowInv, IsDue, Rows, Times
  <2>. QED  BY <1>1, <2>1, <2>2 DEF PassInv, PassBegin, history
<1>5. ReqInv'
  BY DEF RunInv, ReqInv, PassBegin, history, Updates, Fits, Fresh, Known
<1>. QED  BY <1>2, <1>3, <1>4, <1>5 DEF RunInv, PassBegin

LEMMA PassResolveStep ==
  ASSUME RunInv, NEW g \in Groups, PassResolve(g)
  PROVE  RunInv'
<1>. DEFINE old == pass.old[g]
            new == Advanced(g)
<1>1. /\ g \in pass.due /\ g \in pass.left
      /\ old \in Rows /\ old.next \in Instants /\ ~Later(old.next, now)
      /\ old.kind # "manual"
      /\ now \in Instants /\ now.day <= LastDay
  BY DEF RunInv, TypeOK, PassInv, PassResolve
<1>2. IsPlan(old)
  BY <1>1 DEF IsPlan, Rows
<1>3. /\ NextOf(old, now) \in Instants /\ Matches(old, NextOf(old, now))
      /\ old.kind # "other" => Later(NextOf(old, now), now)
  BY <1>1, <1>2, Computed, Zenon
<1>4. Known(old) => Later(NextOf(old, now), old.next)
  BY <1>1, <1>3, LaterFacts DEF Known
<1>5. new = [old EXCEPT !.next = NextOf(old, now)]
  BY DEF Advanced
<1>6. new \in Rows /\ MovesOn(old, new)
  BY <1>1, <1>3, <1>4, <1>5 DEF MovesOn, Rows, Times
<1>. HIDE DEF new
<1>7. /\ pass' = [pass EXCEPT !.left = @ \ {g}, !.new[g] = new,
                              !.jobs = @ \cup Resolved(g, old.members)]
      /\ UNCHANGED <<now, stored, used, row, agents, jobs, req, requests, crashes, history>>
  BY DEF PassResolve, new
<1>8. pass \in [due : SUBSET Groups, left : SUBSET Groups, old : [Groups -> Rows],
               new : [Groups -> Rows], jobs : Work]
  BY DEF RunInv, TypeOK
<1>9. Resolved(g, old.members) \in Work
  BY <1>1, ResolvedType DEF RunInv, TypeOK, Rows
<1>10. /\ pass'.due = pass.due /\ pass'.left = pass.left \ {g} /\ pass'.old = pass.old
       /\ pass'.new = [pass.new EXCEPT ![g] = new]
       /\ pass' \in [due : SUBSET Groups, left : SUBSET Groups, old : [Groups -> Rows],
                      new : [Groups -> Rows], jobs : Work]
  BY <1>6, <1>7, <1>8, <1>9 DEF Work
<1>11. TypeOK'
  BY <1>7, <1>10 DEF RunInv, TypeOK, history
<1>12. RowInv'
  BY <1>7 DEF RunInv, RowInv, history, Fits, Fresh, Known
<1>13. PassInv'
  <2>1. ASSUME NEW h \in pass.due, h \notin pass'.left
        PROVE  MovesOn(pass.old[h], pass'.new[h])
    BY <1>6, <1>8, <1>10, <2>1 DEF RunInv, PassInv
  <2>2. pass.due \subseteq Groups
    BY <1>8
  <2>. QED  BY <1>7, <1>10, <2>1 DEF RunInv, PassInv, history
<1>14. ReqInv'
  BY <1>7 DEF RunInv, ReqInv, history, Updates, Fits, Fresh, Known
<1>. QED  BY <1>7, <1>11, <1>12, <1>13, <1>14 DEF RunInv

\* One group of the commit: its due instant is served for the first time.
LEMMA ServedOnce ==
  ASSUME RunInv, PassCommit, NEW g \in pass.due, g \notin raced'
  PROVE  /\ Fits(row'[g]) /\ runs'[g] = Cardinality(served'[g])
         /\ Known(row'[g]) /\ row'[g].next # None =>
              \A s \in served'[g] : Later(row'[g].next, s)
<1>1. /\ g \in Groups /\ g \notin raced
      /\ row \in [Groups -> Rows] /\ pass.old \in [Groups -> Rows] /\ pass.new \in [Groups -> Rows]
      /\ served \in [Groups -> SUBSET Instants] /\ runs \in [Groups -> Nat]
      /\ g \notin pass.left
  BY DEF RunInv, TypeOK, PassCommit
<1>2. /\ pass.old[g] = row[g] /\ row[g].next \in Instants
      /\ row[g].kind # "manual"
      /\ MovesOn(row[g], pass.new[g])
  BY <1>1 DEF RunInv, PassInv
<1>3. row'[g] = pass.new[g]
  BY <1>1, <1>2, MergeFresh DEF PassCommit
<1>4. PICK t \in Instants : /\ Matches(row[g], t)
                            /\ Known(row[g]) => Later(t, row[g].next)
                            /\ pass.new[g] = [row[g] EXCEPT !.next = t]
  BY <1>2 DEF MovesOn
<1>5. /\ row'[g].kind = row[g].kind /\ row'[g].tod = row[g].tod /\ row'[g].day = row[g].day
      /\ row'[g].next = t
  BY <1>1, <1>3, <1>4 DEF Rows
<1>6. Matches(row'[g], t)
  BY <1>4, <1>5 DEF Matches, DayOfMonth
<1>7. Fits(row'[g])
  BY <1>2, <1>5, <1>6, NoneIsNone DEF Fits
<1>8. CASE ~Known(row[g])
  <2>1. served'[g] = served[g] /\ runs'[g] = runs[g]
    BY <1>1, <1>2, <1>8 DEF PassCommit, OnSchedule, Known
  <2>2. ~Known(row'[g])
    BY <1>5, <1>8 DEF Known
  <2>. QED  BY <1>1, <1>7, <2>1, <2>2 DEF RunInv, RowInv
<1>9. CASE Known(row[g])
  <2>1. \A s \in served[g] : Later(row[g].next, s)
    BY <1>1, <1>2, <1>9, NoneIsNone DEF RunInv, RowInv, Fresh, Known
  <2>2. served'[g] = served[g] \cup {row[g].next} /\ runs'[g] = runs[g] + 1
    BY <1>1, <1>2, <1>9 DEF PassCommit, OnSchedule, Known
  <2>3. row[g].next \notin served[g]
    BY <1>1, <1>2, <2>1, LaterFacts
  <2>4. IsFiniteSet(served[g]) /\ runs[g] = Cardinality(served[g])
    BY <1>1 DEF RunInv, RowInv
  <2>5. runs'[g] = Cardinality(served'[g])
    BY <2>2, <2>3, <2>4, FS_AddElement
  <2>6. \A s \in served'[g] : Later(t, s)
    BY <1>1, <1>2, <1>4, <1>9, <2>1, <2>2, LaterFacts
  <2>. QED  BY <1>5, <1>7, <2>5, <2>6
<1>. QED  BY <1>8, <1>9

LEMMA PassCommitStep == RunInv /\ PassCommit => RunInv'
<1>. SUFFICES ASSUME RunInv, PassCommit PROVE RunInv'
  OBVIOUS
<1>1. /\ row \in [Groups -> Rows] /\ pass.old \in [Groups -> Rows] /\ pass.new \in [Groups -> Rows]
      /\ served \in [Groups -> SUBSET Instants] /\ runs \in [Groups -> Nat]
      /\ pass.due \subseteq Groups /\ pass.left = {} /\ pass.jobs \in Work /\ jobs \in Work
      /\ raced \subseteq Groups
  BY DEF RunInv, TypeOK, PassCommit
<1>2. ASSUME NEW g \in pass.due
      PROVE  /\ row'[g] \in Rows
             /\ \/ served'[g] = served[g] /\ runs'[g] = runs[g]
                \/ served'[g] = served[g] \cup {pass.old[g].next} /\ runs'[g] = runs[g] + 1
             /\ pass.old[g].next \in Instants /\ ~Later(pass.old[g].next, now)
  <2>1. row'[g] = Merge(row[g], pass.old[g], pass.new[g])
    BY <1>1 DEF PassCommit
  <2>2. row'[g] \in Rows
    BY <1>1, <2>1, MergeType
  <2>. QED  BY <1>1, <2>2 DEF RunInv, PassInv, PassCommit
<1>3. ASSUME NEW g \in Groups, g \notin pass.due
      PROVE  row'[g] = row[g] /\ served'[g] = served[g] /\ runs'[g] = runs[g]
  BY <1>1, <1>3 DEF PassCommit, OnSchedule
<1>4. /\ row' \in [Groups -> Rows] /\ served' \in [Groups -> SUBSET Instants]
      /\ runs' \in [Groups -> Nat]
  <2>1. /\ DOMAIN row' = Groups /\ DOMAIN served' = Groups /\ DOMAIN runs' = Groups
        /\ row' = [g \in Groups |-> row'[g]] /\ served' = [g \in Groups |-> served'[g]]
        /\ runs' = [g \in Groups |-> runs'[g]]
    BY DEF PassCommit
  <2>2. \A g \in Groups : row'[g] \in Rows /\ served'[g] \in SUBSET Instants /\ runs'[g] \in Nat
    BY <1>1, <1>2, <1>3
  <2>. QED  BY <2>1, <2>2
<1>5. TypeOK'
  <2>1. pass' \in [due : SUBSET Groups, left : SUBSET Groups, old : [Groups -> Rows],
                   new : [Groups -> Rows], jobs : Work]
    BY BlankType DEF PassCommit, NoPass, Work
  <2>2. jobs' \in Work /\ raced' \subseteq Groups
    BY <1>1 DEF PassCommit, Work
  <2>. QED  BY <1>4, <2>1, <2>2 DEF RunInv, TypeOK, PassCommit
<1>6. RowInv'
  <2>1. ASSUME NEW g \in Groups
        PROVE  /\ IsFiniteSet(served'[g])
               /\ g \notin used => served'[g] = {}
               /\ \A s \in served'[g] : ~Later(s, now)
    <3>1. CASE g \in pass.due
      <4>1. IsFiniteSet(served[g]) /\ \A s \in served[g] : ~Later(s, now)
        BY DEF RunInv, RowInv
      <4>2. /\ served'[g] = served[g] \/ served'[g] = served[g] \cup {pass.old[g].next}
            /\ ~Later(pass.old[g].next, now)
        BY <1>2, <3>1
      <4>3. IsFiniteSet(served'[g])
        BY <4>1, <4>2, FS_AddElement
      <4>4. g \in used
        BY <3>1 DEF RunInv, PassInv
      <4>. QED  BY <1>2, <3>1, <4>1, <4>2, <4>3, <4>4
    <3>2. CASE g \notin pass.due
      BY <1>3, <3>2 DEF RunInv, RowInv
    <3>. QED  BY <3>1, <3>2
  <2>2. ASSUME NEW g \in Groups, g \notin raced'
        PROVE  /\ Fits(row'[g]) /\ runs'[g] = Cardinality(served'[g])
               /\ Known(row'[g]) /\ row'[g].next # None =>
                    \A s \in served'[g] : Later(row'[g].next, s)
    <3>1. CASE g \in pass.due
      BY <2>2, <3>1, ServedOnce
    <3>2. CASE g \notin pass.due
      BY <1>3, <2>2, <3>2 DEF RunInv, RowInv, Fits, Fresh, Known, PassCommit
    <3>. QED  BY <3>1, <3>2
  <2>. QED  BY <2>1, <2>2 DEF RowInv, Fits, Fresh, Known, PassCommit
<1>7. PassInv'
  BY DEF PassCommit, PassInv, NoPass
<1>8. ReqInv'
  <2>1. ASSUME NEW r \in Requests, NEW g \in Groups, g \notin raced', Updates(r, g)
        PROVE  g \notin pass.due /\ g \notin raced
    BY <2>1 DEF PassCommit
  <2>2. ASSUME NEW r \in Requests, NEW g \in Groups, g \notin raced', Updates(r, g)
        PROVE  /\ req[r].old = row'[g]
               /\ Known(req[r].new) /\ req[r].new.next # None =>
                    \A s \in served'[g] : Later(req[r].new.next, s)
    BY <1>3, <2>1, <2>2 DEF RunInv, ReqInv, Fresh, Known
  <2>. QED  BY <2>2 DEF RunInv, ReqInv, PassCommit, Updates, Fits, Fresh, Known
<1>. QED  BY <1>5, <1>6, <1>7, <1>8 DEF RunInv, PassCommit

LEMMA PassRefusedStep == RunInv /\ PassRefused => RunInv'
<1>. SUFFICES ASSUME RunInv, PassRefused PROVE RunInv'
  OBVIOUS
<1>1. TypeOK'
  BY BlankType DEF RunInv, TypeOK, PassRefused, NoPass, Work, history
<1>2. RowInv' /\ ReqInv'
  BY DEF RunInv, RowInv, ReqInv, PassRefused, history, Fits, Fresh, Known, Updates
<1>3. PassInv'
  BY DEF PassRefused, PassInv, NoPass
<1>. QED  BY <1>1, <1>2, <1>3 DEF RunInv, PassRefused
-----------------------------------------------------------------------------
(***************************************************************************)
(* The clock, a stop of the backend, and the steps of the console.         *)
(***************************************************************************)

LEMMA TickStep == RunInv /\ Tick => RunInv'
<1>. SUFFICES ASSUME RunInv, Tick PROVE RunInv'
  OBVIOUS
<1>1. /\ now \in Instants /\ now' \in Instants /\ now'.day <= LastDay /\ ~Later(now, now')
  BY NextRunAssumption DEF RunInv, TypeOK, Tick, At, Instants, Tods, Later
<1>2. UNCHANGED <<stored, used, row, agents, jobs, pass, req, requests, crashes, runs, served, raced>>
  BY DEF Tick, history
<1>3. TypeOK'
  BY <1>1, <1>2 DEF RunInv, TypeOK
<1>4. RowInv'
  <2>1. \A g \in Groups : served[g] \subseteq Instants
    BY DEF RunInv, TypeOK
  <2>2. \A g \in Groups : \A s \in served[g] : ~Later(s, now')
    BY <1>1, <2>1, LaterFacts DEF RunInv, RowInv
  <2>. QED  BY <1>2, <2>2 DEF RunInv, RowInv, Fits, Fresh, Known
<1>5. PassInv'
  <2>1. ASSUME NEW g \in pass.due PROVE ~Later(pass.old[g].next, now')
    BY <1>1, LaterFacts DEF RunInv, PassInv
  <2>. QED  BY <1>2, <2>1 DEF RunInv, PassInv
<1>6. ReqInv'
  BY <1>2 DEF RunInv, ReqInv, Fits, Fresh, Known, Updates
<1>. QED  BY <1>1, <1>3, <1>4, <1>5, <1>6 DEF RunInv

LEMMA CrashStep == RunInv /\ Crash => RunInv'
<1>. SUFFICES ASSUME RunInv, Crash PROVE RunInv'
  OBVIOUS
<1>1. TypeOK'
  <2>1. /\ pass' \in [due : SUBSET Groups, left : SUBSET Groups, old : [Groups -> Rows],
                      new : [Groups -> Rows], jobs : Work]
        /\ req' \in [Requests -> [kind : {"idle", "update", "scan"}, groups : SUBSET Groups,
                                  old : Rows, new : Rows, jobs : Work]]
    BY BlankType DEF Crash, NoPass, IdleReq, Work
  <2>. QED  BY <2>1 DEF RunInv, TypeOK, Crash, history
<1>2. RowInv'
  BY DEF RunInv, RowInv, Crash, history, Fits, Fresh, Known
<1>3. PassInv' /\ ReqInv'
  BY DEF Crash, PassInv, NoPass, ReqInv, IdleReq, Updates
<1>. QED  BY <1>1, <1>2, <1>3 DEF RunInv, Crash

LEMMA DeleteStep ==
  ASSUME RunInv, UNCHANGED <<now, used, row, jobs, pass, req, requests, crashes, history>>,
         stored' \subseteq stored, agents' \subseteq agents
  PROVE  RunInv'
<1>1. TypeOK'
  BY DEF RunInv, TypeOK, history
<1>2. RowInv' /\ PassInv' /\ ReqInv'
  BY DEF RunInv, RowInv, PassInv, ReqInv, history, Fits, Fresh, Known, Updates
<1>. QED  BY <1>1, <1>2 DEF RunInv

LEMMA CreateGroupStep ==
  ASSUME RunInv, NEW g \in Groups, NEW plan, IsPlan(plan),
         NEW members \in SUBSET Agents, CreateGroup(g, plan, members)
  PROVE  RunInv'
<1>. DEFINE w == Planned(plan, members)
<1>1. now \in Instants /\ now.day <= LastDay /\ row \in [Groups -> Rows]
  BY DEF RunInv, TypeOK
<1>2. w \in Rows /\ Fits(w)
  BY <1>1, PlannedType
<1>. HIDE DEF w
<1>3. /\ g \notin used /\ row' = [row EXCEPT ![g] = w]
      /\ used' = used \cup {g} /\ stored' = stored \cup {g}
      /\ UNCHANGED <<now, agents, jobs, pass, req, requests, crashes, runs, served, raced>>
  BY DEF CreateGroup, history, w
<1>4. TypeOK'
  BY <1>1, <1>2, <1>3 DEF RunInv, TypeOK
<1>5. row'[g] = w /\ \A h \in Groups \ {g} : row'[h] = row[h]
  BY <1>1, <1>3
<1>6. RowInv'
  <2>1. served[g] = {}
    BY <1>3 DEF RunInv, RowInv
  <2>2. ASSUME NEW h \in Groups
        PROVE  h \notin raced =>
                 /\ Fits(row'[h])
                 /\ Known(row'[h]) /\ row'[h].next # None =>
                      \A s \in served[h] : Later(row'[h].next, s)
    <3>1. CASE h = g
      BY <1>2, <1>5, <2>1, <3>1
    <3>2. CASE h # g
      BY <1>5, <3>2 DEF RunInv, RowInv, Fresh, Known
    <3>. QED  BY <3>1, <3>2
  <2>. QED  BY <1>3, <2>1, <2>2 DEF RunInv, RowInv, Fits, Fresh, Known
<1>7. PassInv'
  BY <1>3, <1>5 DEF RunInv, PassInv, TypeOK
<1>8. ReqInv'
  BY <1>3, <1>5 DEF RunInv, ReqInv, Fits, Fresh, Known, Updates
<1>. QED  BY <1>3, <1>1, <1>4, <1>6, <1>7, <1>8 DEF RunInv

\* A request reads a row: what it loaded is the row, what it computed is fresh.
LEMMA RequestReadStep ==
  ASSUME RunInv, NEW r \in Requests, NEW g \in stored, NEW kind \in {"update", "scan"},
         NEW new \in Rows, NEW work \in Work,
         kind = "scan" => new = row[g],
         kind = "update" => /\ Fits(new)
                            /\ Known(new) /\ new.next # None => Later(new.next, now),
         req' = [req EXCEPT ![r] = [kind |-> kind, groups |-> {g}, old |-> row[g],
                                    new |-> new, jobs |-> work]],
         requests' = requests + 1,
         UNCHANGED <<now, stored, used, row, agents, jobs, pass, crashes, history>>
  PROVE  RunInv'
<1>. DEFINE q == [kind |-> kind, groups |-> {g}, old |-> row[g], new |-> new, jobs |-> work]
<1>1. /\ g \in Groups /\ g \in used /\ row[g] \in Rows /\ now \in Instants
      /\ served \in [Groups -> SUBSET Instants]
      /\ DOMAIN req = Requests
      /\ UNCHANGED <<runs, served, raced>>
  BY DEF RunInv, TypeOK, history
<1>2. req'[r] = q /\ \A o \in Requests \ {r} : req'[o] = req[o]
  BY <1>1
<1>3. TypeOK'
  <2>1. q \in [kind : {"idle", "update", "scan"}, groups : SUBSET Groups,
               old : Rows, new : Rows, jobs : Work]
    BY <1>1
  <2>2. req' \in [Requests -> [kind : {"idle", "update", "scan"}, groups : SUBSET Groups,
                              old : Rows, new : Rows, jobs : Work]]
    BY <2>1 DEF RunInv, TypeOK
  <2>. QED  BY <2>2 DEF RunInv, TypeOK, history
<1>4. RowInv' /\ PassInv'
  BY DEF RunInv, RowInv, PassInv, history, Fits, Fresh, Known
<1>5. kind = "update" /\ Known(new) /\ new.next # None => \A s \in served[g] : Later(new.next, s)
  <2>1. new.next \in Instants \/ new.next = None
    BY DEF Rows, Times
  <2>2. \A s \in served[g] : ~Later(s, now) /\ s \in Instants
    BY <1>1 DEF RunInv, RowInv
  <2>. QED  BY <1>1, <2>1, <2>2, LaterFacts
<1>6. ReqInv'
  <2>1. ASSUME NEW o \in Requests
        PROVE  /\ req'[o].groups \subseteq used
               /\ req'[o].kind # "update" => req'[o].old = req'[o].new
               /\ req'[o].kind = "update" => Fits(req'[o].new)
               /\ \A h \in Groups \ raced :
                    req'[o].kind = "update" /\ h \in req'[o].groups =>
                      /\ req'[o].old = row[h]
                      /\ Known(req'[o].new) /\ req'[o].new.next # None =>
                           \A s \in served[h] : Later(req'[o].new.next, s)
    <3>1. CASE o = r
      BY <1>1, <1>2, <1>5, <3>1
    <3>2. CASE o # r
      BY <1>2, <3>2 DEF RunInv, ReqInv, Updates, Fresh, Known
    <3>. QED  BY <3>1, <3>2
  <2>. QED  BY <1>1, <2>1 DEF ReqInv, Updates, Fits, Fresh, Known
<1>. QED  BY <1>3, <1>4, <1>6 DEF RunInv

LEMMA UpdateReadStep ==
  ASSUME RunInv, NEW r \in Requests, NEW g \in Groups, NEW plan, IsPlan(plan),
         NEW members \in SUBSET Agents,
         UpdateRead(r, g, plan, members)
  PROVE  RunInv'
<1>. DEFINE w == Planned(plan, members)
<1>1. now \in Instants /\ now.day <= LastDay
  BY DEF RunInv, TypeOK
<1>2. /\ w \in Rows /\ Fits(w)
      /\ Known(w) /\ w.next # None => Later(w.next, now)
  BY <1>1, PlannedType
<1>. HIDE DEF w
<1>3. /\ g \in stored /\ requests' = requests + 1
      /\ req' = [req EXCEPT ![r] = [kind |-> "update", groups |-> {g}, old |-> row[g],
                                    new |-> w, jobs |-> {}]]
      /\ UNCHANGED <<now, stored, used, row, agents, jobs, pass, crashes, history>>
  BY DEF UpdateRead, Changed, w
<1>4. {} \in Work
  BY DEF Work
<1>. QED  BY <1>2, <1>3, <1>4, RequestReadStep

LEMMA ScanReadStep ==
  ASSUME RunInv, NEW r \in Requests, NEW g \in Groups, ScanRead(r, g)
  PROVE  RunInv'
<1>1. row[g] \in Rows /\ g \in stored
  BY DEF RunInv, TypeOK, ScanRead
<1>2. Resolved(g, row[g].members) \in Work
  BY <1>1, ResolvedType DEF RunInv, TypeOK, Rows
<1>. QED  BY <1>1, <1>2, RequestReadStep DEF ScanRead

LEMMA RequestCommitStep ==
  ASSUME RunInv, NEW r \in Requests, RequestCommit(r)
  PROVE  RunInv'
<1>. DEFINE q == req[r]
<1>1. /\ row \in [Groups -> Rows] /\ raced \subseteq Groups /\ DOMAIN req = Requests
      /\ q \in [kind : {"idle", "update", "scan"}, groups : SUBSET Groups,
                old : Rows, new : Rows, jobs : Work]
      /\ jobs \in Work
      /\ UNCHANGED <<now, stored, used, agents, pass, requests, crashes, runs, served>>
      /\ raced \subseteq raced'
  BY DEF RunInv, TypeOK, RequestCommit
<1>2. req' = [req EXCEPT ![r] = IdleReq]
  BY DEF RequestCommit
<1>3. ASSUME NEW g \in Groups, g \notin q.groups \/ q.kind # "update"
      PROVE  row'[g] = row[g]
  <2>1. q.kind # "update" => q.old = q.new
    BY DEF RunInv, ReqInv
  <2>. QED  BY <1>1, <1>3, <2>1, MergeNothing DEF RequestCommit
<1>4. ASSUME NEW g \in q.groups, q.kind = "update"
      PROVE  /\ row'[g] \in Rows
             /\ g \notin raced' => /\ row'[g] = q.new /\ g \notin raced
                                   /\ g \notin pass.due
                                   /\ \A o \in Requests \ {r} : ~Updates(o, g)
  <2>1. row'[g] = Merge(row[g], q.old, q.new) /\ g \in Groups
    BY <1>1 DEF RequestCommit
  <2>3. row'[g] \in Rows
    BY <1>1, <2>1, MergeType
  <2>4. ASSUME g \notin raced'
        PROVE  g \notin raced /\ g \notin pass.due /\ \A o \in Requests \ {r} : ~Updates(o, g)
    BY <1>4, <2>4 DEF RequestCommit
  <2>5. ASSUME g \notin raced' PROVE q.old = row[g]
    BY <1>4, <2>1, <2>4, <2>5 DEF RunInv, ReqInv, Updates
  <2>. QED  BY <1>1, <2>1, <2>3, <2>4, <2>5, MergeFresh
<1>5. row' \in [Groups -> Rows]
  <2>1. row' = [g \in Groups |-> row'[g]]
    BY DEF RequestCommit
  <2>2. \A g \in Groups : row'[g] \in Rows
    BY <1>1, <1>3, <1>4
  <2>. QED  BY <2>1, <2>2
<1>6. TypeOK'
  <2>1. IdleReq \in [kind : {"idle", "update", "scan"}, groups : SUBSET Groups,
                     old : Rows, new : Rows, jobs : Work]
    BY BlankType DEF IdleReq, Work
  <2>2. jobs' \in Work /\ raced' \subseteq Groups
    BY <1>1 DEF RequestCommit, Work
  <2>. QED  BY <1>1, <1>2, <1>5, <2>1, <2>2 DEF RunInv, TypeOK
<1>7. RowInv'
  <2>1. ASSUME NEW g \in Groups, g \notin raced'
        PROVE  /\ Fits(row'[g]) /\ runs[g] = Cardinality(served[g])
               /\ Known(row'[g]) /\ row'[g].next # None =>
                    \A s \in served[g] : Later(row'[g].next, s)
    <3>1. CASE g \in q.groups /\ q.kind = "update"
      BY <1>4, <2>1, <3>1 DEF RunInv, RowInv, ReqInv, Fresh, Known, Updates
    <3>2. CASE g \notin q.groups \/ q.kind # "update"
      BY <1>1, <1>3, <2>1, <3>2 DEF RunInv, RowInv, Fresh, Known
    <3>. QED  BY <3>1, <3>2
  <2>. QED  BY <1>1, <1>5, <2>1 DEF RunInv, RowInv, Fits, Fresh, Known
<1>8. PassInv'
  <2>1. ASSUME NEW g \in pass.due, g \notin raced' PROVE pass.old[g] = row'[g]
    BY <1>1, <1>3, <1>4, <2>1 DEF RunInv, PassInv, TypeOK
  <2>. QED  BY <1>1, <2>1 DEF RunInv, PassInv
<1>9. ReqInv'
  <2>1. ASSUME NEW o \in Requests, o # r, NEW g \in Groups, g \notin raced', Updates(o, g)
        PROVE  row'[g] = row[g] /\ g \notin raced
    BY <1>1, <1>3, <1>4, <2>1
  <2>2. ASSUME NEW o \in Requests
        PROVE  /\ req'[o].groups \subseteq used
               /\ req'[o].kind # "update" => req'[o].old = req'[o].new
               /\ req'[o].kind = "update" => Fits(req'[o].new)
               /\ \A g \in Groups \ raced' :
                    req'[o].kind = "update" /\ g \in req'[o].groups =>
                      /\ req'[o].old = row'[g]
                      /\ Known(req'[o].new) /\ req'[o].new.next # None =>
                           \A s \in served[g] : Later(req'[o].new.next, s)
    <3>1. CASE o = r
      BY <1>1, <1>2, <3>1 DEF IdleReq
    <3>2. CASE o # r
      <4>1. req'[o] = req[o]
        BY <1>1, <1>2, <3>2
      <4>. QED  BY <2>1, <3>2, <4>1 DEF RunInv, ReqInv, Updates, Fresh, Known
    <3>. QED  BY <3>1, <3>2
  <2>. QED  BY <1>1, <2>2 DEF ReqInv, Updates, Fits, Fresh, Known
<1>. QED  BY <1>1, <1>6, <1>7, <1>8, <1>9 DEF RunInv

LEMMA RequestRefusedStep ==
  ASSUME RunInv, NEW r \in Requests, RequestRefused(r)
  PROVE  RunInv'
<1>1. /\ req' = [req EXCEPT ![r] = IdleReq] /\ DOMAIN req = Requests
      /\ UNCHANGED <<now, stored, used, row, agents, jobs, pass, requests, crashes, history>>
  BY DEF RequestRefused, RunInv, TypeOK
<1>2. TypeOK'
  <2>1. IdleReq \in [kind : {"idle", "update", "scan"}, groups : SUBSET Groups,
                     old : Rows, new : Rows, jobs : Work]
    BY BlankType DEF IdleReq, Work
  <2>. QED  BY <1>1, <2>1 DEF RunInv, TypeOK, history
<1>3. RowInv' /\ PassInv'
  BY <1>1 DEF RunInv, RowInv, PassInv, history, Fits, Fresh, Known
<1>4. ReqInv'
  <2>1. ASSUME NEW o \in Requests PROVE req'[o] = req[o] \/ req'[o] = IdleReq
    BY <1>1
  <2>. QED  BY <1>1, <2>1 DEF RunInv, ReqInv, history, Updates, Fits, Fresh, Known, IdleReq
<1>. QED  BY <1>1, <1>2, <1>3, <1>4 DEF RunInv

-----------------------------------------------------------------------------
LEMMA RunStep == RunInv /\ [Next]_vars => RunInv'
<1>. SUFFICES ASSUME RunInv, [Next]_vars PROVE RunInv'
  OBVIOUS
<1>1. \A p \in PlanSet : IsPlan(p)
  BY SchedulerAssumption DEF Plans, IsPlan
<1>2. \A m \in MemberSets : m \in SUBSET Agents
  BY SchedulerAssumption
<1>3. \A g \in Groups : /\ IsPlan(PlanOf(g))
                        /\ row[g].members \in SUBSET Agents
  BY DEF RunInv, TypeOK, RowInv, Rows, PlanOf, IsPlan
<1>4. CASE Engine
  BY <1>4, PassBeginStep, PassResolveStep, PassCommitStep, PassRefusedStep DEF Engine
<1>5. ASSUME NEW g \in Groups, NEW plan \in PlanSet, NEW members \in MemberSets,
             CreateGroup(g, plan, members)
      PROVE  RunInv'
  BY <1>1, <1>2, <1>5, CreateGroupStep
<1>6. ASSUME NEW r \in Requests, NEW g \in Groups, NEW plan \in PlanSet \cup {PlanOf(g)},
             NEW members \in MemberSets \cup {row[g].members},
             UpdateRead(r, g, plan, members)
      PROVE  RunInv'
  BY <1>1, <1>2, <1>3, <1>6, UpdateReadStep
<1>7. ASSUME NEW g \in Groups, DeleteGroup(g) PROVE RunInv'
  BY <1>7, DeleteStep DEF DeleteGroup
<1>8. ASSUME NEW a \in Agents, DeleteAgent(a) PROVE RunInv'
  BY <1>8, DeleteStep DEF DeleteAgent
<1>9. CASE UNCHANGED vars
  BY <1>9, DeleteStep DEF vars
<1>. QED
  BY <1>4, <1>5, <1>6, <1>7, <1>8, <1>9, TickStep, CrashStep, ScanReadStep,
     RequestCommitStep, RequestRefusedStep
  DEF Next, Console

\* The invariant holds always, whatever schedules users ask for.
LEMMA RunInvariance == Spec => []RunInv
  BY RunInit, RunStep, PTL DEF Spec

\* No due instant of a daily, weekly or monthly schedule is run twice, whatever
\* passes fail, requests overlap with others' groups, or stops come between, and
\* whatever schedule strings the group had meanwhile; only a group that two
\* writers had loaded at once is excepted.
THEOREM NoRunTwice == Spec => []RunsOnce
<1>1. RunInv => RunsOnce
  BY DEF RunInv, RowInv, RunsOnce
<1>. QED
  BY RunInvariance, <1>1, PTL

\* The next run shown is one of the schedule's, with the same exception.
THEOREM NextRunFits == Spec => []NextFitsPlan
<1>1. RunInv => NextFitsPlan
  BY DEF RunInv, TypeOK, RowInv, Fits, NextFitsPlan
<1>. QED
  BY RunInvariance, <1>1, PTL

\* Every variable keeps its type.
THEOREM TypeCorrect == Spec => []TypeOK
<1>1. RunInv => TypeOK
  BY DEF RunInv
<1>. QED
  BY RunInvariance, <1>1, PTL
=============================================================================
