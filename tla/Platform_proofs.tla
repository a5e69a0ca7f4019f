---------------------------- MODULE Platform_proofs ----------------------------
(***************************************************************************)
(* Proofs about the platform's scheduled reports, its evidence and control *)
(* statuses, its live events, the enrollments of its agents, its staff,    *)
(* tenants and users.                                                      *)
(*                                                                         *)
(* Each part has an inductive invariant that says what a handler holds     *)
(* between its steps: the row it loaded, and how far its write may be from *)
(* it; the review and what the file it asked for rests on; the sockets a   *)
(* broadcast still goes through; the token an agent has not yet written;   *)
(* the admins a request has counted.                                       *)
(***************************************************************************)
EXTENDS Tenancy, Team, Delivery, Controls, Notifier, Agents, FiniteSetTheorems, TLAPS

-------------------------------------------------------------------------------
(* Scheduled reports: types.                                               *)

LEMMA DaysAreNumbers ==
  /\ DOMAIN Days = {"off", "weekly", "monthly", "quarterly"}
  /\ \A cadence \in DOMAIN Days : Days[cadence] \in Nat \ {0}
BY DeliveryAssumption

LEMMA RowsKnown ==
  /\ NewSchedule \in Known /\ NoSchedule \in Schedule /\ Known \subseteq Schedule
  /\ \A row \in Known : row.cadence \in DOMAIN Days /\ row.levels \subseteq Levels
                         /\ row.next \in Nat \cup {None}
BY DaysAreNumbers, DeliveryAssumption DEF NewSchedule, NoSchedule, Known, Schedule, Levels

LEMMA RowRead ==
  ASSUME DeliveryTypeOK, NEW c \in Clients
  PROVE  GetOrCreate(c) \in Known
BY RowsKnown DEF GetOrCreate, DeliveryTypeOK, Known

LEMMA MergedKnown ==
  ASSUME NEW now \in Schedule, NEW old \in Known, NEW new \in Known
  PROVE  Merged(now, old, new) \in Schedule
BY RowsKnown DEF Merged, Schedule, Known, Levels

\* A row that is as it was loaded becomes what is written.
LEMMA MergedAlone ==
  ASSUME NEW old \in Known, NEW new \in Known
  PROVE  Merged(old, old, new) = new
<1>1. {l \in Levels : IF (l \in new.levels) # (l \in old.levels) THEN l \in new.levels ELSE l \in old.levels}
        = new.levels
  BY RowsKnown
<1>2. Merged(old, old, new) = [cadence |-> new.cadence, levels |-> new.levels, next |-> new.next]
  BY <1>1 DEF Merged
<1> QED BY <1>2 DEF Known, Schedule

LEMMA WriteType ==
  ASSUME DeliveryTypeOK, NEW c \in Clients, NEW old \in Known, NEW new \in Known, Write(c, old, new)
  PROVE  /\ sched' \in [Clients -> Schedule] /\ crossed' \subseteq Clients
         /\ sent' \in [Clients -> [Levels -> Nat]] /\ spoilt' \in [Clients -> Nat]
<1>1. sched' \in [Clients -> Schedule] BY MergedKnown DEF Write, DeliveryTypeOK
<1>2. crossed' \subseteq Clients BY DEF Write, DeliveryTypeOK
<1>3. sent' \in [Clients -> [Levels -> Nat]] /\ spoilt' \in [Clients -> Nat] BY DEF Write, DeliveryTypeOK
<1> QED BY <1>1, <1>2, <1>3

\* A worker goes on to d, and the other workers are where they were.
LEMMA WorksType ==
  ASSUME DeliveryTypeOK, NEW w \in Workers, NEW d, Works(w, d)
  PROVE  \A v \in Workers : delivery'[v] = IF v = w THEN d ELSE delivery[v]
BY DEF Works, DeliveryTypeOK

Working == {Ready} \cup Deliveries \cup Patches
TypesButWork ==
  /\ sched \in [Clients -> Schedule]
  /\ day \in 0..MaxDay /\ faults \in 0..MaxFaults /\ patched \in 0..MaxRequests
  /\ due \subseteq Clients
  /\ sent \in [Clients -> [Levels -> Nat]] /\ spoilt \in [Clients -> Nat]
  /\ crossed \subseteq Clients

LEMMA TypeParts ==
  DeliveryTypeOK <=> TypesButWork /\ (delivery \in [Workers -> Working])
BY DEF DeliveryTypeOK, TypesButWork, Working

LEMMA WorksIn ==
  ASSUME DeliveryTypeOK, NEW w \in Workers, NEW d \in Working, Works(w, d)
  PROVE  delivery' \in [Workers -> Working]
BY TypeParts DEF Works

LEMMA KindsOfWork ==
  ASSUME DeliveryTypeOK, NEW w \in Workers
  PROVE  /\ Delivering(w) => delivery[w] \in Deliveries
         /\ delivery[w].op = "patch" => delivery[w] \in Patches
BY TypeParts DEF Delivering, Working, Deliveries, Patches, Ready

LEMMA WithoutType ==
  ASSUME NEW d \in Deliveries PROVE Without(d) \in Deliveries
BY DEF Without, Deliveries

\* The row a delivery moves the schedule on with.
Moved(d) == [d.row EXCEPT !.next = ComputeNextRun(d.row.cadence)]

LEMMA NextRunType ==
  ASSUME day \in Nat, NEW cadence \in DOMAIN Days PROVE ComputeNextRun(cadence) \in Nat
BY DaysAreNumbers DEF ComputeNextRun

LEMMA MovedKnown ==
  ASSUME day \in Nat, NEW d \in Deliveries PROVE Moved(d) \in Known
<1>1. d.row \in Known BY DEF Deliveries
<1>2. ComputeNextRun(d.row.cadence) \in Nat BY <1>1, RowsKnown, NextRunType
<1> QED BY <1>1, <1>2 DEF Moved, Known, Schedule

\* The row a change will write.
Asked(row, cadence, levels) ==
  IF cadence = None THEN [row EXCEPT !.levels = levels]
  ELSE [cadence |-> cadence, levels |-> levels,
        next |-> IF cadence = "off" THEN None ELSE ComputeNextRun(cadence)]

LEMMA AskedKnown ==
  ASSUME day \in Nat, NEW row \in Known, NEW cadence \in DOMAIN Days \cup {None},
         NEW levels \in SUBSET Levels
  PROVE  Asked(row, cadence, levels) \in Known
<1>1. CASE cadence = None BY <1>1 DEF Asked, Known, Schedule
<1>2. CASE cadence # None
  BY <1>2, NextRunType, DeliveryAssumption DEF Asked, Known, Schedule
<1> QED BY <1>1, <1>2

Flipped(row, flip) == (row.levels \ flip) \cup (flip \ row.levels)

\* A change begins: what its handler has read and will write.
LEMMA ChangeRead ==
  ASSUME DeliveryTypeOK, NEW h \in Handlers, NEW c \in Clients,
         NEW cadence \in Given \cup {None}, NEW flip \in SUBSET Levels,
         SetScheduleBegin(h, c, cadence, flip)
  PROVE  LET row == GetOrCreate(c)
             new == Asked(row, cadence, Flipped(row, flip))
         IN  /\ row \in Known /\ new \in Known
             /\ Works(h, [op |-> "patch", of |-> c, row |-> row, new |-> new])
             /\ sched' = [sched EXCEPT ![c] = row]
<1> DEFINE row == GetOrCreate(c)
<1>1. row \in Known BY RowRead
<1>2. Flipped(row, flip) \in SUBSET Levels BY <1>1, RowsKnown DEF Flipped
<1>3. cadence \in DOMAIN Days \cup {None} /\ day \in Nat
  BY DeliveryAssumption DEF DeliveryTypeOK
<1>4. Asked(row, cadence, Flipped(row, flip)) \in Known BY <1>1, <1>2, <1>3, AskedKnown
<1> QED BY <1>1, <1>4 DEF SetScheduleBegin, Asked, Flipped

LEMMA DeliveryInitType == DeliveryInit => DeliveryTypeOK
BY RowsKnown, DeliveryAssumption, AccessAssumption DEF DeliveryInit, DeliveryTypeOK, Levels

LEMMA DeliveryStepType == DeliveryTypeOK /\ [DeliveryNext]_deliveryVars => DeliveryTypeOK'
<1> SUFFICES ASSUME DeliveryTypeOK, [DeliveryNext]_deliveryVars
             PROVE  TypesButWork' /\ delivery' \in [Workers -> Working]
  BY DEF DeliveryTypeOK, TypesButWork, Working
<1>0. TypesButWork /\ delivery \in [Workers -> Working] BY TypeParts
<1>a. day \in Nat BY <1>0, DeliveryAssumption DEF TypesButWork
<1>w. Ready \in Working /\ "engine" \in Workers /\ Handlers \subseteq Workers BY DEF Working, Workers
<1>1. CASE NextDay
  BY <1>0, <1>1, DeliveryAssumption DEF NextDay, TypesButWork
<1>2. CASE PassReads
  BY <1>0, <1>2 DEF PassReads, TypesButWork
<1>3. ASSUME NEW c \in Clients, PassTakes(c) PROVE TypesButWork' /\ delivery' \in [Workers -> Working]
  <2>1. TypesButWork' BY <1>0, <1>3 DEF PassTakes, TypesButWork
  <2>2. CASE IsDueNow(c)
    <3>1. sched[c] \in Known BY <1>0, <2>2, RowsKnown DEF IsDueNow, TypesButWork, Known
    <3>2. [op |-> "deliver", of |-> c, row |-> sched[c], mail |-> FALSE, todo |-> sched[c].levels]
            \in Working
      BY <3>1, RowsKnown DEF Working, Deliveries
    <3> QED BY <1>3, <1>w, <2>1, <2>2, <3>2, WorksIn DEF PassTakes, Start
  <2>3. CASE ~IsDueNow(c) BY <1>0, <1>3, <2>1, <2>3 DEF PassTakes
  <2> QED BY <2>2, <2>3
<1>4. ASSUME NEW w \in Workers, StoreReport(w) PROVE TypesButWork' /\ delivery' \in [Workers -> Working]
  <2> DEFINE d == delivery[w]
  <2>1. d \in Deliveries BY <1>4, KindsOfWork DEF StoreReport
  <2>2. [d EXCEPT !.mail = TRUE] \in Working BY <2>1 DEF Deliveries, Working
  <2>3. NextLevel(d.todo) \in Levels /\ d.of \in Clients BY <2>1 DEF NextLevel, Levels, Deliveries
  <2>4. sent' \in [Clients -> [Levels -> Nat]] BY <1>0, <1>4, <2>3 DEF StoreReport, TypesButWork
  <2>5. TypesButWork' BY <1>0, <1>4, <2>4 DEF StoreReport, TypesButWork
  <2> QED BY <1>4, <2>2, <2>5, WorksIn DEF StoreReport
<1>5. ASSUME NEW w \in Workers, MailReport(w) PROVE TypesButWork' /\ delivery' \in [Workers -> Working]
  <2>1. delivery[w] \in Deliveries BY <1>5, KindsOfWork DEF MailReport
  <2>2. [Without(delivery[w]) EXCEPT !.mail = FALSE] \in Working
    BY <2>1, WithoutType DEF Deliveries, Working
  <2>3. TypesButWork' BY <1>0, <1>5 DEF MailReport, TypesButWork
  <2> QED BY <1>5, <2>2, <2>3, WorksIn DEF MailReport
<1>6. ASSUME NEW w \in Workers, DeliveryEnds(w) PROVE TypesButWork' /\ delivery' \in [Workers -> Working]
  <2> DEFINE d == delivery[w]
  <2>1. d \in Deliveries BY <1>6, KindsOfWork DEF DeliveryEnds
  <2>2. d.of \in Clients /\ d.row \in Known /\ Moved(d) \in Known
    BY <1>a, <2>1, MovedKnown DEF Deliveries
  <2>3. Write(d.of, d.row, Moved(d)) BY <1>6 DEF DeliveryEnds, Moved
  <2>4. TypesButWork'
    BY <1>0, <1>6, <2>2, <2>3, WriteType DEF DeliveryEnds, TypesButWork
  <2> QED BY <1>6, <1>w, <2>4, WorksIn DEF DeliveryEnds
<1>7. ASSUME NEW w \in Workers, SkipReport(w) PROVE TypesButWork' /\ delivery' \in [Workers -> Working]
  <2>1. delivery[w] \in Deliveries BY <1>7, KindsOfWork DEF SkipReport
  <2>2. Without(delivery[w]) \in Working BY <2>1, WithoutType DEF Working
  <2>3. TypesButWork' BY <1>0, <1>7, DeliveryAssumption DEF SkipReport, TypesButWork
  <2> QED BY <1>7, <2>2, <2>3, WorksIn DEF SkipReport
<1>8. ASSUME NEW w \in Workers, StoreFails(w) PROVE TypesButWork' /\ delivery' \in [Workers -> Working]
  <2>1. delivery[w] \in Deliveries BY <1>8, KindsOfWork DEF StoreFails
  <2>2. TypesButWork' BY <1>0, <1>8, <2>1, DeliveryAssumption DEF StoreFails, TypesButWork, Deliveries
  <2> QED BY <1>8, <1>w, <2>2, WorksIn DEF StoreFails
<1>9. ASSUME NEW h \in Handlers, SetScheduleCommit(h)
      PROVE  TypesButWork' /\ delivery' \in [Workers -> Working]
  <2> DEFINE d == delivery[h]
  <2>1. d \in Patches BY <1>9, <1>w, KindsOfWork DEF SetScheduleCommit
  <2>2. d.of \in Clients /\ d.row \in Known /\ d.new \in Known BY <2>1 DEF Patches
  <2>3. TypesButWork'
    BY <1>0, <1>9, <2>2, WriteType DEF SetScheduleCommit, TypesButWork
  <2> QED BY <1>9, <1>w, <2>3, WorksIn DEF SetScheduleCommit
<1>10. ASSUME NEW c \in Clients, GetSchedule(c) PROVE TypesButWork' /\ delivery' \in [Workers -> Working]
  BY <1>0, <1>10, RowsKnown DEF GetSchedule, TypesButWork
<1>11. ASSUME NEW c \in Clients, NEW h \in Handlers, SendNow(h, c)
       PROVE  TypesButWork' /\ delivery' \in [Workers -> Working]
  <2>1. GetOrCreate(c) \in Known BY RowRead
  <2>2. [op |-> "deliver", of |-> c, row |-> GetOrCreate(c), mail |-> FALSE,
         todo |-> GetOrCreate(c).levels] \in Working
    BY <2>1, RowsKnown DEF Working, Deliveries
  <2>3. TypesButWork'
    BY <1>0, <1>11, <2>1, RowsKnown, AccessAssumption DEF SendNow, TypesButWork
  <2> QED BY <1>11, <1>w, <2>2, <2>3, WorksIn DEF SendNow, Start
<1>12. ASSUME NEW c \in Clients, NEW h \in Handlers, NEW cadence \in Given \cup {None},
              NEW flip \in SUBSET Levels, SetScheduleBegin(h, c, cadence, flip)
       PROVE  TypesButWork' /\ delivery' \in [Workers -> Working]
  <2> DEFINE row == GetOrCreate(c)
             new == Asked(row, cadence, Flipped(row, flip))
  <2>1. row \in Known /\ new \in Known
        /\ Works(h, [op |-> "patch", of |-> c, row |-> row, new |-> new])
        /\ sched' = [sched EXCEPT ![c] = row]
    BY <1>12, ChangeRead
  <2>2. [op |-> "patch", of |-> c, row |-> row, new |-> new] \in Working
    BY <2>1 DEF Working, Patches
  <2>3. TypesButWork'
    BY <1>0, <1>12, <2>1, RowsKnown, AccessAssumption DEF SetScheduleBegin, TypesButWork
  <2> QED BY <1>w, <2>1, <2>2, <2>3, WorksIn
<1>13. CASE StopsAndStarts
  BY <1>0, <1>13, <1>w, DeliveryAssumption DEF StopsAndStarts, TypesButWork
<1>14. CASE UNCHANGED deliveryVars
  BY <1>0, <1>14 DEF deliveryVars, TypesButWork
<1>15. \A keep \in BOOLEAN, l \in Levels : (IF keep THEN {} ELSE {l}) \in SUBSET Levels OBVIOUS
<1> QED
  BY <1>w, <1>1, <1>2, <1>3, <1>4, <1>5, <1>6, <1>7, <1>8, <1>9, <1>10, <1>11, <1>12, <1>13, <1>14, <1>15
  DEF DeliveryNext, EngineStep, WorkerStep
-------------------------------------------------------------------------------
(* Scheduled reports: once per period.                                     *)

\* The levels the engine has stored in the delivery of c it is at.
Stored(c) ==
  LET d == delivery["engine"]
  IN  {l \in Levels : /\ Delivering("engine") /\ d.of = c
                      /\ l \notin d.todo \/ (d.mail /\ l = NextLevel(d.todo))}

\* The engine delivers a schedule that was due when it loaded it.
LoadedDue ==
  LET d == delivery["engine"]
  IN  Delivering("engine") => d.row.next \in Nat /\ d.row.next <= day

Counted ==
  \A c \in Clients, l \in Levels :
    sent[c][l] <= spoilt[c] + (IF l \in Stored(c) THEN 1 ELSE 0)

PeriodInv == DeliveryTypeOK /\ LoadedDue /\ Counted

LEMMA PeriodInit == DeliveryInit => PeriodInv
<1> SUFFICES ASSUME DeliveryInit PROVE LoadedDue /\ Counted BY DeliveryInitType DEF PeriodInv
<1>1. delivery["engine"] = Ready BY DEF DeliveryInit, Workers
<1> QED BY <1>1 DEF DeliveryInit, LoadedDue, Counted, Delivering, Ready

\* A step of another worker that writes the schedule, or does not.
LEMMA WriteCounts ==
  ASSUME DeliveryTypeOK, Counted, NEW c \in Clients, NEW old \in Known, NEW new \in Known,
         Write(c, old, new), \A b \in Clients : Stored(b)' = Stored(b)
  PROVE  Counted'
<1>1. ASSUME NEW b \in Clients, NEW l \in Levels
      PROVE  \/ sent'[b][l] = 0 /\ spoilt'[b] \in Nat
             \/ sent'[b][l] = sent[b][l] /\ spoilt'[b] = spoilt[b]
  <2>1. CASE new.next # old.next BY <2>1 DEF Write, DeliveryTypeOK
  <2>2. CASE new.next = old.next BY <2>2 DEF Write, DeliveryTypeOK
  <2> QED BY <2>1, <2>2
<1> QED BY <1>1 DEF Counted

\* What the engine is at stays as it is while another works.
LEMMA OthersWork ==
  ASSUME delivery'["engine"] = delivery["engine"]
  PROVE  \A c \in Clients : Stored(c)' = Stored(c)
BY DEF Stored, Delivering

LEMMA PeriodStep == PeriodInv /\ [DeliveryNext]_deliveryVars => PeriodInv'
<1> SUFFICES ASSUME PeriodInv, [DeliveryNext]_deliveryVars PROVE LoadedDue' /\ Counted'
  BY DeliveryStepType DEF PeriodInv
<1>0. DeliveryTypeOK /\ LoadedDue /\ Counted /\ DeliveryTypeOK' BY DeliveryStepType DEF PeriodInv
<1>t. /\ day \in Nat /\ day' \in Nat
      /\ sent \in [Clients -> [Levels -> Nat]] /\ spoilt \in [Clients -> Nat]
  BY <1>0, DeliveryAssumption DEF DeliveryTypeOK
<1>e. "engine" \in Workers /\ Handlers \subseteq Workers /\ "engine" \notin Handlers
  BY DeliveryAssumption DEF Workers
<1>k. Delivering("engine") => delivery["engine"] \in Deliveries BY <1>0, <1>e, KindsOfWork
\* A step the engine has no part in.
<1>a. ASSUME delivery'["engine"] = delivery["engine"], day' = day \/ day' = day + 1 PROVE LoadedDue'
  BY <1>0, <1>t, <1>a DEF LoadedDue, Delivering
<1>b. ASSUME delivery'["engine"] = delivery["engine"], UNCHANGED <<sent, spoilt>> PROVE Counted'
  BY <1>0, <1>b, OthersWork DEF Counted
<1>c. ASSUME NEW h \in Handlers, NEW d, Works(h, d) PROVE delivery'["engine"] = delivery["engine"]
  BY <1>0, <1>e, <1>c DEF Works, DeliveryTypeOK
<1>1. CASE NextDay BY <1>1, <1>a, <1>b DEF NextDay
<1>2. CASE PassReads BY <1>2, <1>a, <1>b DEF PassReads
<1>3. ASSUME NEW c \in Clients, PassTakes(c) PROVE LoadedDue' /\ Counted'
  <2>1. CASE IsDueNow(c)
    <3>1. delivery'["engine"] = [op |-> "deliver", of |-> c, row |-> sched[c], mail |-> FALSE,
                                 todo |-> sched[c].levels]
      BY <1>0, <1>3, <1>e, <2>1 DEF PassTakes, Start, Works, DeliveryTypeOK
    <3>2. sched[c].next \in Nat /\ sched[c].next <= day /\ UNCHANGED <<day, sent, spoilt>>
      BY <1>0, <1>3, <2>1 DEF PassTakes, IsDueNow, DeliveryTypeOK, Schedule
    <3>3. LoadedDue' BY <3>1, <3>2 DEF LoadedDue
    <3>4. \A b \in Clients : Stored(b) = {} BY <1>3 DEF PassTakes, Stored, Delivering, Ready
    <3>5. \A b \in Clients, l \in Levels : sent[b][l] <= spoilt[b] BY <1>0, <1>t, <3>4 DEF Counted
    <3>6. Counted' BY <1>t, <3>2, <3>5 DEF Counted
    <3> QED BY <3>3, <3>6
  <2>2. CASE ~IsDueNow(c) BY <1>3, <1>a, <1>b, <2>2 DEF PassTakes
  <2> QED BY <2>1, <2>2
<1>4. ASSUME NEW w \in Workers, StoreReport(w) PROVE LoadedDue' /\ Counted'
  <2>1. CASE w \in Handlers
    <3>1. delivery'["engine"] = delivery["engine"] BY <1>4, <1>c, <2>1 DEF StoreReport
    <3> QED BY <1>4, <1>a, <1>b, <1>e, <2>1, <3>1 DEF StoreReport
  <2>2. CASE w = "engine"
    <3> DEFINE d == delivery["engine"]
    <3>1. d \in Deliveries /\ Delivering("engine") /\ ~d.mail /\ d.todo # {}
      BY <1>4, <1>k, <2>2 DEF StoreReport
    <3>2. delivery'["engine"] = [d EXCEPT !.mail = TRUE]
      BY <1>0, <1>4, <1>e, <2>2 DEF StoreReport, Works, DeliveryTypeOK
    <3>3. delivery'["engine"].op = "deliver" /\ delivery'["engine"].of = d.of
          /\ delivery'["engine"].row = d.row /\ delivery'["engine"].todo = d.todo
          /\ delivery'["engine"].mail
      BY <3>1, <3>2 DEF Deliveries, Delivering
    <3>4. LoadedDue' BY <1>0, <1>4, <3>1, <3>3 DEF LoadedDue, StoreReport
    <3>5. d.of \in Clients /\ NextLevel(d.todo) \in Levels /\ NextLevel(d.todo) \in d.todo
      BY <3>1 DEF Deliveries, NextLevel, Levels
    <3>6. ASSUME NEW c \in Clients, NEW l \in Levels, c = d.of, l = NextLevel(d.todo)
          PROVE  l \notin Stored(c) /\ l \in Stored(c)' /\ sent'[c][l] = sent[c][l] + 1
      <4>1. l \notin Stored(c) BY <3>1, <3>5, <3>6 DEF Stored
      <4>2. l \in Stored(c)' BY <3>3, <3>6 DEF Stored, Delivering
      <4>3. sent'[c][l] = sent[c][l] + 1 BY <1>4, <1>t, <2>2, <3>5, <3>6 DEF StoreReport
      <4> QED BY <4>1, <4>2, <4>3
    <3>7. ASSUME NEW c \in Clients, NEW l \in Levels, c # d.of \/ l # NextLevel(d.todo)
          PROVE  (l \in Stored(c) => l \in Stored(c)') /\ sent'[c][l] = sent[c][l]
      <4>1. l \in Stored(c) => l \in Stored(c)' BY <3>1, <3>3, <3>7 DEF Stored, Delivering
      <4>2. sent'[c][l] = sent[c][l] BY <1>4, <1>t, <2>2, <3>5, <3>7 DEF StoreReport
      <4> QED BY <4>1, <4>2
    <3>8. UNCHANGED spoilt BY <1>4 DEF StoreReport
    <3>9. ASSUME NEW c \in Clients, NEW l \in Levels
          PROVE  sent'[c][l] <= spoilt'[c] + (IF l \in Stored(c)' THEN 1 ELSE 0)
      <4>1. CASE c = d.of /\ l = NextLevel(d.todo)
        BY <1>0, <1>t, <3>6, <3>8, <4>1 DEF Counted
      <4>2. CASE ~(c = d.of /\ l = NextLevel(d.todo))
        BY <1>0, <1>t, <3>7, <3>8, <4>2 DEF Counted
      <4> QED BY <4>1, <4>2
    <3> QED BY <3>4, <3>9 DEF Counted
  <2> QED BY <2>1, <2>2 DEF Workers
<1>5. ASSUME NEW w \in Workers, MailReport(w) \/ SkipReport(w) PROVE LoadedDue' /\ Counted'
  <2>1. CASE w \in Handlers
    <3>1. delivery'["engine"] = delivery["engine"] BY <1>5, <1>c, <2>1 DEF MailReport, SkipReport
    <3> QED BY <1>5, <1>a, <1>b, <3>1 DEF MailReport, SkipReport
  <2>2. CASE w = "engine"
    <3> DEFINE d == delivery["engine"]
               e == delivery'["engine"]
    <3>1. d \in Deliveries /\ Delivering("engine") BY <1>5, <1>k, <2>2 DEF MailReport, SkipReport
    <3>2. e = [Without(d) EXCEPT !.mail = FALSE] \/ (e = Without(d) /\ ~d.mail)
      BY <1>0, <1>5, <1>e, <2>2 DEF MailReport, SkipReport, Works, DeliveryTypeOK
    <3>3. e.op = "deliver" /\ e.of = d.of /\ e.row = d.row /\ ~e.mail
          /\ e.todo = d.todo \ {NextLevel(d.todo)}
      BY <3>1, <3>2 DEF Without, Deliveries
    <3>4. UNCHANGED <<sent, spoilt, day>> BY <1>5 DEF MailReport, SkipReport
    <3>5. LoadedDue' BY <1>0, <3>1, <3>3, <3>4 DEF LoadedDue
    <3>6. ASSUME NEW c \in Clients, NEW l \in Levels, l \in Stored(c) PROVE l \in Stored(c)'
      BY <3>3, <3>6 DEF Stored, Delivering
    <3>7. ASSUME NEW c \in Clients, NEW l \in Levels
          PROVE  sent'[c][l] <= spoilt'[c] + (IF l \in Stored(c)' THEN 1 ELSE 0)
      BY <1>0, <1>t, <3>4, <3>6 DEF Counted
    <3> QED BY <3>5, <3>7 DEF Counted
  <2> QED BY <2>1, <2>2 DEF Workers
<1>6. ASSUME NEW w \in Workers, DeliveryEnds(w) PROVE LoadedDue' /\ Counted'
  <2> DEFINE d == delivery[w]
  <2>1. d \in Deliveries BY <1>0, <1>6, KindsOfWork DEF DeliveryEnds
  <2>2. d.of \in Clients /\ d.row \in Known /\ Moved(d) \in Known
    BY <1>t, <2>1, MovedKnown DEF Deliveries
  <2>3. Write(d.of, d.row, Moved(d)) BY <1>6 DEF DeliveryEnds, Moved
  <2>4. CASE w \in Handlers
    <3>1. delivery'["engine"] = delivery["engine"] BY <1>6, <1>c, <2>4 DEF DeliveryEnds
    <3>2. Counted' BY <1>0, <2>2, <2>3, <3>1, OthersWork, WriteCounts
    <3> QED BY <1>6, <1>a, <3>1, <3>2 DEF DeliveryEnds
  <2>5. CASE w = "engine"
    <3>1. delivery'["engine"] = Ready BY <1>0, <1>6, <1>e, <2>5 DEF DeliveryEnds, Works, DeliveryTypeOK
    <3>2. LoadedDue' BY <3>1 DEF LoadedDue, Delivering, Ready
    <3>3. Moved(d).next # d.row.next
      <4>1. d.row.next \in Nat /\ d.row.next <= day BY <1>0, <1>6, <2>5 DEF LoadedDue, DeliveryEnds
      <4>2. d.row.cadence \in DOMAIN Days /\ Days[d.row.cadence] \in Nat \ {0}
        BY <2>2, RowsKnown, DaysAreNumbers
      <4>3. Moved(d).next = day + Days[d.row.cadence] BY <2>2 DEF Moved, ComputeNextRun, Known, Schedule
      <4> QED BY <1>t, <4>1, <4>2, <4>3
    <3>4. \A l \in Levels : sent'[d.of][l] = 0 /\ spoilt'[d.of] = 0
      BY <1>t, <2>2, <2>3, <3>3 DEF Write
    <3>5. ASSUME NEW c \in Clients, NEW l \in Levels, c # d.of
          PROVE  sent'[c][l] = sent[c][l] /\ spoilt'[c] = spoilt[c] /\ l \notin Stored(c)
      BY <1>t, <2>3, <2>5, <3>3, <3>5 DEF Write, Stored
    <3>6. ASSUME NEW c \in Clients, NEW l \in Levels PROVE sent'[c][l] <= spoilt'[c]
      BY <1>0, <1>t, <3>4, <3>5 DEF Counted
    <3>7. Counted' BY <1>0, <3>6 DEF Counted, DeliveryTypeOK
    <3> QED BY <3>2, <3>7
  <2> QED BY <2>4, <2>5 DEF Workers
<1>7. ASSUME NEW w \in Workers, StoreFails(w) PROVE LoadedDue' /\ Counted'
  <2> DEFINE d == delivery[w]
  <2>1. d.of \in Clients BY <1>0, <1>7, KindsOfWork DEF StoreFails, Deliveries
  <2>2. \A c \in Clients : spoilt'[c] = IF c = d.of THEN spoilt[c] + 1 ELSE spoilt[c]
    BY <1>7, <1>t DEF StoreFails
  <2>3. UNCHANGED <<sent, day>> BY <1>7 DEF StoreFails
  <2>4. CASE w \in Handlers
    <3>1. delivery'["engine"] = delivery["engine"] BY <1>7, <1>c, <2>4 DEF StoreFails
    <3>2. \A c \in Clients : Stored(c)' = Stored(c) BY <3>1, OthersWork
    <3>3. ASSUME NEW c \in Clients, NEW l \in Levels
          PROVE  sent'[c][l] <= spoilt'[c] + (IF l \in Stored(c)' THEN 1 ELSE 0)
      BY <1>0, <1>t, <2>2, <2>3, <3>2 DEF Counted
    <3> QED BY <1>a, <2>3, <3>1, <3>3 DEF Counted
  <2>5. CASE w = "engine"
    <3>1. delivery'["engine"] = Ready BY <1>0, <1>7, <1>e, <2>5 DEF StoreFails, Works, DeliveryTypeOK
    <3>2. LoadedDue' BY <3>1 DEF LoadedDue, Delivering, Ready
    <3>3. \A c \in Clients : c # d.of => Stored(c) = {} BY <2>5 DEF Stored
    <3>4. ASSUME NEW c \in Clients, NEW l \in Levels PROVE sent'[c][l] <= spoilt'[c]
      BY <1>0, <1>t, <2>2, <2>3, <3>3 DEF Counted
    <3>5. Counted' BY <1>0, <3>4 DEF Counted, DeliveryTypeOK
    <3> QED BY <3>2, <3>5
  <2> QED BY <2>4, <2>5 DEF Workers
<1>8. ASSUME NEW h \in Handlers, SetScheduleCommit(h) PROVE LoadedDue' /\ Counted'
  <2> DEFINE d == delivery[h]
  <2>1. d \in Patches BY <1>0, <1>8, <1>e, KindsOfWork DEF SetScheduleCommit
  <2>2. d.of \in Clients /\ d.row \in Known /\ d.new \in Known BY <2>1 DEF Patches
  <2>3. delivery'["engine"] = delivery["engine"] BY <1>8, <1>c DEF SetScheduleCommit
  <2>4. Counted' BY <1>0, <1>8, <2>2, <2>3, OthersWork, WriteCounts DEF SetScheduleCommit
  <2> QED BY <1>8, <1>a, <2>3, <2>4 DEF SetScheduleCommit
<1>9. ASSUME NEW c \in Clients, GetSchedule(c) PROVE LoadedDue' /\ Counted'
  BY <1>9, <1>a, <1>b DEF GetSchedule
<1>10. ASSUME NEW c \in Clients, NEW h \in Handlers, SendNow(h, c) PROVE LoadedDue' /\ Counted'
  BY <1>10, <1>a, <1>b, <1>c DEF SendNow, Start
<1>11. ASSUME NEW c \in Clients, NEW h \in Handlers, NEW cadence \in Given \cup {None},
              NEW flip \in SUBSET Levels, SetScheduleBegin(h, c, cadence, flip)
       PROVE  LoadedDue' /\ Counted'
  <2>1. delivery'["engine"] = delivery["engine"] BY <1>0, <1>11, <1>c, ChangeRead
  <2> QED BY <1>11, <1>a, <1>b, <2>1 DEF SetScheduleBegin
<1>12. CASE StopsAndStarts
  <2>1. delivery'["engine"] = Ready BY <1>12, <1>e DEF StopsAndStarts
  <2>2. LoadedDue' BY <2>1 DEF LoadedDue, Delivering, Ready
  <2>3. ASSUME NEW c \in Clients, NEW l \in Levels PROVE sent'[c][l] <= spoilt'[c]
    <3>1. CASE Delivering("engine") /\ delivery["engine"].of = c
      <4>1. spoilt'[c] = spoilt[c] + 1 BY <1>12, <1>e, <3>1 DEF StopsAndStarts
      <4> QED BY <1>0, <1>12, <1>t, <4>1 DEF Counted, StopsAndStarts
    <3>2. CASE ~(Delivering("engine") /\ delivery["engine"].of = c)
      <4>1. l \notin Stored(c) BY <3>2 DEF Stored
      <4>2. spoilt'[c] \in {spoilt[c], spoilt[c] + 1} BY <1>12 DEF StopsAndStarts
      <4> QED BY <1>0, <1>12, <1>t, <4>1, <4>2 DEF Counted, StopsAndStarts
    <3> QED BY <3>1, <3>2
  <2>4. Counted' BY <1>0, <2>3 DEF Counted, DeliveryTypeOK
  <2> QED BY <2>2, <2>4
<1>13. CASE UNCHANGED deliveryVars BY <1>13, <1>a, <1>b DEF deliveryVars
<1>14. \A keep \in BOOLEAN, l \in Levels : (IF keep THEN {} ELSE {l}) \in SUBSET Levels OBVIOUS
<1> QED
  BY <1>e, <1>1, <1>2, <1>3, <1>4, <1>5, <1>6, <1>7, <1>8, <1>9, <1>10, <1>11, <1>12, <1>13, <1>14
  DEF DeliveryNext, EngineStep, WorkerStep

\* The engine stores a level's report once in a period, and once more for every
\* delivery that was cut short in it, however many tenants and requests.
THEOREM SentOnce == DeliverySpec => []OncePerPeriod
<1>1. PeriodInv => OncePerPeriod
  BY DEF PeriodInv, Counted, OncePerPeriod, DeliveryTypeOK
<1> QED BY <1>1, PeriodInit, PeriodStep, PTL DEF DeliverySpec
-------------------------------------------------------------------------------
(* Scheduled reports: within the period.                                   *)

\* A schedule in force runs within its period, on a day.
FitsOn(row, today) ==
  row.cadence \notin {None, "off"} => row.next # None /\ row.next <= today + Days[row.cadence]
Fits(row) == FitsOn(row, day)

\* A change leaves the cadence and the next run as it loaded them, or restarts
\* the period.
ChangesFit ==
  \A h \in Handlers :
    delivery[h].op = "patch" =>
      \/ delivery[h].new.cadence = delivery[h].row.cadence /\ delivery[h].new.next = delivery[h].row.next
      \/ Fits(delivery[h].new)

WithinInv == DeliveryTypeOK /\ ChangesFit /\ RunsWithinPeriod

LEMMA WithinInit == DeliveryInit => WithinInv
<1> SUFFICES ASSUME DeliveryInit PROVE ChangesFit /\ RunsWithinPeriod
  BY DeliveryInitType DEF WithinInv
<1>1. ChangesFit BY DEF DeliveryInit, ChangesFit, Ready, Workers
<1>2. RunsWithinPeriod BY DEF DeliveryInit, RunsWithinPeriod, NoSchedule
<1> QED BY <1>1, <1>2

\* What fits goes on fitting: the clock does not go back.
LEMMA FitsStays ==
  ASSUME day \in Nat, day' \in Nat, day' >= day, NEW row \in Schedule, Fits(row)
  PROVE  FitsOn(row, day')
<1> SUFFICES ASSUME row.cadence \notin {None, "off"}
             PROVE  row.next # None /\ row.next <= day' + Days[row.cadence]
  BY DEF FitsOn
<1>1. row.next \in Nat /\ row.next <= day + Days[row.cadence] BY DEF Fits, FitsOn, Schedule
<1>2. Days[row.cadence] \in Nat BY DaysAreNumbers DEF Schedule
<1> QED BY <1>1, <1>2, DeliveryAssumption

\* A row that is written, over the row that was loaded, with what fits or with
\* the cadence and the next run it had.
LEMMA WriteFits ==
  ASSUME DeliveryTypeOK, RunsWithinPeriod, UNCHANGED day,
         NEW c \in Clients, NEW old \in Known, NEW new \in Known, Write(c, old, new),
         (new.cadence = old.cadence /\ new.next = old.next) \/ Fits(new)
  PROVE  RunsWithinPeriod'
<1> SUFFICES ASSUME NEW b \in Clients, b \notin crossed',
                    sched'[b].cadence \notin {None, "off"}
             PROVE  sched'[b].next # None /\ sched'[b].next <= day' + Days[sched'[b].cadence]
  BY DEF RunsWithinPeriod
<1>1. CASE b # c
  <2>1. sched'[b] = sched[b] BY <1>1 DEF Write, DeliveryTypeOK
  <2>2. b \notin crossed BY <1>1 DEF Write
  <2> QED BY <2>1, <2>2 DEF RunsWithinPeriod
<1>2. CASE b = c
  <2>1. sched[c] = old BY <1>2 DEF Write
  <2>2. sched'[c] = new BY <2>1, MergedAlone DEF Write, DeliveryTypeOK
  <2>3. CASE Fits(new) BY <1>2, <2>2, <2>3 DEF Fits, FitsOn
  <2>4. CASE new.cadence = old.cadence /\ new.next = old.next
    <3>1. c \notin crossed BY <1>2, <2>1, <2>4 DEF Write
    <3> QED BY <1>2, <2>1, <2>2, <2>4, <3>1 DEF RunsWithinPeriod
  <2> QED BY <2>3, <2>4
<1> QED BY <1>1, <1>2

\* What a change or a delivery computes fits.
LEMMA ComputedFits ==
  ASSUME day \in Nat, NEW cadence \in DOMAIN Days
  PROVE  ComputeNextRun(cadence) # None /\ ComputeNextRun(cadence) <= day + Days[cadence]
BY NextRunType, DeliveryAssumption DEF ComputeNextRun

LEMMA WithinStep == WithinInv /\ [DeliveryNext]_deliveryVars => WithinInv'
<1> SUFFICES ASSUME WithinInv, [DeliveryNext]_deliveryVars PROVE ChangesFit' /\ RunsWithinPeriod'
  BY DeliveryStepType DEF WithinInv
<1>0. DeliveryTypeOK /\ ChangesFit /\ RunsWithinPeriod /\ DeliveryTypeOK'
  BY DeliveryStepType DEF WithinInv
<1>t. day \in Nat /\ day' \in Nat BY <1>0, DeliveryAssumption DEF DeliveryTypeOK
<1>e. "engine" \in Workers /\ Handlers \subseteq Workers BY DEF Workers
\* What was read is as it was, or no longer a change.
<1>a. ASSUME \A h \in Handlers : delivery'[h].op = "patch" => delivery'[h] = delivery[h],
             day' >= day
      PROVE  ChangesFit'
  <2> SUFFICES ASSUME NEW h \in Handlers, delivery'[h].op = "patch"
               PROVE  \/ delivery'[h].new.cadence = delivery'[h].row.cadence
                         /\ delivery'[h].new.next = delivery'[h].row.next
                      \/ FitsOn(delivery'[h].new, day')
    BY DEF ChangesFit, Fits, FitsOn
  <2> DEFINE d == delivery[h]
  <2>1. delivery'[h] = d /\ d.op = "patch" BY <1>a
  <2>2. d.new \in Schedule BY <1>0, <1>e, <2>1, KindsOfWork, RowsKnown DEF Patches
  <2>3. CASE d.new.cadence = d.row.cadence /\ d.new.next = d.row.next BY <2>1, <2>3
  <2>4. CASE Fits(d.new)
    <3>1. FitsOn(d.new, day') BY <1>t, <1>a, <2>2, <2>4, FitsStays
    <3> QED BY <2>1, <3>1
  <2> QED BY <1>0, <2>1, <2>3, <2>4 DEF ChangesFit
<1>b. ASSUME UNCHANGED <<sched, crossed>>, day' >= day PROVE RunsWithinPeriod'
  <2> SUFFICES ASSUME NEW c \in Clients, sched[c].cadence \notin {None, "off"}, c \notin crossed
               PROVE  sched[c].next # None /\ sched[c].next <= day' + Days[sched[c].cadence]
    BY <1>b DEF RunsWithinPeriod
  <2>1. Fits(sched[c]) BY <1>0 DEF Fits, FitsOn, RunsWithinPeriod
  <2>2. FitsOn(sched[c], day') BY <1>0, <1>t, <1>b, <2>1, FitsStays DEF DeliveryTypeOK
  <2> QED BY <2>2 DEF FitsOn
\* A row is created where there was none, and read where there was one.
<1>c. ASSUME NEW c \in Clients, sched' = [sched EXCEPT ![c] = GetOrCreate(c)], UNCHANGED <<crossed, day>>
      PROVE  RunsWithinPeriod'
  BY <1>0, <1>c DEF RunsWithinPeriod, GetOrCreate, NewSchedule, DeliveryTypeOK
<1>d. ASSUME NEW w \in Workers, NEW d, Works(w, d), d.op # "patch"
      PROVE  \A h \in Handlers : delivery'[h].op = "patch" => delivery'[h] = delivery[h]
  BY <1>0, <1>d, <1>e, WorksType
<1>r. Ready.op # "patch" BY DEF Ready
<1>1. CASE NextDay BY <1>1, <1>t, <1>a, <1>b DEF NextDay
<1>2. CASE PassReads BY <1>2, <1>t, <1>a, <1>b DEF PassReads
<1>3. ASSUME NEW c \in Clients, PassTakes(c) PROVE ChangesFit' /\ RunsWithinPeriod'
  <2>1. \A h \in Handlers : delivery'[h].op = "patch" => delivery'[h] = delivery[h]
    BY <1>3, <1>d, <1>e DEF PassTakes, Start
  <2> QED BY <1>3, <1>t, <1>a, <1>b, <2>1 DEF PassTakes
<1>4. ASSUME NEW w \in Workers, StoreReport(w) \/ MailReport(w) \/ SkipReport(w) \/ StoreFails(w)
      PROVE  ChangesFit' /\ RunsWithinPeriod'
  <2> DEFINE d == delivery[w]
  <2>1. d \in Deliveries BY <1>0, <1>4, KindsOfWork DEF StoreReport, MailReport, SkipReport, StoreFails
  <2>2. [d EXCEPT !.mail = TRUE].op # "patch" /\ Without(d).op # "patch"
        /\ [Without(d) EXCEPT !.mail = FALSE].op # "patch"
    BY <2>1 DEF Without, Deliveries
  <2>3. \A h \in Handlers : delivery'[h].op = "patch" => delivery'[h] = delivery[h]
    BY <1>4, <1>d, <1>r, <2>2 DEF StoreReport, MailReport, SkipReport, StoreFails
  <2>4. UNCHANGED <<sched, crossed, day>> BY <1>4 DEF StoreReport, MailReport, SkipReport, StoreFails
  <2> QED BY <1>t, <1>a, <1>b, <2>3, <2>4
<1>5. ASSUME NEW w \in Workers, DeliveryEnds(w) PROVE ChangesFit' /\ RunsWithinPeriod'
  <2> DEFINE d == delivery[w]
  <2>1. d \in Deliveries BY <1>0, <1>5, KindsOfWork DEF DeliveryEnds
  <2>2. d.of \in Clients /\ d.row \in Known /\ Moved(d) \in Known
    BY <1>t, <2>1, MovedKnown DEF Deliveries
  <2>3. Write(d.of, d.row, Moved(d)) /\ UNCHANGED day BY <1>5 DEF DeliveryEnds, Moved
  <2>4. Fits(Moved(d))
    <3>1. d.row.cadence \in DOMAIN Days BY <2>2, RowsKnown
    <3>2. Moved(d).cadence = d.row.cadence /\ Moved(d).next = ComputeNextRun(d.row.cadence)
      BY <2>2 DEF Moved, Known, Schedule
    <3> QED BY <1>t, <3>1, <3>2, ComputedFits DEF Fits, FitsOn
  <2>5. RunsWithinPeriod' BY <1>0, <2>2, <2>3, <2>4, WriteFits
  <2>6. \A h \in Handlers : delivery'[h].op = "patch" => delivery'[h] = delivery[h]
    BY <1>5, <1>d, <1>r DEF DeliveryEnds
  <2> QED BY <1>t, <1>a, <2>3, <2>5, <2>6
<1>6. ASSUME NEW h \in Handlers, SetScheduleCommit(h) PROVE ChangesFit' /\ RunsWithinPeriod'
  <2> DEFINE d == delivery[h]
  <2>1. d \in Patches BY <1>0, <1>6, <1>e, KindsOfWork DEF SetScheduleCommit
  <2>2. d.of \in Clients /\ d.row \in Known /\ d.new \in Known BY <2>1 DEF Patches
  <2>3. Write(d.of, d.row, d.new) /\ UNCHANGED day BY <1>6 DEF SetScheduleCommit
  <2>4. (d.new.cadence = d.row.cadence /\ d.new.next = d.row.next) \/ Fits(d.new)
    BY <1>0, <2>1 DEF ChangesFit, Patches
  <2>5. RunsWithinPeriod' BY <1>0, <2>2, <2>3, <2>4, WriteFits
  <2>6. \A g \in Handlers : delivery'[g].op = "patch" => delivery'[g] = delivery[g]
    BY <1>6, <1>d, <1>e, <1>r DEF SetScheduleCommit
  <2> QED BY <1>t, <1>a, <2>3, <2>5, <2>6
<1>7. ASSUME NEW c \in Clients, GetSchedule(c) PROVE ChangesFit' /\ RunsWithinPeriod'
  <2>1. GetOrCreate(c) = NewSchedule BY <1>7 DEF GetSchedule, GetOrCreate
  <2>2. RunsWithinPeriod' BY <1>7, <1>c, <2>1 DEF GetSchedule
  <2>3. ChangesFit' BY <1>7, <1>t, <1>a DEF GetSchedule
  <2> QED BY <2>2, <2>3
<1>8. ASSUME NEW c \in Clients, NEW h \in Handlers, SendNow(h, c)
      PROVE  ChangesFit' /\ RunsWithinPeriod'
  <2>1. \A g \in Handlers : delivery'[g].op = "patch" => delivery'[g] = delivery[g]
    BY <1>8, <1>d, <1>e DEF SendNow, Start
  <2>2. RunsWithinPeriod' BY <1>8, <1>c DEF SendNow
  <2>3. ChangesFit' BY <1>8, <1>t, <1>a, <2>1 DEF SendNow
  <2> QED BY <2>2, <2>3
<1>9. ASSUME NEW c \in Clients, NEW h \in Handlers, NEW cadence \in Given \cup {None},
             NEW flip \in SUBSET Levels, SetScheduleBegin(h, c, cadence, flip)
      PROVE  ChangesFit' /\ RunsWithinPeriod'
  <2> DEFINE row == GetOrCreate(c)
             new == Asked(row, cadence, Flipped(row, flip))
             d == [op |-> "patch", of |-> c, row |-> row, new |-> new]
  <2>1. row \in Known /\ new \in Known /\ Works(h, d) /\ sched' = [sched EXCEPT ![c] = row]
    BY <1>0, <1>9, ChangeRead
  <2>2. UNCHANGED <<day, crossed>> BY <1>9 DEF SetScheduleBegin
  <2>3. (new.cadence = row.cadence /\ new.next = row.next) \/ Fits(new)
    <3>1. CASE cadence = None BY <2>1, <3>1 DEF Asked, Known, Schedule
    <3>2. CASE cadence # None /\ cadence # "off"
      <4>1. cadence \in DOMAIN Days BY <3>2, DeliveryAssumption
      <4>2. new.cadence = cadence /\ new.next = ComputeNextRun(cadence) BY <3>2 DEF Asked
      <4> QED BY <1>t, <4>1, <4>2, ComputedFits DEF Fits, FitsOn
    <3>3. CASE cadence = "off" /\ cadence # None BY <3>3 DEF Asked, Fits, FitsOn
    <3> QED BY <3>1, <3>2, <3>3
  <2>4. \A g \in Handlers : delivery'[g] = IF g = h THEN d ELSE delivery[g]
    BY <1>0, <1>e, <2>1, WorksType
  <2>5. ASSUME NEW g \in Handlers, delivery'[g].op = "patch"
        PROVE  \/ delivery'[g].new.cadence = delivery'[g].row.cadence
                  /\ delivery'[g].new.next = delivery'[g].row.next
               \/ FitsOn(delivery'[g].new, day')
    <3>1. CASE g = h
      <4>1. delivery'[g].new = new /\ delivery'[g].row = row BY <2>4, <3>1
      <4> HIDE DEF new, row
      <4> QED BY <2>2, <2>3, <4>1 DEF Fits, FitsOn
    <3>2. CASE g # h BY <1>0, <2>2, <2>4, <2>5, <3>2 DEF ChangesFit, Fits, FitsOn
    <3> QED BY <3>1, <3>2
  <2>6. ChangesFit' BY <2>5 DEF ChangesFit, Fits, FitsOn
  <2> QED BY <1>c, <2>1, <2>2, <2>6
<1>10. CASE StopsAndStarts
  <2>1. \A h \in Handlers : delivery'[h] = Ready BY <1>10, <1>e DEF StopsAndStarts
  <2> QED BY <1>10, <1>t, <1>a, <1>b, <1>r, <2>1 DEF StopsAndStarts
<1>11. CASE UNCHANGED deliveryVars BY <1>11, <1>t, <1>a, <1>b DEF deliveryVars
<1>12. \A keep \in BOOLEAN, l \in Levels : (IF keep THEN {} ELSE {l}) \in SUBSET Levels OBVIOUS
<1> QED
  BY <1>e, <1>1, <1>2, <1>3, <1>4, <1>5, <1>6, <1>7, <1>8, <1>9, <1>10, <1>11, <1>12
  DEF DeliveryNext, EngineStep, WorkerStep

\* A schedule in force runs within its period, whatever is asked of it, unless
\* a worker wrote it over a change it had not seen.
THEOREM WithinThePeriod == DeliverySpec => []RunsWithinPeriod
<1>1. WithinInv => RunsWithinPeriod BY DEF WithinInv
<1> QED BY <1>1, WithinInit, WithinStep, PTL DEF DeliverySpec

-------------------------------------------------------------------------------
(* Evidence: types.                                                        *)

LEMMA NoneIsNoStatus ==
  None \notin ControlIds /\ None \notin ControlStatuses /\ None \notin EvidenceTypes
BY ControlsAssumption

LEMMA DoesType ==
  ASSUME ControlsTypeOK, NEW h \in Handlers, NEW r, Does(h, r)
  PROVE  /\ \A k \in Handlers : review'[k] = IF k = h THEN r ELSE review[k]
         /\ r \in Reviews => review' \in [Handlers -> Reviews]
BY DEF Does, ControlsTypeOK

\* Whatever a handler is at, of the kind its name says.
LEMMA KindsOfReview ==
  ASSUME ControlsTypeOK, NEW h \in Handlers
  PROVE  /\ review[h].op \in {"add", "drop"} => review[h] \in Changes
         /\ review[h].op = "recompute" => review[h] \in Waiting
         /\ review[h].op = "derive" => review[h] \in Derivations
         /\ review[h].op = "set" => review[h] \in Decisions
         /\ review[h] # Free => review[h].of \in ControlIds
BY DEF ControlsTypeOK, Reviews, Free, Changes, Waiting, Derivations, Decisions

LEMMA StartsFree ==
  /\ Free \in Reviews
  /\ \A c \in ControlIds : [op |-> "recompute", of |-> c] \in Reviews
  /\ \A e \in Items, c \in ControlIds, op \in {"add", "drop"} : [op |-> op, item |-> e, of |-> c] \in Reviews
BY DEF Reviews, Changes, Waiting

LEMMA TypesAreTypes ==
  ASSUME ControlsTypeOK, NEW c \in ControlIds PROVE TypesOf(c) \in SUBSET EvidenceTypes
BY NoneIsNoStatus DEF TypesOf, ControlsTypeOK, NoEvidence

LEMMA RecomputedType ==
  ASSUME NEW row \in Status, NEW types \in SUBSET EvidenceTypes, NEW gap
  PROVE  Recomputed(row, types, gap) \in StatusRow
BY DEF Recomputed, Derived, Status, StatusRow, NoStatus, ControlStatuses, Decided

\* What a decision is going to write.
GivenRow(row, given) ==
  LET now == IF row = NoStatus THEN [NoStatus EXCEPT !.status = "not_started"] ELSE row
  IN  IF given = None THEN now ELSE [now EXCEPT !.status = given]

LEMMA GivenType ==
  ASSUME NEW row \in Status, NEW given \in ControlStatuses \cup {None}
  PROVE  GivenRow(row, given) \in StatusRow
<1> DEFINE now == IF row = NoStatus THEN [NoStatus EXCEPT !.status = "not_started"] ELSE row
<1>1. now \in StatusRow BY DEF Status, StatusRow, NoStatus, ControlStatuses
<1>2. given # None => [now EXCEPT !.status = given] \in StatusRow BY <1>1 DEF StatusRow
<1> QED BY <1>1, <1>2 DEF GivenRow

LEMMA StoreType ==
  ASSUME ControlsTypeOK, NEW c \in ControlIds, NEW old \in Status, NEW new \in StatusRow,
         Store(c, old, new), old # NoStatus => status[c] # NoStatus
  PROVE  /\ status' \in [ControlIds -> Status] /\ twice' \subseteq twice \cup {c}
         /\ \A b \in ControlIds : status[b] # NoStatus => status'[b] # NoStatus
         /\ twice' # twice => status[c] # old
<1>1. CASE old = NoStatus /\ status[c] # NoStatus BY <1>1 DEF Store, ControlsTypeOK
<1>2. CASE ~(old = NoStatus /\ status[c] # NoStatus)
  <2> DEFINE row == [status |-> IF new.status # old.status THEN new.status ELSE status[c].status,
                     by |-> IF new.by # old.by THEN new.by ELSE status[c].by]
  <2>1. status' = [status EXCEPT ![c] = row] /\ UNCHANGED twice BY <1>2 DEF Store, ControlsTypeOK
  <2>2. status[c] \in Status BY DEF ControlsTypeOK
  <2>3. row \in Status
    <3>1. CASE status[c] = NoStatus
      <4>1. row = new BY <3>1 DEF NoStatus, StatusRow
      <4> QED BY <4>1 DEF Status
    <3>2. CASE status[c] \in StatusRow BY <3>2 DEF Status, StatusRow
    <3> QED BY <2>2, <3>1, <3>2 DEF Status
  <2>4. status[c] # NoStatus => row # NoStatus
    <3>1. ASSUME status[c] # NoStatus PROVE row.status # None
      <4>1. status[c] \in StatusRow BY <2>2, <3>1 DEF Status
      <4> QED BY <4>1, NoneIsNoStatus DEF StatusRow
    <3> QED BY <3>1 DEF NoStatus
  <2> QED BY <2>1, <2>3, <2>4 DEF ControlsTypeOK
<1> QED BY <1>1, <1>2

\* A row that is as it was read becomes what is written.
LEMMA StoreAlone ==
  ASSUME ControlsTypeOK, NEW c \in ControlIds, NEW new \in StatusRow, Store(c, status[c], new)
  PROVE  status' = [status EXCEPT ![c] = new] /\ UNCHANGED twice
<1>1. [status |-> IF new.status # status[c].status THEN new.status ELSE status[c].status,
       by |-> IF new.by # status[c].by THEN new.by ELSE status[c].by] = new
  BY DEF StatusRow
<1> QED BY <1>1 DEF Store, ControlsTypeOK
\* A status row that was read is still there, and items in hand have been used.
RowsStay ==
  \A h \in Handlers :
    review[h].op \in {"derive", "set"} /\ review[h].row # NoStatus => status[review[h].of] # NoStatus
ItemsUsed ==
  /\ \A e \in Items : e \notin used => evidence[e] = NoEvidence
  /\ \A h \in Handlers : review[h].op \in {"add", "drop"} => review[h].item \in used
RestsOn == ControlsTypeOK /\ RowsStay /\ ItemsUsed

LEMMA RestsInit == ControlsInit => RestsOn
<1> SUFFICES ASSUME ControlsInit PROVE RestsOn OBVIOUS
<1>1. ControlsTypeOK
  BY StartsFree, ControlsAssumption DEF ControlsInit, ControlsTypeOK, Status
<1> QED BY <1>1 DEF ControlsInit, RestsOn, RowsStay, ItemsUsed, Free

\* A handler goes on to what is no change and has read no row.
LEMMA RestsKept ==
  ASSUME RestsOn, ControlsTypeOK', NEW h \in Handlers, NEW r, Does(h, r),
         r.op \in {"derive", "set"} /\ r.row # NoStatus => status'[r.of] # NoStatus,
         r.op \in {"add", "drop"} => r.item \in used',
         used \subseteq used', \A c \in ControlIds : status[c] # NoStatus => status'[c] # NoStatus,
         \A e \in Items : e \notin used' => evidence'[e] = NoEvidence
  PROVE  RestsOn'
<1>0. ControlsTypeOK BY DEF RestsOn
<1>1. \A k \in Handlers : review'[k] = IF k = h THEN r ELSE review[k] BY <1>0, DoesType
<1>2. ASSUME NEW k \in Handlers, review'[k].op \in {"derive", "set"}, review'[k].row # NoStatus
      PROVE  status'[review'[k].of] # NoStatus
  <2>1. CASE k = h BY <1>1, <1>2, <2>1
  <2>2. CASE k # h
    <3>1. review[k].op \in {"derive", "set"} /\ review[k].row # NoStatus /\ review'[k] = review[k]
      BY <1>1, <1>2, <2>2
    <3>2. review[k].of \in ControlIds BY <1>0, <3>1, KindsOfReview DEF Free
    <3> QED BY <3>1, <3>2 DEF RestsOn, RowsStay
  <2> QED BY <2>1, <2>2
<1>3. ASSUME NEW k \in Handlers, review'[k].op \in {"add", "drop"} PROVE review'[k].item \in used'
  <2>1. CASE k = h BY <1>1, <1>3, <2>1
  <2>2. CASE k # h BY <1>1, <1>3, <2>2 DEF RestsOn, ItemsUsed
  <2> QED BY <2>1, <2>2
<1> QED BY <1>2, <1>3 DEF RestsOn, RowsStay, ItemsUsed

LEMMA RestsStep == RestsOn /\ [ControlsNext]_controlsVars => RestsOn'
<1> SUFFICES ASSUME RestsOn, [ControlsNext]_controlsVars PROVE RestsOn' OBVIOUS
<1>0. ControlsTypeOK /\ RowsStay /\ ItemsUsed BY DEF RestsOn
<1>1. ASSUME NEW c \in ControlIds, FindingsChange(c) PROVE RestsOn'
  BY <1>0, <1>1 DEF FindingsChange, RestsOn, ControlsTypeOK, RowsStay, ItemsUsed
<1>2. ASSUME NEW h \in Handlers, NEW e \in Items, NEW c \in ControlIds, UploadBegin(h, e, c) PROVE RestsOn'
  <2> DEFINE r == [op |-> "add", item |-> e, of |-> c]
  <2>1. Does(h, r) /\ r \in Reviews BY <1>2, StartsFree DEF UploadBegin, Opens
  <2>2. ControlsTypeOK'
    BY <1>0, <1>2, <2>1, DoesType, ControlsAssumption DEF UploadBegin, Opens, ControlsTypeOK
  <2>3. UNCHANGED <<evidence, status>> /\ used' = used \cup {e} BY <1>2 DEF UploadBegin
  <2> QED BY <1>0, <2>1, <2>2, <2>3, RestsKept DEF ItemsUsed
<1>3. ASSUME NEW h \in Handlers, NEW e \in Items, NEW c \in ControlIds, CreateAttestation(h, e, c)
      PROVE  RestsOn'
  <2> DEFINE r == [op |-> "recompute", of |-> c]
  <2>1. Does(h, r) /\ r \in Reviews BY <1>3, StartsFree DEF CreateAttestation, Opens
  <2>2. ControlsTypeOK'
    BY <1>0, <1>3, <2>1, DoesType, ControlsAssumption
    DEF CreateAttestation, Opens, ControlsTypeOK, EvidenceTypes
  <2>3. used' = used \cup {e} /\ UNCHANGED status /\ \A i \in Items : i # e => evidence'[i] = evidence[i]
    BY <1>0, <1>3 DEF CreateAttestation, ControlsTypeOK
  <2> QED BY <1>0, <2>1, <2>2, <2>3, RestsKept DEF ItemsUsed
<1>4. ASSUME NEW h \in Handlers, NEW e \in Items, NEW removed \in BOOLEAN, DeleteBegin(h, e, removed)
      PROVE  RestsOn'
  <2> DEFINE r == [op |-> "drop", item |-> e, of |-> evidence[e].control]
  <2>1. evidence[e].control \in ControlIds /\ e \in used
    BY <1>0, <1>4 DEF DeleteBegin, ControlsTypeOK, ItemsUsed
  <2>2. Does(h, r) /\ r \in Reviews BY <1>4, <2>1, StartsFree DEF DeleteBegin, Opens
  <2>3. ControlsTypeOK'
    BY <1>0, <1>4, <2>2, DoesType, ControlsAssumption DEF DeleteBegin, Opens, ControlsTypeOK
  <2>4. UNCHANGED <<evidence, status, used>> BY <1>4 DEF DeleteBegin
  <2> QED BY <1>0, <2>1, <2>2, <2>3, <2>4, RestsKept DEF ItemsUsed
<1>5. ASSUME NEW h \in Handlers, UploadCommit(h) PROVE RestsOn'
  <2> DEFINE r == [op |-> "recompute", of |-> review[h].of]
  <2>1. review[h].of \in ControlIds /\ review[h].item \in Items /\ review[h].item \in used
    BY <1>0, <1>5, KindsOfReview DEF UploadCommit, Changes, ItemsUsed
  <2>2. Does(h, r) /\ r \in Reviews BY <1>5, <2>1, StartsFree DEF UploadCommit
  <2>3. ControlsTypeOK'
    BY <1>0, <1>5, <2>1, <2>2, DoesType DEF UploadCommit, ControlsTypeOK, EvidenceTypes
  <2>4. UNCHANGED <<status, used>> /\ \A i \in Items : i # review[h].item => evidence'[i] = evidence[i]
    BY <1>0, <1>5 DEF UploadCommit, ControlsTypeOK
  <2> QED BY <1>0, <2>1, <2>2, <2>3, <2>4, RestsKept DEF ItemsUsed
<1>6. ASSUME NEW h \in Handlers, DeleteCommit(h) PROVE RestsOn'
  <2> DEFINE r == [op |-> "recompute", of |-> review[h].of]
  <2>1. review[h].of \in ControlIds /\ review[h].item \in Items /\ review[h].item \in used
    BY <1>0, <1>6, KindsOfReview DEF DeleteCommit, Changes, ItemsUsed
  <2>2. Does(h, r) /\ r \in Reviews BY <1>6, <2>1, StartsFree DEF DeleteCommit
  <2>3. ControlsTypeOK'
    BY <1>0, <1>6, <2>1, <2>2, DoesType DEF DeleteCommit, ControlsTypeOK
  <2>4. UNCHANGED <<status, used>> /\ \A i \in Items : i # review[h].item => evidence'[i] = evidence[i]
    BY <1>0, <1>6 DEF DeleteCommit, ControlsTypeOK
  <2> QED BY <1>0, <2>1, <2>2, <2>3, <2>4, RestsKept DEF ItemsUsed
<1>7. ASSUME NEW h \in Handlers, RecomputeRead(h) PROVE RestsOn'
  <2> DEFINE c == review[h].of
             r == [op |-> "derive", of |-> c, row |-> status[c], types |-> TypesOf(c),
                   new |-> Recomputed(status[c], TypesOf(c), c \in gaps)]
  <2>1. c \in ControlIds BY <1>0, <1>7, KindsOfReview DEF RecomputeRead, Waiting
  <2>2. UNCHANGED <<evidence, files, used, gaps, status, twice, reviews, breaks, derived, decision, halfGone, doubt>>
    BY <1>7 DEF RecomputeRead, Ambiguous
  <2>3. CASE Does(h, Free)
    <3>1. ControlsTypeOK' BY <1>0, <2>2, <2>3, StartsFree, DoesType DEF ControlsTypeOK
    <3> QED BY <1>0, <2>2, <2>3, <3>1, RestsKept DEF ItemsUsed, Free
  <2>4. CASE Does(h, r)
    <3>1. status[c] \in Status /\ TypesOf(c) \in SUBSET EvidenceTypes
      BY <1>0, <2>1, TypesAreTypes DEF ControlsTypeOK
    <3>2. r \in Reviews BY <2>1, <3>1, RecomputedType DEF Reviews, Derivations
    <3>3. ControlsTypeOK' BY <1>0, <2>2, <2>4, <3>2, DoesType DEF ControlsTypeOK
    <3> QED BY <1>0, <2>2, <2>4, <3>3, RestsKept DEF ItemsUsed
  <2> QED BY <1>7, <2>3, <2>4 DEF RecomputeRead, Ambiguous
<1>8. ASSUME NEW h \in Handlers, RecomputeCommit(h) PROVE RestsOn'
  <2> DEFINE r == review[h]
             c == r.of
  <2>1. r \in Derivations BY <1>0, <1>8, KindsOfReview DEF RecomputeCommit
  <2>2. c \in ControlIds /\ r.row \in Status /\ r.new \in StatusRow BY <2>1 DEF Derivations
  <2>3. r.row # NoStatus => status[c] # NoStatus BY <1>0, <2>1 DEF RowsStay, Derivations
  <2>a. Store(c, r.row, r.new) BY <1>8 DEF RecomputeCommit
  <2> HIDE DEF c, r
  <2>4. /\ status' \in [ControlIds -> Status] /\ twice' \subseteq twice \cup {c}
        /\ \A b \in ControlIds : status[b] # NoStatus => status'[b] # NoStatus
        /\ twice' # twice => status[c] # r.row
    BY <1>0, <2>2, <2>3, <2>a, StoreType
  <2> USE DEF c, r
  <2>5. Does(h, Free) BY <1>8 DEF RecomputeCommit
  <2>6. twice' \subseteq doubt' BY <1>0, <1>8, <2>2, <2>4 DEF RecomputeCommit, ControlsTypeOK
  <2>7. derived' \subseteq ControlIds /\ doubt' \subseteq ControlIds
        /\ decision' \in [ControlIds -> Decided \cup {None}]
    BY <1>0, <1>8, <2>2 DEF RecomputeCommit, ControlsTypeOK
  <2>8. UNCHANGED <<evidence, files, used, gaps, reviews, breaks, halfGone>> BY <1>8 DEF RecomputeCommit
  <2>9. ControlsTypeOK'
    BY <1>0, <2>4, <2>5, <2>6, <2>7, <2>8, StartsFree, DoesType DEF ControlsTypeOK
  <2> QED BY <1>0, <2>4, <2>5, <2>8, <2>9, RestsKept DEF ItemsUsed, Free
<1>9. ASSUME NEW h \in Handlers, NEW c \in ControlIds, NEW given \in GivenStatuses \cup {None},
             UpdateControlRead(h, c, given)
      PROVE  RestsOn'
  <2> DEFINE r == [op |-> "set", of |-> c, row |-> status[c], given |-> given,
                   new |-> GivenRow(status[c], given)]
  <2>1. status[c] \in Status /\ given \in ControlStatuses \cup {None}
    BY <1>0, ControlsAssumption DEF ControlsTypeOK
  <2>2. Does(h, r) BY <1>9 DEF UpdateControlRead, Opens, GivenRow
  <2>3. r \in Reviews BY <2>1, GivenType DEF Reviews, Decisions
  <2>4. ControlsTypeOK'
    BY <1>0, <1>9, <2>2, <2>3, DoesType, ControlsAssumption DEF UpdateControlRead, Opens, ControlsTypeOK
  <2>5. UNCHANGED <<evidence, status, used>> BY <1>9 DEF UpdateControlRead
  <2> QED BY <1>0, <2>2, <2>4, <2>5, RestsKept DEF ItemsUsed
<1>10. ASSUME NEW h \in Handlers, UpdateControlCommit(h) PROVE RestsOn'
  <2> DEFINE r == review[h]
             c == r.of
  <2>1. r \in Decisions BY <1>0, <1>10, KindsOfReview DEF UpdateControlCommit
  <2>2. c \in ControlIds /\ r.row \in Status /\ r.new \in StatusRow BY <2>1 DEF Decisions
  <2>3. r.row # NoStatus => status[c] # NoStatus BY <1>0, <2>1 DEF RowsStay, Decisions
  <2>a. Store(c, r.row, r.new) BY <1>10 DEF UpdateControlCommit
  <2> HIDE DEF c, r
  <2>4. /\ status' \in [ControlIds -> Status] /\ twice' \subseteq twice \cup {c}
        /\ \A b \in ControlIds : status[b] # NoStatus => status'[b] # NoStatus
        /\ twice' # twice => status[c] # r.row
    BY <1>0, <2>2, <2>3, <2>a, StoreType
  <2> USE DEF c, r
  <2>5. Does(h, Free) BY <1>10 DEF UpdateControlCommit
  <2>6. twice' \subseteq doubt' BY <1>0, <1>10, <2>2, <2>4 DEF UpdateControlCommit, ControlsTypeOK
  <2>7. derived' \subseteq ControlIds /\ doubt' \subseteq ControlIds
        /\ decision' \in [ControlIds -> Decided \cup {None}]
    BY <1>0, <1>10, <2>2 DEF UpdateControlCommit, ControlsTypeOK
  <2>8. UNCHANGED <<evidence, files, used, gaps, reviews, breaks, halfGone>> BY <1>10 DEF UpdateControlCommit
  <2>9. ControlsTypeOK'
    BY <1>0, <2>4, <2>5, <2>6, <2>7, <2>8, StartsFree, DoesType DEF ControlsTypeOK
  <2> QED BY <1>0, <2>4, <2>5, <2>8, <2>9, RestsKept DEF ItemsUsed, Free
<1>11. ASSUME NEW h \in Handlers, CommitFails(h) PROVE RestsOn'
  <2>1. Does(h, Free) /\ UNCHANGED <<evidence, status, used>> BY <1>11 DEF CommitFails
  <2>2. review[h].of \in ControlIds /\ (review[h].op = "drop" => review[h].item \in used)
    BY <1>0, <1>11, KindsOfReview DEF CommitFails, ItemsUsed
  <2>3. ControlsTypeOK'
    BY <1>0, <1>11, <2>1, <2>2, StartsFree, DoesType, ControlsAssumption DEF CommitFails, ControlsTypeOK
  <2> QED BY <1>0, <2>1, <2>3, RestsKept DEF ItemsUsed, Free
<1>12. CASE UNCHANGED controlsVars
  BY <1>0, <1>12 DEF controlsVars, RestsOn, ControlsTypeOK, RowsStay, ItemsUsed
<1> QED
  BY <1>1, <1>2, <1>3, <1>4, <1>5, <1>6, <1>7, <1>8, <1>9, <1>10, <1>11, <1>12 DEF ControlsNext
-------------------------------------------------------------------------------
(* Evidence: the files.                                                    *)

\* A document that is being uploaded has its file and is in hand of one handler.
AddsFresh ==
  \A h \in Handlers : review[h].op = "add" =>
    /\ review[h].item \in files /\ evidence[review[h].item] = NoEvidence
    /\ \A k \in Handlers : review[k].op \in {"add", "drop"} /\ review[k].item = review[h].item => k = h

FilesInv == RestsOn /\ AddsFresh /\ FilesThere

LEMMA FilesInit == ControlsInit => FilesInv
BY RestsInit, NoneIsNoStatus
  DEF ControlsInit, FilesInv, AddsFresh, FilesThere, Free, NoEvidence, EvidenceTypes

\* A handler goes on with what is neither an upload nor a deletion.
LEMMA FilesKept ==
  ASSUME FilesInv, NEW h \in Handlers, NEW r, Does(h, r), r.op \notin {"add", "drop"},
         review[h].op # "drop", UNCHANGED <<evidence, files, halfGone>>
  PROVE  AddsFresh' /\ FilesThere'
<1>1. \A k \in Handlers : review'[k] = IF k = h THEN r ELSE review[k]
  BY DoesType DEF FilesInv, RestsOn
<1>2. AddsFresh' BY <1>1 DEF FilesInv, AddsFresh
<1>3. FilesThere' BY <1>1 DEF FilesInv, FilesThere
<1> QED BY <1>2, <1>3

LEMMA FilesStep == FilesInv /\ [ControlsNext]_controlsVars => FilesInv'
<1> SUFFICES ASSUME FilesInv, [ControlsNext]_controlsVars PROVE AddsFresh' /\ FilesThere'
  BY RestsStep DEF FilesInv
<1>0. ControlsTypeOK /\ ItemsUsed /\ AddsFresh /\ FilesThere BY DEF FilesInv, RestsOn
<1>1. ASSUME NEW c \in ControlIds, FindingsChange(c) PROVE AddsFresh' /\ FilesThere'
  BY <1>0, <1>1 DEF FindingsChange, AddsFresh, FilesThere
<1>2. ASSUME NEW h \in Handlers, NEW e \in Items, NEW c \in ControlIds, UploadBegin(h, e, c)
      PROVE  AddsFresh' /\ FilesThere'
  <2> DEFINE r == [op |-> "add", item |-> e, of |-> c]
  <2>1. Does(h, r) /\ review[h] = Free /\ e \notin used /\ files' = files \cup {e}
        /\ UNCHANGED <<evidence, halfGone>>
    BY <1>2 DEF UploadBegin, Opens
  <2>2. \A k \in Handlers : review'[k] = IF k = h THEN r ELSE review[k] BY <1>0, <2>1, DoesType
  <2>3. \A k \in Handlers : review[k].op \in {"add", "drop"} => review[k].item # e BY <1>0, <2>1 DEF ItemsUsed
  <2>4. evidence[e] = NoEvidence BY <1>0, <2>1 DEF ItemsUsed
  <2>5. AddsFresh' BY <1>0, <2>1, <2>2, <2>3, <2>4 DEF AddsFresh
  <2>6. FilesThere' BY <1>0, <2>1, <2>2 DEF FilesThere, Free
  <2> QED BY <2>5, <2>6
<1>3. ASSUME NEW h \in Handlers, NEW e \in Items, NEW c \in ControlIds, CreateAttestation(h, e, c)
      PROVE  AddsFresh' /\ FilesThere'
  <2> DEFINE r == [op |-> "recompute", of |-> c]
  <2>1. /\ Does(h, r) /\ review[h] = Free /\ e \notin used
        /\ evidence' = [evidence EXCEPT ![e] = [control |-> c, type |-> "attestation"]]
        /\ UNCHANGED <<files, halfGone>>
    BY <1>3 DEF CreateAttestation, Opens
  <2>2. \A k \in Handlers : review'[k] = IF k = h THEN r ELSE review[k] BY <1>0, <2>1, DoesType
  <2>3. \A k \in Handlers : review[k].op \in {"add", "drop"} => review[k].item # e BY <1>0, <2>1 DEF ItemsUsed
  <2>4. evidence'[e].type = "attestation" /\ \A i \in Items : i # e => evidence'[i] = evidence[i]
    BY <1>0, <2>1 DEF ControlsTypeOK
  <2>5. ASSUME NEW k \in Handlers, review'[k].op = "add"
        PROVE  /\ review'[k].item \in files' /\ evidence'[review'[k].item] = NoEvidence
               /\ \A j \in Handlers :
                    review'[j].op \in {"add", "drop"} /\ review'[j].item = review'[k].item => j = k
    <3>1. k # h /\ review'[k] = review[k] /\ review[k].item \in Items
      BY <1>0, <2>2, <2>5, KindsOfReview DEF Changes
    <3> QED BY <1>0, <2>1, <2>2, <2>3, <2>4, <2>5, <3>1 DEF AddsFresh
  <2>6. AddsFresh' BY <2>5 DEF AddsFresh
  <2>7. FilesThere' BY <1>0, <2>1, <2>2, <2>4 DEF FilesThere, Free
  <2> QED BY <2>6, <2>7
<1>4. ASSUME NEW h \in Handlers, NEW e \in Items, NEW removed \in BOOLEAN, DeleteBegin(h, e, removed)
      PROVE  AddsFresh' /\ FilesThere'
  <2> DEFINE r == [op |-> "drop", item |-> e, of |-> evidence[e].control]
  <2>1. /\ Does(h, r) /\ review[h] = Free /\ evidence[e] # NoEvidence
        /\ files \ {e} \subseteq files' /\ UNCHANGED <<evidence, halfGone>>
    BY <1>4 DEF DeleteBegin, Opens
  <2>2. \A k \in Handlers : review'[k] = IF k = h THEN r ELSE review[k] BY <1>0, <2>1, DoesType
  <2>3. AddsFresh' BY <1>0, <2>1, <2>2 DEF AddsFresh
  <2>4. FilesThere' BY <1>0, <2>1, <2>2 DEF FilesThere, Free
  <2> QED BY <2>3, <2>4
<1>5. ASSUME NEW h \in Handlers, UploadCommit(h) PROVE AddsFresh' /\ FilesThere'
  <2> DEFINE i == review[h].item
             r == [op |-> "recompute", of |-> review[h].of]
  <2>1. /\ Does(h, r) /\ review[h].op = "add" /\ UNCHANGED <<files, halfGone>>
        /\ evidence' = [evidence EXCEPT ![i] = [control |-> review[h].of, type |-> "document"]]
    BY <1>5 DEF UploadCommit
  <2>2. \A k \in Handlers : review'[k] = IF k = h THEN r ELSE review[k] BY <1>0, <2>1, DoesType
  <2>3. /\ i \in Items /\ i \in files
        /\ \A k \in Handlers : review[k].op \in {"add", "drop"} /\ k # h => review[k].item # i
    BY <1>0, <2>1, KindsOfReview DEF AddsFresh, Changes
  <2>4. \A e \in Items : e # i => evidence'[e] = evidence[e] BY <1>0, <2>1 DEF ControlsTypeOK
  <2>5. ASSUME NEW k \in Handlers, review'[k].op = "add"
        PROVE  /\ review'[k].item \in files' /\ evidence'[review'[k].item] = NoEvidence
               /\ \A j \in Handlers :
                    review'[j].op \in {"add", "drop"} /\ review'[j].item = review'[k].item => j = k
    <3>1. k # h /\ review'[k] = review[k] /\ review[k].item \in Items
      BY <1>0, <2>2, <2>5, KindsOfReview DEF Changes
    <3> QED BY <1>0, <2>1, <2>2, <2>3, <2>4, <2>5, <3>1 DEF AddsFresh
  <2>6. AddsFresh' BY <2>5 DEF AddsFresh
  <2>7. FilesThere' BY <1>0, <2>1, <2>2, <2>3, <2>4 DEF FilesThere
  <2> QED BY <2>6, <2>7
<1>6. ASSUME NEW h \in Handlers, DeleteCommit(h) PROVE AddsFresh' /\ FilesThere'
  <2> DEFINE i == review[h].item
             r == [op |-> "recompute", of |-> review[h].of]
  <2>1. /\ Does(h, r) /\ review[h].op = "drop" /\ UNCHANGED <<files, halfGone>>
        /\ evidence' = [evidence EXCEPT ![i] = NoEvidence]
    BY <1>6 DEF DeleteCommit
  <2>2. \A k \in Handlers : review'[k] = IF k = h THEN r ELSE review[k] BY <1>0, <2>1, DoesType
  <2>3. i \in Items BY <1>0, <2>1, KindsOfReview DEF Changes
  <2>4. evidence'[i] = NoEvidence /\ \A e \in Items : e # i => evidence'[e] = evidence[e]
    BY <1>0, <2>1, <2>3 DEF ControlsTypeOK
  <2>5. ASSUME NEW k \in Handlers, review'[k].op = "add"
        PROVE  /\ review'[k].item \in files' /\ evidence'[review'[k].item] = NoEvidence
               /\ \A j \in Handlers :
                    review'[j].op \in {"add", "drop"} /\ review'[j].item = review'[k].item => j = k
    <3>1. k # h /\ review'[k] = review[k] /\ review[k].item \in Items
      BY <1>0, <2>2, <2>5, KindsOfReview DEF Changes
    <3> QED BY <1>0, <2>1, <2>2, <2>4, <2>5, <3>1 DEF AddsFresh
  <2>6. AddsFresh' BY <2>5 DEF AddsFresh
  <2>7. ASSUME NEW e \in Items, evidence'[e].type = "document", e \notin files'
        PROVE  e \in halfGone' \/ \E k \in Handlers : review'[k].op = "drop" /\ review'[k].item = e
    <3>1. e # i BY <2>4, <2>7, NoneIsNoStatus DEF NoEvidence, EvidenceTypes
    <3> QED BY <1>0, <2>1, <2>2, <2>4, <2>7, <3>1 DEF FilesThere
  <2> QED BY <2>6, <2>7 DEF FilesThere
<1>7. ASSUME NEW h \in Handlers, RecomputeRead(h) PROVE AddsFresh' /\ FilesThere'
  BY <1>7, FilesKept DEF RecomputeRead, Ambiguous, Free
<1>8. ASSUME NEW h \in Handlers, RecomputeCommit(h) PROVE AddsFresh' /\ FilesThere'
  BY <1>8, FilesKept DEF RecomputeCommit, Free
<1>9. ASSUME NEW h \in Handlers, NEW c \in ControlIds, NEW given, UpdateControlRead(h, c, given)
      PROVE  AddsFresh' /\ FilesThere'
  BY <1>9, FilesKept DEF UpdateControlRead, Opens, Free
<1>10. ASSUME NEW h \in Handlers, UpdateControlCommit(h) PROVE AddsFresh' /\ FilesThere'
  BY <1>10, FilesKept DEF UpdateControlCommit, Free
<1>11. ASSUME NEW h \in Handlers, CommitFails(h) PROVE AddsFresh' /\ FilesThere'
  <2>1. Does(h, Free) /\ UNCHANGED <<evidence, files>>
        /\ halfGone' = IF review[h].op = "drop" THEN halfGone \cup {review[h].item} ELSE halfGone
    BY <1>11 DEF CommitFails
  <2>2. \A k \in Handlers : review'[k] = IF k = h THEN Free ELSE review[k] BY <1>0, <2>1, DoesType
  <2>3. AddsFresh' BY <1>0, <2>1, <2>2 DEF AddsFresh, Free
  <2>4. FilesThere' BY <1>0, <2>1, <2>2 DEF FilesThere, Free
  <2> QED BY <2>3, <2>4
<1>12. CASE UNCHANGED controlsVars BY <1>0, <1>12 DEF controlsVars, AddsFresh, FilesThere
<1> QED
  BY <1>1, <1>2, <1>3, <1>4, <1>5, <1>6, <1>7, <1>8, <1>9, <1>10, <1>11, <1>12 DEF ControlsNext

\* A document's file is there, but for one whose deletion has begun or failed,
\* however many requests and pieces of evidence.
THEOREM DocumentsHaveFiles == ControlsSpec => []FilesThere
<1>1. FilesInv => FilesThere BY DEF FilesInv
<1> QED BY <1>1, FilesInit, FilesStep, PTL DEF ControlsSpec
-------------------------------------------------------------------------------
(* Evidence: the status agrees.                                            *)

\* A computed status is what the evidence gives, a decision is on record; but
\* for a control that is in doubt or still to be recomputed.
AgreesOn(c) ==
  /\ status[c].by = TypesOf(c)
  /\ status[c].status = "satisfied" => TypesOf(c) # {}
  /\ status[c].status = "not_started" => TypesOf(c) = {}
InOrder(c) ==
  /\ c \notin doubt /\ c \in derived /\ (\A h \in Handlers : Unfinished(h) => review[h].of # c) => AgreesOn(c)
  /\ decision[c] # None => status[c].status = decision[c]

\* A deletion is of evidence of its control; what will be written is what the
\* code computes from what was read.
DropsOwn ==
  \A h \in Handlers : review[h].op = "drop" =>
    evidence[review[h].item].control \in {review[h].of, None}
WritesFit ==
  \A h \in Handlers :
    /\ review[h].op = "derive" =>
         \E gap \in BOOLEAN : review[h].new = Recomputed(review[h].row, review[h].types, gap)
    /\ review[h].op = "set" => review[h].new = GivenRow(review[h].row, review[h].given)

StatusInv == FilesInv /\ DropsOwn /\ WritesFit /\ \A c \in ControlIds : InOrder(c)

LEMMA StatusInit == ControlsInit => StatusInv
<1> SUFFICES ASSUME ControlsInit PROVE StatusInv OBVIOUS
<1>1. DropsOwn /\ WritesFit BY DEF ControlsInit, DropsOwn, WritesFit, Free
<1>2. \A c \in ControlIds : InOrder(c) BY DEF ControlsInit, InOrder
<1> QED BY <1>1, <1>2, FilesInit DEF StatusInv

\* A handler goes on to what is no deletion, and will write what it should.
LEMMA WorkKept ==
  ASSUME StatusInv, NEW h \in Handlers, NEW r, Does(h, r),
         r.op = "drop" => evidence'[r.item].control \in {r.of, None},
         r.op = "derive" => \E gap \in BOOLEAN : r.new = Recomputed(r.row, r.types, gap),
         r.op = "set" => r.new = GivenRow(r.row, r.given),
         \A k \in Handlers : k # h /\ review[k].op = "drop" =>
           evidence'[review[k].item].control \in {evidence[review[k].item].control, None}
  PROVE  DropsOwn' /\ WritesFit'
<1>1. \A k \in Handlers : review'[k] = IF k = h THEN r ELSE review[k]
  BY DoesType DEF StatusInv, FilesInv, RestsOn
<1>2. DropsOwn' BY <1>1 DEF StatusInv, DropsOwn
<1>3. WritesFit' BY <1>1 DEF StatusInv, WritesFit
<1> QED BY <1>2, <1>3

\* A control that a step leaves alone.
LEMMA LeftAlone ==
  ASSUME StatusInv, NEW h \in Handlers, NEW r, Does(h, r), NEW c \in ControlIds,
         status'[c] = status[c], TypesOf(c)' = TypesOf(c), decision'[c] = decision[c],
         c \in derived' => c \in derived, c \in doubt => c \in doubt',
         review[h].op \in {"recompute", "derive"} =>
           review[h].of # c \/ c \in doubt' \/ (r.op \in {"recompute", "derive"} /\ r.of = c)
  PROVE  InOrder(c)'
<1>1. \A k \in Handlers : review'[k] = IF k = h THEN r ELSE review[k]
  BY DoesType DEF StatusInv, FilesInv, RestsOn
<1>2. InOrder(c) BY DEF StatusInv
<1>3. ASSUME c \notin doubt', c \in derived', \A k \in Handlers : Unfinished(k)' => review'[k].of # c
      PROVE  AgreesOn(c)'
  <2>1. ASSUME NEW k \in Handlers, Unfinished(k) PROVE review[k].of # c
    <3>1. CASE k = h BY <1>1, <1>3, <2>1, <3>1 DEF Unfinished
    <3>2. CASE k # h BY <1>1, <1>3, <2>1, <3>2 DEF Unfinished
    <3> QED BY <3>1, <3>2
  <2>2. AgreesOn(c) BY <1>2, <1>3, <2>1 DEF InOrder
  <2> QED BY <2>2 DEF AgreesOn
<1> QED BY <1>2, <1>3 DEF InOrder

\* A control that is to be recomputed: nothing is asked of it but its decision.
LEMMA ToRecompute ==
  ASSUME StatusInv, NEW h \in Handlers, NEW c \in ControlIds, Does(h, [op |-> "recompute", of |-> c]),
         UNCHANGED <<status, decision>>
  PROVE  InOrder(c)'
<1>1. Unfinished(h)' /\ review'[h].of = c BY DoesType DEF StatusInv, FilesInv, RestsOn, Unfinished
<1> QED BY <1>1 DEF StatusInv, InOrder

\* The evidence of other controls stays when one item's row changes.
LEMMA OthersEvidence ==
  ASSUME NEW c \in ControlIds, NEW i \in Items, \A e \in Items : e # i => evidence'[e] = evidence[e],
         evidence[i].control \in {c, None}, evidence'[i].control \in {c, None}
  PROVE  \A b \in ControlIds : b # c => TypesOf(b)' = TypesOf(b)
<1> SUFFICES ASSUME NEW b \in ControlIds, b # c PROVE TypesOf(b)' = TypesOf(b) OBVIOUS
<1>1. b # None BY NoneIsNoStatus
<1>2. \A e \in Items : (evidence'[e].control = b <=> evidence[e].control = b)
                       /\ (evidence[e].control = b => evidence'[e] = evidence[e])
  BY <1>1
<1> QED BY <1>2 DEF TypesOf

LEMMA StatusStep == StatusInv /\ [ControlsNext]_controlsVars => StatusInv'
<1> SUFFICES ASSUME StatusInv, [ControlsNext]_controlsVars
             PROVE  DropsOwn' /\ WritesFit' /\ \A c \in ControlIds : InOrder(c)'
  BY FilesStep DEF StatusInv
<1>0. ControlsTypeOK /\ RowsStay /\ ItemsUsed /\ AddsFresh /\ DropsOwn /\ WritesFit
  BY DEF StatusInv, FilesInv, RestsOn
<1>a. ASSUME UNCHANGED evidence PROVE \A c \in ControlIds : TypesOf(c)' = TypesOf(c)
  BY <1>a DEF TypesOf
<1>1. ASSUME NEW c \in ControlIds, FindingsChange(c)
      PROVE  DropsOwn' /\ WritesFit' /\ \A b \in ControlIds : InOrder(b)'
  BY <1>0, <1>1, <1>a
  DEF StatusInv, FindingsChange, DropsOwn, WritesFit, InOrder, AgreesOn, Unfinished
<1>2. ASSUME NEW h \in Handlers, NEW e \in Items, NEW c \in ControlIds, UploadBegin(h, e, c)
      PROVE  DropsOwn' /\ WritesFit' /\ \A b \in ControlIds : InOrder(b)'
  <2>1. /\ Does(h, [op |-> "add", item |-> e, of |-> c]) /\ review[h] = Free
        /\ UNCHANGED <<evidence, status, derived, decision, doubt>>
    BY <1>2 DEF UploadBegin, Opens
  <2>2. \A b \in ControlIds : InOrder(b)' BY <1>a, <2>1, LeftAlone DEF Free
  <2> QED BY <2>1, <2>2, WorkKept
<1>3. ASSUME NEW h \in Handlers, NEW e \in Items, NEW c \in ControlIds, CreateAttestation(h, e, c)
      PROVE  DropsOwn' /\ WritesFit' /\ \A b \in ControlIds : InOrder(b)'
  <2> DEFINE r == [op |-> "recompute", of |-> c]
  <2>1. /\ Does(h, r) /\ review[h] = Free /\ e \notin used
        /\ evidence' = [evidence EXCEPT ![e] = [control |-> c, type |-> "attestation"]]
        /\ UNCHANGED <<status, derived, decision, doubt>>
    BY <1>3 DEF CreateAttestation, Opens
  <2>2. /\ \A i \in Items : i # e => evidence'[i] = evidence[i]
        /\ evidence[e].control = None /\ evidence'[e].control = c
    BY <1>0, <2>1 DEF ControlsTypeOK, ItemsUsed, NoEvidence
  <2>3. \A b \in ControlIds : b # c => TypesOf(b)' = TypesOf(b) BY <2>2, OthersEvidence
  <2>4. InOrder(c)' BY <2>1, ToRecompute
  <2>5. \A b \in ControlIds : InOrder(b)' BY <2>1, <2>3, <2>4, LeftAlone DEF Free
  <2>6. \A k \in Handlers : review[k].op = "drop" => evidence'[review[k].item] = evidence[review[k].item]
    BY <1>0, <2>1, <2>2, KindsOfReview DEF ItemsUsed, Changes
  <2> QED BY <2>1, <2>5, <2>6, WorkKept
<1>4. ASSUME NEW h \in Handlers, NEW e \in Items, NEW removed \in BOOLEAN, DeleteBegin(h, e, removed)
      PROVE  DropsOwn' /\ WritesFit' /\ \A b \in ControlIds : InOrder(b)'
  <2>1. /\ Does(h, [op |-> "drop", item |-> e, of |-> evidence[e].control]) /\ review[h] = Free
        /\ UNCHANGED <<evidence, status, derived, decision, doubt>>
    BY <1>4 DEF DeleteBegin, Opens
  <2>2. \A b \in ControlIds : InOrder(b)' BY <1>a, <2>1, LeftAlone DEF Free
  <2> QED BY <2>1, <2>2, WorkKept
<1>5. ASSUME NEW h \in Handlers, UploadCommit(h)
      PROVE  DropsOwn' /\ WritesFit' /\ \A b \in ControlIds : InOrder(b)'
  <2>0. PICK i \in Items, c \in ControlIds : i = review[h].item /\ c = review[h].of
    BY <1>0, <1>5, KindsOfReview DEF UploadCommit, Changes
  <2>1. /\ Does(h, [op |-> "recompute", of |-> c]) /\ review[h].op = "add"
        /\ evidence' = [evidence EXCEPT ![i] = [control |-> c, type |-> "document"]]
        /\ UNCHANGED <<status, derived, decision, doubt>>
    BY <1>5, <2>0 DEF UploadCommit
  <2>3. /\ \A e \in Items : e # i => evidence'[e] = evidence[e]
        /\ evidence[i].control = None /\ evidence'[i].control = c
    BY <1>0, <2>1, <2>0 DEF ControlsTypeOK, AddsFresh, NoEvidence
  <2>4. \A b \in ControlIds : b # c => TypesOf(b)' = TypesOf(b) BY <2>0, <2>3, OthersEvidence
  <2>5. InOrder(c)' BY <2>1, <2>0, ToRecompute
  <2>6. \A b \in ControlIds : InOrder(b)' BY <2>1, <2>0, <2>4, <2>5, LeftAlone
  <2>7. \A k \in Handlers : k # h /\ review[k].op = "drop" =>
          evidence'[review[k].item] = evidence[review[k].item]
    BY <1>0, <2>0, <2>1, <2>3, KindsOfReview DEF AddsFresh, Changes
  <2> QED BY <2>1, <2>6, <2>7, WorkKept
<1>6. ASSUME NEW h \in Handlers, DeleteCommit(h)
      PROVE  DropsOwn' /\ WritesFit' /\ \A b \in ControlIds : InOrder(b)'
  <2>0. PICK i \in Items, c \in ControlIds : i = review[h].item /\ c = review[h].of
    BY <1>0, <1>6, KindsOfReview DEF DeleteCommit, Changes
  <2>1. /\ Does(h, [op |-> "recompute", of |-> c]) /\ review[h].op = "drop"
        /\ evidence' = [evidence EXCEPT ![i] = NoEvidence]
        /\ UNCHANGED <<status, derived, decision, doubt>>
    BY <1>6, <2>0 DEF DeleteCommit
  <2>3. /\ \A e \in Items : e # i => evidence'[e] = evidence[e]
        /\ evidence[i].control \in {c, None} /\ evidence'[i].control = None
    BY <1>0, <2>1, <2>0 DEF ControlsTypeOK, DropsOwn, NoEvidence
  <2>4. \A b \in ControlIds : b # c => TypesOf(b)' = TypesOf(b) BY <2>0, <2>3, OthersEvidence
  <2>5. InOrder(c)' BY <2>1, <2>0, ToRecompute
  <2>6. \A b \in ControlIds : InOrder(b)' BY <2>1, <2>0, <2>4, <2>5, LeftAlone
  <2>7. \A k \in Handlers : review[k].op = "drop" =>
          evidence'[review[k].item].control \in {evidence[review[k].item].control, None}
    BY <1>0, <2>3, KindsOfReview DEF Changes
  <2> QED BY <2>1, <2>6, <2>7, WorkKept
<1>7. ASSUME NEW h \in Handlers, RecomputeRead(h)
      PROVE  DropsOwn' /\ WritesFit' /\ \A b \in ControlIds : InOrder(b)'
  <2> DEFINE c == review[h].of
             r == [op |-> "derive", of |-> c, row |-> status[c], types |-> TypesOf(c),
                   new |-> Recomputed(status[c], TypesOf(c), c \in gaps)]
  <2>1. review[h].op = "recompute" /\ UNCHANGED <<evidence, status, derived, decision, doubt>>
        /\ c \in ControlIds
    BY <1>0, <1>7, KindsOfReview DEF RecomputeRead, Ambiguous, Waiting
  <2>2. CASE c \in twice /\ Does(h, Free)
    <3>1. c \in doubt BY <1>0, <2>2 DEF ControlsTypeOK
    <3>2. \A b \in ControlIds : InOrder(b)' BY <1>a, <2>1, <2>2, <3>1, LeftAlone
    <3> QED BY <2>1, <2>2, <3>2, WorkKept DEF Free
  <2>3. CASE Does(h, r)
    <3>1. \A b \in ControlIds : InOrder(b)' BY <1>a, <2>1, <2>3, LeftAlone
    <3>2. (c \in gaps) \in BOOLEAN OBVIOUS
    <3>3. \E gap \in BOOLEAN : r.new = Recomputed(r.row, r.types, gap) BY <3>2
    <3> QED BY <2>1, <2>3, <3>1, <3>3, WorkKept
  <2> QED BY <1>7, <2>2, <2>3 DEF RecomputeRead, Ambiguous
<1>8. ASSUME NEW h \in Handlers, RecomputeCommit(h)
      PROVE  DropsOwn' /\ WritesFit' /\ \A b \in ControlIds : InOrder(b)'
  <2> DEFINE r == review[h]
  <2>0. PICK c \in ControlIds : c = r.of
    BY <1>0, <1>8, KindsOfReview DEF RecomputeCommit, Derivations
  <2>1. r \in Derivations /\ Does(h, Free) /\ UNCHANGED evidence /\ Store(c, r.row, r.new)
    BY <1>0, <1>8, <2>0, KindsOfReview DEF RecomputeCommit
  <2>2. \A b \in ControlIds : TypesOf(b)' = TypesOf(b) BY <1>a, <2>1
  <2>3. ASSUME NEW b \in ControlIds, b # c PROVE InOrder(b)'
    <3>1. status'[b] = status[b] BY <1>0, <2>1, <2>3 DEF Store, ControlsTypeOK
    <3>2. decision'[b] = decision[b] BY <1>0, <1>8, <2>0, <2>3 DEF RecomputeCommit, ControlsTypeOK
    <3>3. (b \in derived' => b \in derived) /\ (b \in doubt => b \in doubt')
      BY <1>8, <2>0, <2>3 DEF RecomputeCommit
    <3> QED BY <2>0, <2>1, <2>2, <2>3, <3>1, <3>2, <3>3, LeftAlone
  <2>4. CASE ~(status[c] = r.row /\ TypesOf(c) = r.types /\ c \notin twice)
    <3>1. c \in doubt' /\ decision'[c] = None BY <1>0, <1>8, <2>0, <2>4 DEF RecomputeCommit, ControlsTypeOK
    <3>2. InOrder(c)' BY <3>1 DEF InOrder
    <3> QED BY <2>1, <2>3, <3>2, WorkKept DEF Free
  <2>5. CASE status[c] = r.row /\ TypesOf(c) = r.types /\ c \notin twice
    <3>1. status'[c] = r.new BY <1>0, <2>1, <2>5, StoreAlone DEF ControlsTypeOK, Derivations
    <3>2. PICK gap \in BOOLEAN : r.new = Recomputed(status[c], TypesOf(c), gap)
      BY <1>0, <2>1, <2>5 DEF WritesFit, Derivations
    <3>3. UNCHANGED decision /\ (c \in derived' => r.new.status \notin Decided)
      BY <1>8, <2>0, <2>5 DEF RecomputeCommit
    <3>4. c \in derived' => AgreesOn(c)'
      <4>1. ASSUME c \in derived' PROVE r.new = [status |-> Derived(TypesOf(c), gap), by |-> TypesOf(c)]
        BY <3>2, <3>3, <4>1 DEF Recomputed
      <4>2. ASSUME c \in derived' PROVE AgreesOn(c)'
        BY <2>2, <3>1, <4>1, <4>2 DEF AgreesOn, Derived
      <4> QED BY <4>2
    <3>5. decision[c] # None => status'[c].status = decision[c]
      <4>1. decision[c] # None => status[c].status = decision[c] /\ decision[c] \in Decided
        BY <1>0 DEF StatusInv, InOrder, ControlsTypeOK
      <4> QED BY <3>1, <3>2, <4>1 DEF Recomputed
    <3>6. InOrder(c)' BY <3>3, <3>4, <3>5 DEF InOrder
    <3> QED BY <2>1, <2>3, <3>6, WorkKept DEF Free
  <2> QED BY <2>4, <2>5
<1>9. ASSUME NEW h \in Handlers, NEW c \in ControlIds, NEW given, UpdateControlRead(h, c, given)
      PROVE  DropsOwn' /\ WritesFit' /\ \A b \in ControlIds : InOrder(b)'
  <2>1. /\ Does(h, [op |-> "set", of |-> c, row |-> status[c], given |-> given,
                    new |-> GivenRow(status[c], given)])
        /\ review[h] = Free /\ UNCHANGED <<evidence, status, derived, decision, doubt>>
    BY <1>9 DEF UpdateControlRead, Opens, GivenRow
  <2>2. \A b \in ControlIds : InOrder(b)' BY <1>a, <2>1, LeftAlone DEF Free
  <2> QED BY <2>1, <2>2, WorkKept
<1>10. ASSUME NEW h \in Handlers, UpdateControlCommit(h)
       PROVE  DropsOwn' /\ WritesFit' /\ \A b \in ControlIds : InOrder(b)'
  <2> DEFINE r == review[h]
  <2>0. PICK c \in ControlIds : c = r.of
    BY <1>0, <1>10, KindsOfReview DEF UpdateControlCommit, Decisions
  <2>1. r \in Decisions /\ Does(h, Free) /\ UNCHANGED evidence /\ Store(c, r.row, r.new)
    BY <1>0, <1>10, <2>0, KindsOfReview DEF UpdateControlCommit
  <2>2. \A b \in ControlIds : TypesOf(b)' = TypesOf(b) BY <1>a, <2>1
  <2>3. ASSUME NEW b \in ControlIds, b # c PROVE InOrder(b)'
    <3>1. status'[b] = status[b] BY <1>0, <2>1, <2>3 DEF Store, ControlsTypeOK
    <3>2. decision'[b] = decision[b] BY <1>0, <1>10, <2>0, <2>3 DEF UpdateControlCommit, ControlsTypeOK
    <3>3. (b \in derived' => b \in derived) /\ (b \in doubt => b \in doubt') /\ r.op = "set"
      BY <1>10, <2>0, <2>3 DEF UpdateControlCommit
    <3> QED BY <2>0, <2>1, <2>2, <2>3, <3>1, <3>2, <3>3, LeftAlone
  <2>4. CASE ~(status[c] = r.row /\ c \notin twice)
    <3>1. c \in doubt' /\ decision'[c] = None
      BY <1>0, <1>10, <2>0, <2>4 DEF UpdateControlCommit, ControlsTypeOK
    <3>2. InOrder(c)' BY <3>1 DEF InOrder
    <3> QED BY <2>1, <2>3, <3>2, WorkKept DEF Free
  <2>5. CASE status[c] = r.row /\ c \notin twice
    <3>1. status'[c] = r.new BY <1>0, <2>1, <2>5, StoreAlone DEF ControlsTypeOK, Decisions
    <3>2. r.new = GivenRow(status[c], r.given) BY <1>0, <2>1, <2>5 DEF WritesFit, Decisions
    <3>3. CASE r.given = None
      <4>1. UNCHANGED <<decision, derived, doubt>> BY <1>10, <2>0, <2>5, <3>3 DEF UpdateControlCommit
      <4>2. CASE status[c] # NoStatus
        <5>1. status'[c] = status[c] BY <3>1, <3>2, <3>3, <4>2 DEF GivenRow
        <5>2. InOrder(c)' BY <2>1, <2>2, <4>1, <5>1, LeftAlone DEF Decisions
        <5> QED BY <2>1, <2>3, <5>2, WorkKept DEF Free
      <4>3. CASE status[c] = NoStatus
        <5>1. decision[c] = None
          BY <1>0, <4>3 DEF StatusInv, InOrder, NoStatus
        <5>2. status'[c].by = {} /\ status[c].by = {} /\ status'[c].status = "not_started"
          BY <3>1, <3>2, <3>3, <4>3 DEF GivenRow, NoStatus
        <5>3. ASSUME c \notin doubt', c \in derived', \A k \in Handlers : Unfinished(k)' => review'[k].of # c
              PROVE  AgreesOn(c)'
          <6>1. \A k \in Handlers : review'[k] = IF k = h THEN Free ELSE review[k] BY <1>0, <2>1, DoesType
          <6>2. ASSUME NEW k \in Handlers, Unfinished(k) PROVE review[k].of # c
            <7>1. k # h BY <2>1, <6>2 DEF Unfinished, Decisions
            <7> QED BY <5>3, <6>1, <6>2, <7>1 DEF Unfinished
          <6>3. AgreesOn(c) BY <4>1, <5>3, <6>2 DEF StatusInv, InOrder
          <6> QED BY <2>2, <5>2, <6>3 DEF AgreesOn
        <5>4. InOrder(c)' BY <4>1, <5>1, <5>3 DEF InOrder
        <5> QED BY <2>1, <2>3, <5>4, WorkKept DEF Free
      <4> QED BY <4>2, <4>3
    <3>4. CASE r.given # None
      <4>1. c \notin derived' BY <1>10, <2>0, <3>4 DEF UpdateControlCommit
      <4>2. decision'[c] = IF r.given \in Decided THEN r.given ELSE None
        BY <1>0, <1>10, <2>0, <2>5, <3>4 DEF UpdateControlCommit, ControlsTypeOK
      <4>3. status'[c].status = r.given
        <5>1. status[c] \in Status BY <1>0 DEF ControlsTypeOK
        <5> QED BY <3>1, <3>2, <3>4, <5>1 DEF GivenRow, NoStatus, Status, StatusRow
      <4>4. InOrder(c)' BY <4>1, <4>2, <4>3 DEF InOrder
      <4> QED BY <2>1, <2>3, <4>4, WorkKept DEF Free
    <3> QED BY <3>3, <3>4
  <2> QED BY <2>4, <2>5
<1>11. ASSUME NEW h \in Handlers, CommitFails(h)
       PROVE  DropsOwn' /\ WritesFit' /\ \A b \in ControlIds : InOrder(b)'
  <2>1. /\ Does(h, Free) /\ UNCHANGED <<evidence, status, derived, decision>>
        /\ doubt' = IF Unfinished(h) THEN doubt \cup {review[h].of} ELSE doubt
    BY <1>11 DEF CommitFails
  <2>2. \A b \in ControlIds : InOrder(b)' BY <1>a, <2>1, LeftAlone DEF Unfinished
  <2> QED BY <2>1, <2>2, WorkKept DEF Free
<1>12. CASE UNCHANGED controlsVars
  BY <1>0, <1>12, <1>a
  DEF StatusInv, controlsVars, DropsOwn, WritesFit, InOrder, AgreesOn, Unfinished
<1> QED
  BY <1>1, <1>2, <1>3, <1>4, <1>5, <1>6, <1>7, <1>8, <1>9, <1>10, <1>11, <1>12 DEF ControlsNext

\* A control at rest has the status its evidence gives it, and a reviewer's
\* decision stands; but for one a request wrote over another's change, or was
\* stopped at.
THEOREM StatusIsRight == ControlsSpec => []StatusAgrees
<1>1. ASSUME StatusInv PROVE StatusAgrees
  <2> SUFFICES ASSUME NEW c \in ControlIds, Settled(c)
               PROVE  /\ c \in derived => AgreesOn(c)
                      /\ decision[c] # None => status[c].status = decision[c]
    BY DEF StatusAgrees, AgreesOn
  <2>1. \A h \in Handlers : Unfinished(h) => review[h].of # c BY DEF Settled, Unfinished, Free
  <2> QED BY <1>1, <2>1 DEF StatusInv, InOrder, Settled
<1> QED BY <1>1, StatusInit, StatusStep, PTL DEF ControlsSpec

-------------------------------------------------------------------------------
(* Live events.                                                            *)

\* A socket that is not connected has no tenant yet; a broadcast goes through,
\* and has seen, sockets of its tenant alone, and none it found dead is open.
BoundOnes == \A s \in Sockets : socket[s].is = "new" <=> socket[s].tenant = None
InItsSet == \A t \in Tenants, s \in Sockets : s \in byTenant[t] => socket[s].tenant = t
OfItsTenant ==
  \A h \in Handlers, s \in Sockets :
    broadcast[h].on /\ (s \in broadcast[h].own \/ s \in broadcast[h].seen)
      => socket[s].tenant = broadcast[h].of
FoundDead ==
  \A h \in Handlers, s \in Sockets :
    broadcast[h].on /\ s \in broadcast[h].dead => socket[s].is \in {"broken", "gone"}
Reached ==
  \A s \in Sockets :
    socket[s].is = "open" => s \in byTenant[socket[s].tenant] \/ socket[s].tenant \in rewound
SocketsInv == NotifierTypeOK /\ BoundOnes /\ InItsSet /\ OfItsTenant /\ FoundDead /\ Reached

LEMMA SocketsInit == NotifierInit => SocketsInv
BY NotifierAssumption
  DEF NotifierInit, SocketsInv, BoundOnes, InItsSet, OfItsTenant, FoundDead, Reached, NotifierTypeOK, Silent

LEMMA SizesAreNumbers ==
  ASSUME NEW S \in SUBSET Sockets PROVE Cardinality(S) \in Nat
BY NotifierAssumption, FS_Subset, FS_CardinalityType

\* A broadcast that goes on through a set of its own, and one that has sent.
Apart(b, S) == [b EXCEPT !.shared = FALSE, !.own = S]
NotedAt(b, s, d) == [b EXCEPT !.seen = @ \cup {s}, !.dead = d]

LEMMA OvertakenAt ==
  ASSUME NEW b \in Broadcasts, NEW S \in SUBSET Sockets
  PROVE  /\ b.on /\ Apart(b, S) \in Broadcasts /\ Apart(b, S).on /\ Apart(b, S).of = b.of
         /\ Apart(b, S).own = S /\ Apart(b, S).seen = b.seen /\ Apart(b, S).dead = b.dead
BY DEF Broadcasts, Apart

LEMMA SentOn ==
  ASSUME NEW b \in Broadcasts, NEW s \in Sockets, NEW d \in SUBSET Sockets
  PROVE  /\ NotedAt(b, s, d) \in Broadcasts /\ NotedAt(b, s, d).on
         /\ NotedAt(b, s, d).of = b.of /\ NotedAt(b, s, d).own = b.own
         /\ NotedAt(b, s, d).seen = b.seen \cup {s} /\ NotedAt(b, s, d).dead = d
<1>1. PICK e \in SUBSET Sockets : e = b.seen \cup {s} BY DEF Broadcasts
<1>2. PICK r : r = [b EXCEPT !.seen = e, !.dead = d] OBVIOUS
<1>3. r = NotedAt(b, s, d) BY <1>1, <1>2 DEF NotedAt
<1>4. r \in Broadcasts /\ r.on /\ r.of = b.of /\ r.own = b.own /\ r.seen = e /\ r.dead = d
  BY <1>2 DEF Broadcasts
<1> QED BY <1>1, <1>3, <1>4

LEMMA ConnsOfTenant ==
  ASSUME SocketsInv, NEW h \in Handlers, broadcast[h].on
  PROVE  /\ Conns(broadcast[h]) \in SUBSET Sockets /\ broadcast[h] \in Broadcasts
         /\ \A s \in Conns(broadcast[h]) : socket[s].tenant = broadcast[h].of
<1>1. broadcast[h] \in Broadcasts BY DEF SocketsInv, NotifierTypeOK, Silent
<1> QED BY <1>1 DEF Conns, SocketsInv, InItsSet, OfItsTenant, NotifierTypeOK, Broadcasts

LEMMA SocketsStep == SocketsInv /\ [NotifierNext]_notifierVars => SocketsInv'
<1> SUFFICES ASSUME SocketsInv, [NotifierNext]_notifierVars PROVE SocketsInv' OBVIOUS
<1>0. None \notin Tenants BY AccessAssumption
<1>b. \A r \in Sockets : socket[r].is # "new" => socket[r].tenant \in Tenants
  BY DEF SocketsInv, BoundOnes, NotifierTypeOK
<1>1. ASSUME NEW s \in Sockets, NEW t \in Tenants, Connect(s, t) PROVE SocketsInv'
  <2>1. socket[s].tenant = None BY <1>1 DEF Connect, SocketsInv, BoundOnes
  <2>2. \A r \in Sockets : /\ socket'[r].is = IF r = s THEN "open" ELSE socket[r].is
                           /\ socket'[r].tenant = IF r = s THEN t ELSE socket[r].tenant
    BY <1>1 DEF Connect, SocketsInv, NotifierTypeOK
  <2>3. \A u \in Tenants : byTenant'[u] = IF u = t THEN byTenant[u] \cup {s} ELSE byTenant[u]
    BY <1>1 DEF Connect, SocketsInv, NotifierTypeOK
  <2>4. NotifierTypeOK' BY <1>1 DEF Connect, SocketsInv, NotifierTypeOK
  <2>5. \A h \in Handlers : broadcast[h].on =>
          /\ broadcast[h].of \in Tenants
          /\ s \notin broadcast[h].own \cup broadcast[h].seen \cup broadcast[h].dead
    BY <1>0, <1>1, <2>1, ConnsOfTenant DEF SocketsInv, OfItsTenant, FoundDead, Broadcasts, Connect
  <2>6. UNCHANGED <<broadcast, rewound>> BY <1>1 DEF Connect
  <2>7. \A r \in Sockets : socket'[r].is = "new" <=> socket'[r].tenant = None
    BY <1>0, <2>2 DEF SocketsInv, BoundOnes
  <2>8. ASSUME NEW u \in Tenants, NEW r \in Sockets, r \in byTenant'[u] PROVE socket'[r].tenant = u
    <3>1. r \in byTenant[u] => r # s BY <1>0, <2>1 DEF SocketsInv, InItsSet
    <3>2. CASE r \in byTenant[u] BY <2>2, <3>1, <3>2 DEF SocketsInv, InItsSet
    <3>3. CASE u = t /\ r = s BY <2>2, <3>3
    <3> QED BY <2>3, <2>8, <3>2, <3>3
  <2>9. ASSUME NEW h \in Handlers, NEW r \in Sockets, broadcast[h].on
        PROVE  /\ r \in broadcast[h].own \cup broadcast[h].seen => socket'[r].tenant = broadcast[h].of
               /\ r \in broadcast[h].dead => socket'[r].is \in {"broken", "gone"}
    BY <2>2, <2>5, <2>9 DEF SocketsInv, OfItsTenant, FoundDead
  <2>10. \A r \in Sockets :
           socket'[r].is = "open" => r \in byTenant'[socket'[r].tenant] \/ socket'[r].tenant \in rewound
    BY <1>b, <2>2, <2>3 DEF SocketsInv, BoundOnes, Reached
  <2> QED BY <2>4, <2>6, <2>7, <2>8, <2>9, <2>10
    DEF SocketsInv, BoundOnes, InItsSet, OfItsTenant, FoundDead, Reached
\* A socket that is no longer open, or a set without one that is not.
<1>a. ASSUME NEW s \in Sockets, NEW is \in {"broken", "gone"}, socket[s].is \in {"open", "broken"},
             socket' = [socket EXCEPT ![s].is = is]
      PROVE  \A r \in Sockets :
               /\ socket'[r].tenant = socket[r].tenant
               /\ socket'[r].is = IF r = s THEN is ELSE socket[r].is
  BY <1>a DEF SocketsInv, NotifierTypeOK
<1>2. ASSUME NEW s \in Sockets, Breaks(s) PROVE SocketsInv'
  <2>1. NotifierTypeOK' BY <1>2 DEF Breaks, SocketsInv, NotifierTypeOK
  <2>2. \A r \in Sockets : /\ socket'[r].tenant = socket[r].tenant
                           /\ socket'[r].is = IF r = s THEN "broken" ELSE socket[r].is
    BY <1>2, <1>a DEF Breaks
  <2>3. socket[s].is = "open" /\ UNCHANGED <<byTenant, broadcast, rewound>> BY <1>2 DEF Breaks
  <2> QED BY <2>1, <2>2, <2>3 DEF SocketsInv, BoundOnes, InItsSet, OfItsTenant, FoundDead, Reached
<1>3. ASSUME NEW s \in Sockets, HandlerFails(s) PROVE SocketsInv'
  <2>1. NotifierTypeOK' BY <1>3 DEF HandlerFails, SocketsInv, NotifierTypeOK
  <2>2. \A r \in Sockets : /\ socket'[r].tenant = socket[r].tenant
                           /\ socket'[r].is = IF r = s THEN "gone" ELSE socket[r].is
    BY <1>3, <1>a DEF HandlerFails
  <2>3. socket[s].is \in {"open", "broken"} /\ UNCHANGED <<byTenant, broadcast, rewound>>
    BY <1>3 DEF HandlerFails
  <2> QED BY <2>1, <2>2, <2>3 DEF SocketsInv, BoundOnes, InItsSet, OfItsTenant, FoundDead, Reached
<1>4. ASSUME NEW s \in Sockets, Disconnect(s) PROVE SocketsInv'
  <2> DEFINE t == socket[s].tenant
  <2>1. \A r \in Sockets : /\ socket'[r].tenant = socket[r].tenant
                           /\ socket'[r].is = IF r = s THEN "gone" ELSE socket[r].is
    BY <1>4, <1>a DEF Disconnect
  <2>2. socket[s].is = "broken" /\ socket[s].tenant \in Tenants /\ UNCHANGED rewound
    BY <1>4 DEF Disconnect, SocketsInv, BoundOnes, NotifierTypeOK
  <2>3. \A u \in Tenants : byTenant'[u] \subseteq byTenant[u] /\ byTenant[u] \ {s} \subseteq byTenant'[u]
    BY <1>4 DEF Disconnect, Leave, SocketsInv, NotifierTypeOK
  <2>4. ASSUME NEW h \in Handlers
        PROVE  /\ broadcast'[h] = broadcast[h]
                  \/ (broadcast[h] \in Broadcasts
                      /\ broadcast'[h] = Apart(broadcast[h], {}))
               /\ broadcast'[h] \in {Silent} \cup Broadcasts
    <3>1. broadcast[h].on => broadcast[h] \in Broadcasts BY ConnsOfTenant
    <3>2. broadcast'[h] = broadcast[h]
          \/ (broadcast[h].on /\ broadcast'[h] = Apart(broadcast[h], {}))
      BY <1>4 DEF Disconnect, Leave, Apart
    <3>3. broadcast[h] \in {Silent} \cup Broadcasts BY DEF SocketsInv, NotifierTypeOK
    <3> QED BY <3>1, <3>2, <3>3, OvertakenAt
  <2>5. \A h \in Handlers : broadcast'[h].on =>
          /\ broadcast[h].on /\ broadcast'[h].of = broadcast[h].of
          /\ broadcast'[h].seen = broadcast[h].seen /\ broadcast'[h].dead = broadcast[h].dead
          /\ broadcast'[h].own \subseteq broadcast[h].own
    <3>1. ASSUME NEW h \in Handlers, broadcast[h] \in Broadcasts,
                 broadcast'[h] = Apart(broadcast[h], {})
          PROVE  /\ broadcast[h].on /\ broadcast'[h].of = broadcast[h].of /\ broadcast'[h].own = {}
                 /\ broadcast'[h].seen = broadcast[h].seen /\ broadcast'[h].dead = broadcast[h].dead
      <4>1. {} \in SUBSET Sockets OBVIOUS
      <4> QED BY <3>1, <4>1, OvertakenAt
    <3> QED BY <2>4, <3>1
  <2>6. NotifierTypeOK'
    <3>1. socket' \in [Sockets -> [is : {"new", "open", "broken", "gone"}, tenant : Tenants \cup {None}]]
          /\ scans' \in 0..MaxScans /\ rewound' \subseteq Tenants
      BY <1>4 DEF Disconnect, SocketsInv, NotifierTypeOK
    <3>2. byTenant' \in [Tenants -> SUBSET Sockets]
      BY <1>4 DEF Disconnect, Leave, SocketsInv, NotifierTypeOK
    <3>3. broadcast' \in [Handlers -> {Silent} \cup Broadcasts]
      <4> DEFINE f(h) == IF broadcast[h].on /\ broadcast[h].of = t /\ broadcast[h].shared /\ byTenant[t] = {s}
                         THEN [broadcast[h] EXCEPT !.shared = FALSE, !.own = {}] ELSE broadcast[h]
      <4>1. broadcast' = [h \in Handlers |-> f(h)] BY <1>4 DEF Disconnect, Leave
      <4>2. \A h \in Handlers : f(h) \in {Silent} \cup Broadcasts BY <2>4, <4>1
      <4> HIDE DEF f
      <4> QED BY <4>1, <4>2
    <3> QED BY <3>1, <3>2, <3>3 DEF NotifierTypeOK
  <2>7. BoundOnes' BY <2>1, <2>2 DEF SocketsInv, BoundOnes
  <2>8. InItsSet' BY <2>1, <2>3 DEF SocketsInv, InItsSet
  <2>9. OfItsTenant' BY <2>1, <2>5 DEF SocketsInv, OfItsTenant
  <2>10. FoundDead' BY <2>1, <2>5 DEF SocketsInv, FoundDead
  <2>11. Reached'
    <3> SUFFICES ASSUME NEW r \in Sockets, socket'[r].is = "open"
                 PROVE  r \in byTenant'[socket'[r].tenant] \/ socket'[r].tenant \in rewound'
      BY DEF Reached
    <3>1. r # s /\ socket[r].is = "open" /\ socket'[r].tenant = socket[r].tenant BY <2>1
    <3>2. socket[r].tenant \in Tenants BY <1>b, <3>1
    <3> QED BY <2>2, <2>3, <3>1, <3>2 DEF SocketsInv, Reached
  <2> QED BY <2>6, <2>7, <2>8, <2>9, <2>10, <2>11 DEF SocketsInv
<1>5. ASSUME NEW s \in Sockets, NEW h \in Handlers, NEW fails \in BOOLEAN, BroadcastSend(h, s, fails)
      PROVE  SocketsInv'
  <2> DEFINE b == broadcast[h]
  <2>1. /\ b.on /\ s \in Conns(b) /\ (fails => socket[s].is # "open")
        /\ UNCHANGED <<socket, byTenant, scans, rewound>>
        /\ broadcast' = [broadcast EXCEPT ![h].seen = @ \cup {s},
                                          ![h].dead = IF fails THEN @ \cup {s} ELSE @]
    BY <1>5 DEF BroadcastSend
  <2>2. b \in Broadcasts /\ socket[s].tenant = b.of BY <2>1, ConnsOfTenant
  <2>a. PICK d \in SUBSET Sockets : d = IF fails THEN b.dead \cup {s} ELSE b.dead BY <2>2 DEF Broadcasts
  <2>3. broadcast'[h] = NotedAt(b, s, d) /\ \A k \in Handlers : k # h => broadcast'[k] = broadcast[k]
    BY <2>1, <2>a DEF SocketsInv, NotifierTypeOK, NotedAt
  <2>4. broadcast'[h] \in Broadcasts BY <2>2, <2>3, SentOn
  <2>5. NotifierTypeOK' BY <2>1, <2>4 DEF SocketsInv, NotifierTypeOK
  <2>6. /\ broadcast'[h].own = b.own /\ broadcast'[h].of = b.of /\ broadcast'[h].seen = b.seen \cup {s}
        /\ broadcast'[h].dead = IF fails THEN b.dead \cup {s} ELSE b.dead
    BY <2>2, <2>a, <2>3, SentOn
  <2>7. socket[s].is # "new" BY <1>0, <2>2 DEF SocketsInv, BoundOnes, Broadcasts
  <2>8. fails => socket[s].is \in {"broken", "gone"} BY <2>1, <2>7 DEF SocketsInv, NotifierTypeOK
  <2>9. ASSUME NEW k \in Handlers, NEW r \in Sockets, broadcast'[k].on
        PROVE  /\ r \in broadcast'[k].own \cup broadcast'[k].seen => socket[r].tenant = broadcast'[k].of
               /\ r \in broadcast'[k].dead => socket[r].is \in {"broken", "gone"}
    <3>1. CASE k = h
      <4>1. r \in b.own \/ r \in b.seen => socket[r].tenant = b.of BY <2>1 DEF SocketsInv, OfItsTenant
      <4>2. r \in b.dead => socket[r].is \in {"broken", "gone"} BY <2>1 DEF SocketsInv, FoundDead
      <4> QED BY <2>2, <2>6, <2>8, <3>1, <4>1, <4>2
    <3>2. CASE k # h BY <2>3, <2>9, <3>2 DEF SocketsInv, OfItsTenant, FoundDead
    <3> QED BY <3>1, <3>2
  <2> QED BY <2>1, <2>5, <2>9 DEF SocketsInv, BoundOnes, InItsSet, OfItsTenant, FoundDead, Reached
<1>6. ASSUME NEW h \in Handlers, NEW t \in Tenants, BroadcastBegin(h, t) PROVE SocketsInv'
  <2> DEFINE b == [on |-> TRUE, of |-> t, shared |-> TRUE, own |-> {}, size |-> Cardinality(byTenant[t]),
                   first |-> byTenant[t], seen |-> {}, dead |-> {}]
  <2>1. byTenant[t] \in SUBSET Sockets BY DEF SocketsInv, NotifierTypeOK
  <2>2. b \in Broadcasts BY <2>1, SizesAreNumbers DEF Broadcasts
  <2>3. /\ UNCHANGED <<socket, byTenant, rewound>>
        /\ \A k \in Handlers : broadcast'[k] = IF k = h THEN b ELSE broadcast[k]
    BY <1>6 DEF BroadcastBegin, SocketsInv, NotifierTypeOK
  <2>4. NotifierTypeOK' BY <1>6, <2>2, NotifierAssumption DEF BroadcastBegin, SocketsInv, NotifierTypeOK
  <2> QED BY <2>3, <2>4 DEF SocketsInv, BoundOnes, InItsSet, OfItsTenant, FoundDead, Reached
<1>7. ASSUME NEW h \in Handlers, BroadcastRaises(h) PROVE SocketsInv'
  <2>1. UNCHANGED <<socket, byTenant, rewound>>
        /\ \A k \in Handlers : broadcast'[k] = IF k = h THEN Silent ELSE broadcast[k]
    BY <1>7 DEF BroadcastRaises, SocketsInv, NotifierTypeOK
  <2>2. NotifierTypeOK' BY <1>7 DEF BroadcastRaises, SocketsInv, NotifierTypeOK
  <2> QED BY <2>1, <2>2 DEF SocketsInv, BoundOnes, InItsSet, OfItsTenant, FoundDead, Reached, Silent
<1>8. ASSUME NEW h \in Handlers, BroadcastEnd(h) PROVE SocketsInv'
  <2>0. PICK t \in Tenants : t = broadcast[h].of
    BY <1>8, ConnsOfTenant DEF BroadcastEnd, Broadcasts
  <2> DEFINE b == broadcast[h]
             rest == Conns(b) \ b.dead
  <2>1. b.on /\ b \in Broadcasts /\ Conns(b) \in SUBSET Sockets /\ \A s \in Conns(b) : socket[s].tenant = t
    BY <1>8, <2>0, ConnsOfTenant DEF BroadcastEnd
  <2>2. /\ byTenant' = [byTenant EXCEPT ![t] = rest] /\ UNCHANGED <<socket, scans>>
        /\ rewound' = IF b.shared THEN rewound ELSE rewound \cup {t}
    BY <1>8, <2>0 DEF BroadcastEnd, Remaining
  <2>3. byTenant' \in [Tenants -> SUBSET Sockets] /\ byTenant'[t] = rest
        /\ \A u \in Tenants : u # t => byTenant'[u] = byTenant[u]
    BY <2>1, <2>2 DEF SocketsInv, NotifierTypeOK
  <2>4. ASSUME NEW k \in Handlers
        PROVE  \/ broadcast'[k] = Silent
               \/ broadcast'[k] = broadcast[k]
               \/ /\ broadcast[k] \in Broadcasts /\ broadcast[k].of = t
                  /\ broadcast'[k] = Apart(broadcast[k], byTenant[t])
    <3>1. broadcast[k].on => broadcast[k] \in Broadcasts BY ConnsOfTenant
    <3>2. broadcast' = [j \in Handlers |->
            IF j = h THEN Silent
            ELSE IF broadcast[j].on /\ broadcast[j].of = t /\ broadcast[j].shared
            THEN [broadcast[j] EXCEPT !.shared = FALSE, !.own = byTenant[t]] ELSE broadcast[j]]
      BY <1>8, <2>0 DEF BroadcastEnd
    <3> QED BY <3>1, <3>2 DEF Apart
  <2>5. byTenant[t] \in SUBSET Sockets BY DEF SocketsInv, NotifierTypeOK
  <2>6. \A k \in Handlers : broadcast'[k] \in {Silent} \cup Broadcasts
    <3>1. ASSUME NEW k \in Handlers PROVE broadcast[k] \in {Silent} \cup Broadcasts
      BY DEF SocketsInv, NotifierTypeOK
    <3>2. ASSUME NEW k \in Handlers, broadcast[k] \in Broadcasts,
                 broadcast'[k] = Apart(broadcast[k], byTenant[t])
          PROVE  broadcast'[k] \in Broadcasts
      BY <2>5, <3>2, OvertakenAt
    <3> QED BY <2>4, <3>1, <3>2
  <2>7. broadcast' \in [Handlers -> {Silent} \cup Broadcasts] BY <1>8, <2>6 DEF BroadcastEnd
  <2>8. NotifierTypeOK' BY <2>2, <2>3, <2>7 DEF SocketsInv, NotifierTypeOK
  <2>9. ASSUME NEW k \in Handlers, NEW r \in Sockets, broadcast'[k].on
        PROVE  /\ r \in broadcast'[k].own \cup broadcast'[k].seen => socket[r].tenant = broadcast'[k].of
               /\ r \in broadcast'[k].dead => socket[r].is \in {"broken", "gone"}
    <3>1. CASE broadcast'[k] = broadcast[k] BY <2>9, <3>1 DEF SocketsInv, OfItsTenant, FoundDead
    <3>2. CASE /\ broadcast[k] \in Broadcasts /\ broadcast[k].of = t
               /\ broadcast'[k] = Apart(broadcast[k], byTenant[t])
      <4>1. /\ broadcast[k].on /\ broadcast'[k].own = byTenant[t] /\ broadcast'[k].of = t
            /\ broadcast'[k].seen = broadcast[k].seen /\ broadcast'[k].dead = broadcast[k].dead
        BY <2>5, <3>2, OvertakenAt
      <4> QED BY <3>2, <4>1 DEF SocketsInv, InItsSet, OfItsTenant, FoundDead
    <3>3. CASE broadcast'[k] = Silent BY <2>9, <3>3 DEF Silent
    <3> QED BY <2>4, <3>1, <3>2, <3>3
  <2>10. ASSUME NEW s \in Sockets, socket[s].is = "open"
         PROVE  s \in byTenant'[socket[s].tenant] \/ socket[s].tenant \in rewound'
    <3>1. CASE socket[s].tenant # t
      <4>1. socket[s].tenant \in Tenants BY <2>10 DEF SocketsInv, BoundOnes, NotifierTypeOK
      <4> QED BY <2>2, <2>3, <2>10, <3>1, <4>1 DEF SocketsInv, Reached
    <3>2. CASE socket[s].tenant = t /\ b.shared
      <4>1. s \notin b.dead BY <2>1, <2>10 DEF SocketsInv, FoundDead
      <4>2. Conns(b) = byTenant[t] BY <2>0, <3>2 DEF Conns
      <4> QED BY <2>2, <2>3, <2>10, <3>2, <4>1, <4>2 DEF SocketsInv, Reached
    <3>3. CASE socket[s].tenant = t /\ ~b.shared BY <2>2, <3>3
    <3> QED BY <3>1, <3>2, <3>3
  <2> QED BY <2>1, <2>2, <2>3, <2>8, <2>9, <2>10
    DEF SocketsInv, BoundOnes, InItsSet, OfItsTenant, FoundDead, Reached
<1>9. CASE UNCHANGED notifierVars BY <1>9
  DEF notifierVars, SocketsInv, BoundOnes, InItsSet, OfItsTenant, FoundDead, Reached, NotifierTypeOK
<1> QED BY <1>1, <1>2, <1>3, <1>4, <1>5, <1>6, <1>7, <1>8, <1>9 DEF NotifierNext

\* An open socket gets its tenant's events and no other's, however many sockets
\* and broadcasts, unless a broadcast that was overtaken put an older set back.
THEOREM SocketsAreServed == NotifierSpec => []SocketsServed
<1>1. ASSUME SocketsInv PROVE SocketsServed
  <2>1. ASSUME NEW h \in Handlers, broadcast[h].on, NEW s \in broadcast[h].seen
        PROVE  socket[s].tenant = broadcast[h].of
    <3>1. s \in Sockets BY <1>1, <2>1, ConnsOfTenant DEF Broadcasts
    <3> QED BY <1>1, <2>1, <3>1 DEF SocketsInv, OfItsTenant
  <2> QED BY <1>1, <2>1 DEF SocketsServed, SocketsInv, InItsSet, Reached
<1> QED BY <1>1, SocketsInit, SocketsStep, PTL DEF NotifierSpec

-------------------------------------------------------------------------------
(* Enrollments.                                                            *)

\* An agent that scans has its token on disk, and one that enrolls has none;
\* until a reset, the registry has, besides the rows a host lost, its current
\* one: that of its file, or the one its agent is about to write.
Carried(a) == IF at[a] = "save" \/ stored[a] # None THEN 1 ELSE 0
TokenPlaces ==
  \A a \in Hosts :
    /\ at[a] \in {"enroll", "reenroll", "save", "ended"} => stored[a] = None
    /\ at[a] \in {"scan", "sleep"} => stored[a] # None /\ token[a] = stored[a]
    /\ at[a] = "save" => token[a] # None
RowsFinite == \A a \in Hosts : IsFiniteSet(RowsOf(a))
RowsCounted ==
  ~resets => \A a \in Hosts :
    /\ Cardinality(RowsOf(a)) <= excess[a] + Carried(a)
    /\ stored[a] # None => <<stored[a], a>> \in known
    /\ at[a] = "save" => <<token[a], a>> \in known
EnrollInv == AgentsTypeOK /\ TokenPlaces /\ RowsFinite /\ RowsCounted

LEMMA EnrollInit == AgentsInit => EnrollInv
<1> SUFFICES ASSUME AgentsInit PROVE EnrollInv OBVIOUS
<1>1. AgentsTypeOK
  <2>1. Scans \in Nat /\ MaxTokens \in Nat /\ MaxMishaps \in Nat BY AgentsAssumption
  <2>2. 0 \in 0..Scans /\ 0 \in 0..MaxTokens /\ 0 \in 0..MaxMishaps BY <2>1
  <2> QED BY <2>2 DEF AgentsInit, AgentsTypeOK, Places
<1>2. \A a \in Hosts : RowsOf(a) = {} BY DEF AgentsInit, RowsOf
<1>3. \A a \in Hosts : IsFiniteSet(RowsOf(a)) /\ Cardinality(RowsOf(a)) = 0 BY <1>2, FS_EmptySet
<1>4. RowsFinite BY <1>3 DEF RowsFinite
<1>5. RowsCounted BY <1>3 DEF RowsCounted, Carried, AgentsInit
<1>6. TokenPlaces BY DEF TokenPlaces, AgentsInit
<1> QED BY <1>1, <1>4, <1>5, <1>6 DEF EnrollInv

\* A new row makes one host's rows one more.
LEMMA RowsAfterAdding ==
  ASSUME EnrollInv, NEW a \in Hosts, AddRow(a)
  PROVE  /\ \A b \in Hosts : b # a => RowsOf(b)' = RowsOf(b)
         /\ RowsFinite' /\ Cardinality(RowsOf(a)') <= Cardinality(RowsOf(a)) + 1
         /\ issued + 1 \in Tokens /\ issued' \in 0..MaxTokens /\ known' \subseteq Tokens \X Hosts
         /\ <<issued + 1, a>> \in known' /\ known \subseteq known'
<1>1. issued + 1 \in Tokens /\ issued' \in 0..MaxTokens
  BY AgentsAssumption DEF AddRow, EnrollInv, AgentsTypeOK, Tokens
<1>2. known' = known \cup {<<issued + 1, a>>} BY DEF AddRow
<1>3. \A b \in Hosts : b # a => RowsOf(b)' = RowsOf(b) BY <1>2 DEF RowsOf
<1>4. RowsOf(a)' = RowsOf(a) \cup {<<issued + 1, a>>} BY <1>2 DEF RowsOf
<1>5. IsFiniteSet(RowsOf(a)) BY DEF EnrollInv, RowsFinite
<1>6. IsFiniteSet(RowsOf(a)') /\ Cardinality(RowsOf(a)') <= Cardinality(RowsOf(a)) + 1
  <2>1. PICK S, x : S = RowsOf(a) /\ x = <<issued + 1, a>> OBVIOUS
  <2>2. /\ IsFiniteSet(S) /\ Cardinality(S) \in Nat /\ IsFiniteSet(S \cup {x})
        /\ Cardinality(S \cup {x}) = IF x \in S THEN Cardinality(S) ELSE Cardinality(S) + 1
    BY <1>5, <2>1, FS_AddElement, FS_CardinalityType
  <2> QED BY <1>4, <2>1, <2>2
<1>7. RowsFinite' BY <1>3, <1>6 DEF RowsFinite, EnrollInv
<1> QED BY <1>1, <1>2, <1>3, <1>6, <1>7 DEF EnrollInv, AgentsTypeOK

\* What is counted of a host that is not the one that acts stays as it was.
LEMMA OthersCounted ==
  ASSUME EnrollInv, NEW a \in Hosts, known \subseteq known', resets' = resets,
         \A b \in Hosts : b # a =>
           /\ RowsOf(b)' = RowsOf(b) /\ excess'[b] = excess[b] /\ stored'[b] = stored[b]
           /\ at'[b] = at[b] /\ token'[b] = token[b],
         ~resets =>
           /\ Cardinality(RowsOf(a)') <= excess'[a] + Carried(a)'
           /\ stored'[a] # None => <<stored'[a], a>> \in known'
           /\ at'[a] = "save" => <<token'[a], a>> \in known'
  PROVE  RowsCounted'
<1> SUFFICES ASSUME ~resets, NEW b \in Hosts
             PROVE  /\ Cardinality(RowsOf(b)') <= excess'[b] + Carried(b)'
                    /\ stored'[b] # None => <<stored'[b], b>> \in known'
                    /\ at'[b] = "save" => <<token'[b], b>> \in known'
  BY DEF RowsCounted
<1>1. CASE b = a BY <1>1
<1>2. CASE b # a BY <1>2 DEF EnrollInv, RowsCounted, Carried
<1> QED BY <1>1, <1>2

LEMMA EnrollStep == EnrollInv /\ [AgentsNext]_agentsVars => EnrollInv'
<1> SUFFICES ASSUME EnrollInv, [AgentsNext]_agentsVars PROVE EnrollInv' OBVIOUS
<1>0. None \notin Tokens /\ Scans \in Nat /\ Scans > 0 BY AgentsAssumption DEF Tokens
<1>a. ASSUME known' = known PROVE \A a \in Hosts : RowsOf(a)' = RowsOf(a)
  BY <1>a DEF RowsOf
<1>b. ASSUME known' = known PROVE RowsFinite' BY <1>a, <1>b DEF EnrollInv, RowsFinite
<1>c. \A a \in Hosts : IsFiniteSet(RowsOf(a)) /\ Cardinality(RowsOf(a)) \in Nat
  BY FS_CardinalityType DEF EnrollInv, RowsFinite
<1>d. \A a \in Hosts : excess[a] \in Nat BY DEF EnrollInv, AgentsTypeOK
<1>1. ASSUME NEW a \in Hosts, StartAgent(a) PROVE EnrollInv'
  <2>1. AgentsTypeOK' BY <1>0, <1>1 DEF StartAgent, Goes, EnrollInv, AgentsTypeOK, Places
  <2>2. TokenPlaces' BY <1>1 DEF StartAgent, Goes, EnrollInv, AgentsTypeOK, TokenPlaces
  <2>3. RowsCounted'
    BY <1>1, <1>a DEF StartAgent, Goes, EnrollInv, AgentsTypeOK, RowsCounted, Carried
  <2> QED BY <1>1, <1>b, <2>1, <2>2, <2>3 DEF StartAgent, EnrollInv
<1>2. ASSUME NEW a \in Hosts, EnrollAnswered(a) PROVE EnrollInv'
  <2>1. AgentsTypeOK'
    BY <1>2, RowsAfterAdding DEF EnrollAnswered, Goes, EnrollInv, AgentsTypeOK, Places
  <2>2. TokenPlaces'
    BY <1>0, <1>2, RowsAfterAdding
    DEF EnrollAnswered, Enrolling, Goes, EnrollInv, AgentsTypeOK, TokenPlaces
  <2>3. stored'[a] = None /\ Carried(a) = 0 /\ Carried(a)' = 1 /\ at'[a] = "save" /\ token'[a] = issued + 1
    BY <1>2 DEF EnrollAnswered, Enrolling, Goes, EnrollInv, AgentsTypeOK, TokenPlaces, Carried
  <2>4. ~resets => Cardinality(RowsOf(a)') <= excess'[a] + Carried(a)'
    <3>1. ~resets => Cardinality(RowsOf(a)) <= excess[a]
      <4>1. ~resets => Cardinality(RowsOf(a)) <= excess[a] + Carried(a) BY DEF EnrollInv, RowsCounted
      <4> QED BY <1>c, <1>d, <2>3, <4>1
    <3>2. Cardinality(RowsOf(a)') <= Cardinality(RowsOf(a)) + 1 BY <1>2, RowsAfterAdding DEF EnrollAnswered
    <3>3. Cardinality(RowsOf(a)') \in Nat
      BY <1>2, RowsAfterAdding, FS_CardinalityType DEF EnrollAnswered, RowsFinite
    <3> QED BY <1>2, <1>c, <1>d, <2>3, <3>1, <3>2, <3>3 DEF EnrollAnswered
  <2>5. RowsCounted'
    BY <1>2, <2>3, <2>4, RowsAfterAdding, OthersCounted
    DEF EnrollAnswered, Goes, EnrollInv, AgentsTypeOK
  <2> QED BY <1>2, <2>1, <2>2, <2>5, RowsAfterAdding DEF EnrollAnswered, EnrollInv
<1>3. ASSUME NEW a \in Hosts, SaveToken(a) PROVE EnrollInv'
  <2>1. AgentsTypeOK' BY <1>3 DEF SaveToken, Goes, EnrollInv, AgentsTypeOK, Places
  <2>2. TokenPlaces' BY <1>3 DEF SaveToken, Goes, EnrollInv, AgentsTypeOK, TokenPlaces
  <2>3. RowsCounted'
    BY <1>3, <1>a DEF SaveToken, Goes, EnrollInv, AgentsTypeOK, TokenPlaces, RowsCounted, Carried
  <2> QED BY <1>3, <1>b, <2>1, <2>2, <2>3 DEF SaveToken, EnrollInv
\* An agent that scans goes on with its token where it is.
<1>e. ASSUME NEW a \in Hosts, at[a] \in {"scan", "sleep"}, at' \in [Hosts -> Places],
             \A b \in Hosts : b # a => at'[b] = at[b],
             at'[a] \in {"scan", "sleep", "down"}, UNCHANGED <<token, stored, known, excess, resets>>
      PROVE  TokenPlaces' /\ RowsCounted' /\ RowsFinite'
  <2>1. TokenPlaces' BY <1>e DEF EnrollInv, TokenPlaces
  <2>2. RowsCounted' BY <1>e, <1>a DEF EnrollInv, TokenPlaces, RowsCounted, Carried
  <2> QED BY <1>b, <1>e, <2>1, <2>2
<1>f. ASSUME NEW a \in Hosts, at[a] = "scan", left[a] > 0, NextScan(a)
      PROVE  /\ at' \in [Hosts -> Places] /\ left' \in [Hosts -> 0..Scans]
             /\ at'[a] \in {"scan", "sleep", "down"}
             /\ \A b \in Hosts : b # a => at'[b] = at[b]
  BY <1>0, <1>f DEF NextScan, RunEnds, Goes, EnrollInv, AgentsTypeOK, Places
<1>4. ASSUME NEW a \in Hosts, SubmitDone(a) PROVE EnrollInv'
  <2>1. AgentsTypeOK' BY <1>4, <1>f DEF SubmitDone, EnrollInv, AgentsTypeOK
  <2> QED BY <1>4, <1>e, <1>f, <2>1 DEF SubmitDone, EnrollInv
<1>5. ASSUME NEW a \in Hosts, SubmitUnreached(a) PROVE EnrollInv'
  <2>1. AgentsTypeOK'
    BY <1>5, <1>f, AgentsAssumption DEF SubmitUnreached, Mishap, EnrollInv, AgentsTypeOK
  <2> QED BY <1>5, <1>e, <1>f, <2>1 DEF SubmitUnreached, EnrollInv
<1>6. ASSUME NEW a \in Hosts, SubmitRejected(a) PROVE EnrollInv'
  <2>1. AgentsTypeOK' BY <1>0, <1>6 DEF SubmitRejected, Goes, EnrollInv, AgentsTypeOK, Places
  <2>2. TokenPlaces' BY <1>6 DEF SubmitRejected, Goes, EnrollInv, AgentsTypeOK, TokenPlaces
  <2>3. resets BY <1>6 DEF SubmitRejected, EnrollInv, TokenPlaces, RowsCounted
  <2>4. RowsCounted' BY <1>6, <2>3 DEF SubmitRejected, RowsCounted
  <2> QED BY <1>6, <1>b, <2>1, <2>2, <2>4 DEF SubmitRejected, EnrollInv
<1>7. ASSUME NEW a \in Hosts, IntervalOver(a) PROVE EnrollInv'
  <2>1. /\ at' \in [Hosts -> Places] /\ at'[a] = "scan" /\ \A b \in Hosts : b # a => at'[b] = at[b]
        /\ AgentsTypeOK'
    BY <1>0, <1>7 DEF IntervalOver, Goes, EnrollInv, AgentsTypeOK, Places
  <2> QED BY <1>7, <1>e, <2>1 DEF IntervalOver, EnrollInv
<1>8. ASSUME NEW a \in Hosts, EnrollUnreached(a) PROVE EnrollInv'
  <2>1. AgentsTypeOK'
    BY <1>8, AgentsAssumption DEF EnrollUnreached, Mishap, Unreachable, Goes, EnrollInv, AgentsTypeOK, Places
  <2>2. TokenPlaces'
    BY <1>8 DEF EnrollUnreached, Enrolling, Unreachable, Goes, EnrollInv, AgentsTypeOK, TokenPlaces
  <2>3. RowsCounted'
    BY <1>8, <1>a
    DEF EnrollUnreached, Enrolling, Unreachable, Goes, EnrollInv, AgentsTypeOK, RowsCounted, Carried
  <2> QED BY <1>8, <1>b, <2>1, <2>2, <2>3 DEF EnrollUnreached, EnrollInv
<1>9. ASSUME NEW a \in Hosts, EnrollUnheard(a) PROVE EnrollInv'
  <2>1. AgentsTypeOK'
    <3>1. AddRow(a) /\ Mishap /\ Unreachable(a) /\ UNCHANGED <<token, stored, left, resets>>
          /\ excess' = [excess EXCEPT ![a] = @ + 1]
      BY <1>9 DEF EnrollUnheard
    <3>2. at' \in [Hosts -> Places] BY <3>1 DEF Unreachable, Goes, EnrollInv, AgentsTypeOK, Places
    <3>3. mishaps' \in 0..MaxMishaps BY <3>1, AgentsAssumption DEF Mishap, EnrollInv, AgentsTypeOK
    <3>4. excess' \in [Hosts -> Nat] BY <3>1 DEF EnrollInv, AgentsTypeOK
    <3>5. issued' \in 0..MaxTokens /\ known' \subseteq Tokens \X Hosts BY <3>1, RowsAfterAdding
    <3> QED BY <3>1, <3>2, <3>3, <3>4, <3>5 DEF EnrollInv, AgentsTypeOK
  <2>2. TokenPlaces'
    BY <1>9 DEF EnrollUnheard, Enrolling, Unreachable, Goes, EnrollInv, AgentsTypeOK, TokenPlaces
  <2>3. /\ stored'[a] = None /\ Carried(a) = 0 /\ Carried(a)' = 0 /\ at'[a] # "save"
        /\ excess'[a] = excess[a] + 1
    BY <1>9 DEF EnrollUnheard, Enrolling, Unreachable, Goes, EnrollInv, AgentsTypeOK, TokenPlaces, Carried
  <2>4. ~resets => Cardinality(RowsOf(a)') <= excess'[a] + Carried(a)'
    <3>1. ~resets => Cardinality(RowsOf(a)) <= excess[a]
      <4>1. ~resets => Cardinality(RowsOf(a)) <= excess[a] + Carried(a) BY DEF EnrollInv, RowsCounted
      <4> QED BY <1>c, <1>d, <2>3, <4>1
    <3>2. Cardinality(RowsOf(a)') <= Cardinality(RowsOf(a)) + 1 BY <1>9, RowsAfterAdding DEF EnrollUnheard
    <3>3. Cardinality(RowsOf(a)') \in Nat
      BY <1>9, RowsAfterAdding, FS_CardinalityType DEF EnrollUnheard, RowsFinite
    <3> QED BY <1>c, <1>d, <2>3, <3>1, <3>2, <3>3
  <2>5. RowsCounted'
    BY <1>9, <2>3, <2>4, RowsAfterAdding, OthersCounted
    DEF EnrollUnheard, Unreachable, Goes, EnrollInv, AgentsTypeOK
  <2> QED BY <1>9, <2>1, <2>2, <2>5, RowsAfterAdding DEF EnrollUnheard, EnrollInv
<1>10. ASSUME NEW a \in Hosts, NEW halfWritten \in BOOLEAN, HostStops(a, halfWritten) PROVE EnrollInv'
  <2>1. AgentsTypeOK'
    BY <1>10, AgentsAssumption DEF HostStops, Mishap, Goes, EnrollInv, AgentsTypeOK, Places
  <2>2. TokenPlaces' BY <1>10 DEF HostStops, Goes, EnrollInv, AgentsTypeOK, TokenPlaces
  <2>3. RowsCounted'
    <3>1. CASE at[a] = "save"
      <4>1. /\ stored'[a] = None /\ excess'[a] = excess[a] + 1 /\ at'[a] = "down"
            /\ Carried(a) = 1 /\ Carried(a)' = 0
        BY <1>10, <3>1 DEF HostStops, Goes, EnrollInv, AgentsTypeOK, TokenPlaces, Carried
      <4>2. ~resets => Cardinality(RowsOf(a)') <= excess'[a] + Carried(a)'
        <5>1. ~resets => Cardinality(RowsOf(a)) <= excess[a] + Carried(a) BY DEF EnrollInv, RowsCounted
        <5>2. RowsOf(a)' = RowsOf(a) BY <1>10, <1>a DEF HostStops
        <5> QED BY <1>c, <1>d, <4>1, <5>1, <5>2
      <4> QED BY <1>10, <1>a, <4>1, <4>2, OthersCounted DEF HostStops, Goes, EnrollInv, AgentsTypeOK
    <3>2. CASE at[a] # "save"
      BY <1>10, <1>a, <3>2 DEF HostStops, Goes, EnrollInv, AgentsTypeOK, RowsCounted, Carried
    <3> QED BY <3>1, <3>2
  <2> QED BY <1>10, <1>b, <2>1, <2>2, <2>3 DEF HostStops, EnrollInv
<1>11. CASE RegistryLost
  <2>1. AgentsTypeOK' BY <1>11, AgentsAssumption DEF RegistryLost, Mishap, EnrollInv, AgentsTypeOK
  <2>2. \A a \in Hosts : RowsOf(a)' = {} BY <1>11 DEF RegistryLost, RowsOf
  <2>3. RowsFinite' BY <2>2, FS_EmptySet DEF RowsFinite
  <2> QED BY <1>11, <2>1, <2>3 DEF RegistryLost, EnrollInv, TokenPlaces, RowsCounted
<1>12. CASE UNCHANGED agentsVars
  BY <1>12, <1>a, <1>b DEF agentsVars, EnrollInv, AgentsTypeOK, TokenPlaces, RowsCounted, Carried
<1> QED
  BY <1>1, <1>2, <1>3, <1>4, <1>5, <1>6, <1>7, <1>8, <1>9, <1>10, <1>11, <1>12 DEF AgentsNext, AgentStep

LEMMA EnrollMeans == EnrollInv => EnrollmentsExplained
<1> SUFFICES ASSUME EnrollInv PROVE EnrollmentsExplained OBVIOUS
<1> SUFFICES ASSUME ~resets, NEW a \in Hosts
             PROVE  /\ Cardinality(RowsOf(a)) <= 1 + excess[a]
                    /\ stored[a] # None => <<stored[a], a>> \in known
  BY DEF EnrollmentsExplained
<1>1. Cardinality(RowsOf(a)) \in Nat /\ excess[a] \in Nat
  BY FS_CardinalityType DEF EnrollInv, RowsFinite, AgentsTypeOK
<1>2. RowsCounted BY DEF EnrollInv
<1>3. Cardinality(RowsOf(a)) <= excess[a] + Carried(a) /\ (stored[a] # None => <<stored[a], a>> \in known)
  BY <1>2 DEF RowsCounted
<1>4. Carried(a) \in {0, 1} BY DEF Carried
<1> QED BY <1>1, <1>3, <1>4

\* However many hosts and mishaps: the registry has no row of a host that no
\* lost token explains, and knows every token an agent has on disk.
THEOREM EnrollmentsAreExplained == AgentsSpec => []EnrollmentsExplained
<1> QED BY EnrollMeans, EnrollInit, EnrollStep, PTL DEF AgentsSpec

-------------------------------------------------------------------------------
(* The platform's staff.                                                   *)

LEMMA TeamInitType == TeamInit => TeamTypeOK
<1> SUFFICES ASSUME TeamInit PROVE TeamTypeOK
  OBVIOUS
<1>1. staff \in [Members -> PlatformRoles \cup {"unborn", "gone"}] BY DEF TeamInit, PlatformRoles
<1>2. teamRequest \in [Handlers -> TeamRequest] BY DEF TeamInit, TeamRequest
<1>3. teamBegun \in 0..MaxRequests BY AccessAssumption DEF TeamInit
<1> QED BY <1>1, <1>2, <1>3 DEF TeamInit, TeamTypeOK

LEMMA TeamReadsType ==
  ASSUME TeamTypeOK, NEW h \in Handlers, NEW op \in {"role", "remove"}, NEW target \in Members,
         NEW role \in PlatformRoles, TeamReads(h, op, target, role)
  PROVE  TeamTypeOK'
<1> USE DEF TeamReads
<1>1. staff[target] \in PlatformRoles BY DEF IsMember
<1>2. Supers \in SUBSET Members BY DEF Supers
<1>3. [op |-> op, target |-> target, read |-> staff[target], role |-> role, supers |-> Supers]
        \in TeamRequest
  BY <1>1, <1>2 DEF TeamRequest
<1>4. teamRequest' \in [Handlers -> TeamRequest] BY <1>3 DEF TeamTypeOK
<1>5. teamBegun' \in 0..MaxRequests BY AccessAssumption DEF TeamTypeOK
<1> QED BY <1>4, <1>5 DEF TeamTypeOK

LEMMA TeamWriteType ==
  ASSUME TeamTypeOK, NEW h \in Handlers, NEW op, NEW value \in PlatformRoles \cup {"gone"},
         TeamWrite(h, op, value)
  PROVE  TeamTypeOK'
<1> USE DEF TeamWrite
<1>1. teamRequest' \in [Handlers -> TeamRequest] BY DEF TeamTypeOK, TeamRequest
<1>2. staff' \in [Members -> PlatformRoles \cup {"unborn", "gone"}] BY DEF TeamTypeOK
<1>3. TeamOvertaken(teamRequest[h]) \in BOOLEAN BY DEF TeamOvertaken
<1>4. raced' \in BOOLEAN BY <1>3 DEF TeamTypeOK
<1> QED BY <1>1, <1>2, <1>4 DEF TeamTypeOK

\* What a request has read, of those that end someone's being a super admin:
\* there were two.
CountedTwo ==
  \A h \in Handlers :
    LET r == teamRequest[h]
    IN  r.op # "idle" /\ r.read = "super_admin" /\ (r.op = "remove" \/ r.role # "super_admin")
          => EnoughSupers(r.supers)

TeamInv == TeamTypeOK /\ CountedTwo /\ SuperLeft

LEMMA RequestIs ==
  ASSUME TeamTypeOK, NEW h \in Handlers, teamRequest[h].op # "idle"
  PROVE  /\ teamRequest[h].op \in {"role", "remove"} /\ teamRequest[h].target \in Members
         /\ teamRequest[h].read \in PlatformRoles /\ teamRequest[h].role \in PlatformRoles
         /\ teamRequest[h].supers \in SUBSET Members
BY DEF TeamTypeOK, TeamRequest, TeamIdle

\* The staff's columns hold what they are declared to, in every state.
LEMMA TeamStepType == TeamTypeOK /\ [TeamNext]_teamVars => TeamTypeOK'
<1> SUFFICES ASSUME TeamTypeOK, [TeamNext]_teamVars PROVE TeamTypeOK'
  OBVIOUS
<1>1. ASSUME NEW by \in Members, NEW m \in Members, NEW role \in PlatformRoles,
             AddTeamMember(by, m, role)
      PROVE  TeamTypeOK'
  BY <1>1 DEF AddTeamMember, TeamTypeOK
<1>2. ASSUME NEW by \in Members, NEW m \in Members, NEW role \in PlatformRoles,
             NEW h \in Handlers, UpdateTeamRoleBegin(h, by, m, role)
      PROVE  TeamTypeOK'
  BY <1>2, TeamReadsType DEF UpdateTeamRoleBegin
<1>3. ASSUME NEW by \in Members, NEW m \in Members, NEW h \in Handlers,
             RemoveTeamMemberBegin(h, by, m)
      PROVE  TeamTypeOK'
  BY <1>3, TeamReadsType, "read_only" \in PlatformRoles DEF RemoveTeamMemberBegin, PlatformRoles
<1>4. ASSUME NEW h \in Handlers, UpdateTeamRoleCommit(h) PROVE TeamTypeOK'
  <2>1. teamRequest[h].op = "role" BY <1>4 DEF UpdateTeamRoleCommit, TeamWrite
  <2> QED BY <1>4, <2>1, RequestIs, TeamWriteType DEF UpdateTeamRoleCommit
<1>5. ASSUME NEW h \in Handlers, RemoveTeamMemberCommit(h) PROVE TeamTypeOK'
  BY <1>5, TeamWriteType DEF RemoveTeamMemberCommit
<1>6. CASE UNCHANGED teamVars BY <1>6 DEF teamVars, TeamTypeOK
<1> QED BY <1>1, <1>2, <1>3, <1>4, <1>5, <1>6 DEF TeamNext

LEMMA TeamReadsInv ==
  ASSUME TeamInv, NEW h \in Handlers, NEW op, NEW target, NEW role,
         op = "remove" => role # "super_admin", TeamReads(h, op, target, role)
  PROVE  CountedTwo' /\ SuperLeft'
<1> USE DEF TeamReads
<1>1. SuperLeft' BY DEF TeamInv, SuperLeft, Supers
<1>2. ASSUME NEW k \in Handlers, teamRequest'[k].op # "idle",
             teamRequest'[k].read = "super_admin",
             teamRequest'[k].op = "remove" \/ teamRequest'[k].role # "super_admin"
      PROVE  EnoughSupers(teamRequest'[k].supers)
  <2>1. CASE k = h
    <3>1. teamRequest'[k] = [op |-> op, target |-> target, read |-> staff[target],
                             role |-> role, supers |-> Supers]
      BY <2>1 DEF TeamInv, TeamTypeOK
    <3> QED BY <1>2, <3>1
  <2>2. CASE k # h
    <3>1. teamRequest'[k] = teamRequest[k] BY <2>2 DEF TeamInv, TeamTypeOK
    <3> QED BY <1>2, <3>1 DEF TeamInv, CountedTwo
  <2> QED BY <2>1, <2>2
<1> QED BY <1>1, <1>2 DEF CountedTwo

\* A commit that came over nobody's change leaves a super admin: of the two its
\* request counted one is not its target.
LEMMA TeamWriteInv ==
  ASSUME TeamInv, NEW h \in Handlers, NEW op \in {"role", "remove"}, NEW value,
         op = "role" => value = teamRequest[h].role, op = "remove" => value = "gone",
         TeamWrite(h, op, value)
  PROVE  CountedTwo' /\ SuperLeft'
<1> DEFINE r == teamRequest[h]
<1>1. r.op = op /\ r.op # "idle" BY DEF TeamWrite
<1>2. r.target \in Members BY <1>1, RequestIs DEF TeamInv
<1>3. CountedTwo'
  <2>1. ASSUME NEW k \in Handlers, teamRequest'[k].op # "idle" PROVE teamRequest'[k] = teamRequest[k]
    BY <2>1 DEF TeamWrite, TeamInv, TeamTypeOK, TeamIdle
  <2> QED BY <2>1 DEF CountedTwo, TeamInv
<1>4. SuperLeft'
  <2>1. CASE raced' BY <2>1 DEF SuperLeft
  <2>2. CASE UNCHANGED <<staff, raced>> BY <2>2 DEF SuperLeft, Supers, TeamInv
  <2>3. CASE ~raced' /\ ~UNCHANGED <<staff, raced>>
    <3>1. /\ staff' = [staff EXCEPT ![r.target] = value] /\ value # r.read
          /\ ~raced /\ staff[r.target] = r.read /\ r.supers \subseteq Supers
      BY <2>3 DEF TeamWrite, TeamOvertaken
    <3>2. \A m \in Members : m # r.target => staff'[m] = staff[m]
      BY <3>1 DEF TeamInv, TeamTypeOK
    <3>3. CASE r.read = "super_admin"
      <4>1. EnoughSupers(r.supers) BY <1>1, <3>1, <3>3 DEF TeamInv, CountedTwo
      <4>2. PICK a \in r.supers : a # r.target BY <4>1 DEF EnoughSupers
      <4>3. a \in Supers /\ a \in Members BY <3>1, <4>2 DEF Supers
      <4>4. a \in Supers' BY <3>2, <4>2, <4>3 DEF Supers
      <4> QED BY <4>4 DEF SuperLeft
    <3>4. CASE r.read # "super_admin"
      <4>1. PICK a \in Supers : TRUE BY <3>1 DEF TeamInv, SuperLeft
      <4>2. a # r.target /\ a \in Members BY <3>1, <3>4, <4>1 DEF Supers
      <4>3. a \in Supers' BY <3>2, <4>1, <4>2 DEF Supers
      <4> QED BY <4>3 DEF SuperLeft
    <3> QED BY <3>3, <3>4
  <2> QED BY <2>1, <2>2, <2>3
<1> QED BY <1>3, <1>4

LEMMA TeamInitInv == TeamInit => TeamInv
<1> SUFFICES ASSUME TeamInit PROVE TeamInv
  OBVIOUS
<1>1. CountedTwo BY DEF TeamInit, CountedTwo, TeamIdle
<1>2. First \in Supers BY TeamAssumption DEF TeamInit, Supers
<1> QED BY <1>1, <1>2, TeamInitType DEF TeamInv, SuperLeft

LEMMA TeamStepInv == TeamInv /\ [TeamNext]_teamVars => TeamInv'
<1> SUFFICES ASSUME TeamInv, [TeamNext]_teamVars PROVE CountedTwo' /\ SuperLeft'
  BY TeamStepType DEF TeamInv
<1>1. ASSUME NEW by \in Members, NEW m \in Members, NEW role \in PlatformRoles,
             AddTeamMember(by, m, role)
      PROVE  CountedTwo' /\ SuperLeft'
  <2>1. CountedTwo' BY <1>1 DEF AddTeamMember, CountedTwo, TeamInv
  <2>2. Supers \subseteq Supers'
    BY <1>1 DEF AddTeamMember, NewMember, Supers, TeamInv, TeamTypeOK
  <2> QED BY <1>1, <2>1, <2>2 DEF AddTeamMember, SuperLeft, TeamInv
<1>2. ASSUME NEW by \in Members, NEW m \in Members, NEW role \in PlatformRoles,
             NEW h \in Handlers, UpdateTeamRoleBegin(h, by, m, role)
      PROVE  CountedTwo' /\ SuperLeft'
  BY <1>2, TeamReadsInv DEF UpdateTeamRoleBegin
<1>3. ASSUME NEW by \in Members, NEW m \in Members, NEW h \in Handlers,
             RemoveTeamMemberBegin(h, by, m)
      PROVE  CountedTwo' /\ SuperLeft'
  BY <1>3, TeamReadsInv DEF RemoveTeamMemberBegin
<1>4. ASSUME NEW h \in Handlers, UpdateTeamRoleCommit(h) PROVE CountedTwo' /\ SuperLeft'
  BY <1>4, TeamWriteInv DEF UpdateTeamRoleCommit
<1>5. ASSUME NEW h \in Handlers, RemoveTeamMemberCommit(h) PROVE CountedTwo' /\ SuperLeft'
  BY <1>5, TeamWriteInv DEF RemoveTeamMemberCommit
<1>6. CASE UNCHANGED teamVars BY <1>6 DEF teamVars, CountedTwo, SuperLeft, Supers, TeamInv
<1> QED BY <1>1, <1>2, <1>3, <1>4, <1>5, <1>6 DEF TeamNext

\* The platform always has a super admin, unless a request committed over
\* another's change, however many staff and requests there are.
THEOREM SuperAdminLeft == TeamSpec => []SuperLeft
<1>1. TeamInv => SuperLeft BY DEF TeamInv
<1> QED BY <1>1, TeamInitInv, TeamStepInv, PTL DEF TeamSpec
-------------------------------------------------------------------------------
(* Tenants and their users: types.                                         *)

LEMMA NoneIsNoTenant == None \notin Tenants
BY AccessAssumption

LEMMA TenancyInitType == TenancyInit => TenancyTypeOK
<1> SUFFICES ASSUME TenancyInit PROVE TenancyTypeOK
  OBVIOUS
<1>1. user \in [Users -> Row \cup {Unborn, Gone}] BY DEF TenancyInit
<1>2. request \in [Handlers -> Request] BY DEF TenancyInit, Request
<1>3. begun \in 0..MaxRequests BY AccessAssumption DEF TenancyInit
<1> QED BY <1>1, <1>2, <1>3 DEF TenancyInit, TenancyTypeOK

\* A user that has a tenant is a row.
LEMMA IsARow ==
  ASSUME TenancyTypeOK, NEW u \in Users, IsRow(u)
  PROVE  user[u] \in Row
<1>1. user[u] \in Row \cup {Unborn, Gone} BY DEF TenancyTypeOK
<1>2. user[u] # Unborn /\ user[u] # Gone BY DEF IsRow, Unborn, Gone
<1> QED BY <1>1, <1>2

LEMMA ReadsType ==
  ASSUME TenancyTypeOK, NEW h \in Handlers, NEW r \in Request, Reads(h, r)
  PROVE  request' \in [Handlers -> Request] /\ begun' \in 0..MaxRequests
<1>1. request' \in [Handlers -> Request] BY DEF Reads, TenancyTypeOK
<1>2. begun' \in 0..MaxRequests BY AccessAssumption DEF Reads, TenancyTypeOK
<1> QED BY <1>1, <1>2

\* What a request that changes a user has read, and one about a tenant.
LEMMA UserRequest ==
  ASSUME TenancyTypeOK, NEW h \in Handlers, request[h].op \in {"role", "remove"}
  PROVE  /\ request[h].target \in Users /\ request[h].read \in Row
         /\ request[h].admins \in SUBSET Users /\ request[h].role \in TenantRoles
BY DEF TenancyTypeOK, Request, Idle

LEMMA TenantRequest ==
  ASSUME TenancyTypeOK, NEW h \in Handlers, request[h].op \in {"delete", "onboard"}
  PROVE  request[h].of \in Tenants /\ (request[h].op = "onboard" => request[h].by \in Users)
BY DEF TenancyTypeOK, Request, Idle

LEMMA ReturnsType ==
  ASSUME TenancyTypeOK, NEW h \in Handlers, request' = [request EXCEPT ![h] = Idle]
  PROVE  request' \in [Handlers -> Request]
BY DEF TenancyTypeOK, Request

LEMMA BeginRequest ==
  ASSUME TenancyTypeOK, NEW target \in Users, NEW by \in Users, NEW role \in TenantRoles,
         NEW op \in {"role", "remove"}, IsRow(target)
  PROVE  [op |-> op, target |-> target, read |-> user[target],
          admins |-> Admins(user[by].tenant), role |-> role] \in Request
<1>1. user[target] \in Row BY IsARow
<1>2. Admins(user[by].tenant) \in SUBSET Users BY DEF Admins, Of
<1> QED BY <1>1, <1>2 DEF Request

LEMMA TenancyStepType == TenancyTypeOK /\ [TenancyNext]_tenancyVars => TenancyTypeOK'
<1> SUFFICES ASSUME TenancyTypeOK, [TenancyNext]_tenancyVars PROVE TenancyTypeOK'
  OBVIOUS
<1> USE NoneIsNoTenant
<1>1. ASSUME NEW t \in Tenants, NEW u \in Users, OnboardTenant(t, u) PROVE TenancyTypeOK'
  <2>1. [tenant |-> t, role |-> "admin"] \in Row BY DEF Row, TenantRoles
  <2> QED BY <1>1, <2>1 DEF OnboardTenant, TenancyTypeOK
<1>2. ASSUME NEW t \in Tenants, UpdatePlan(t) PROVE TenancyTypeOK'
  BY <1>2 DEF UpdatePlan, TenancyTypeOK
<1>3. ASSUME NEW t \in Tenants, NEW h \in Handlers, DeleteTenantBegin(h, t) PROVE TenancyTypeOK'
  <2>1. [op |-> "delete", of |-> t] \in Request BY DEF Request
  <2>2. Reads(h, [op |-> "delete", of |-> t]) BY <1>3 DEF DeleteTenantBegin
  <2> QED BY <1>3, <2>1, <2>2, ReadsType DEF DeleteTenantBegin, TenancyTypeOK
<1>4. ASSUME NEW by \in Users, NEW u \in Users, NEW role \in GivenRoles, AddUser(by, u, role)
      PROVE  TenancyTypeOK'
  <2>1. user[by] \in Row BY <1>4, IsARow DEF AddUser, May
  <2>2. [tenant |-> user[by].tenant, role |-> role] \in Row BY <2>1, TenancyAssumption DEF Row
  <2> QED BY <1>4, <2>2 DEF AddUser, TenancyTypeOK
<1>5. ASSUME NEW by \in Users, NEW u \in Users, NEW role \in GivenRoles, NEW h \in Handlers,
             UpdateRoleBegin(h, by, u, role)
      PROVE  TenancyTypeOK'
  <2>1. [op |-> "role", target |-> u, read |-> user[u],
         admins |-> Admins(user[by].tenant), role |-> role] \in Request
    BY <1>5, BeginRequest, TenancyAssumption DEF UpdateRoleBegin
  <2> QED BY <1>5, <2>1, ReadsType DEF UpdateRoleBegin, TenancyTypeOK
<1>6. ASSUME NEW by \in Users, NEW u \in Users, NEW h \in Handlers, RemoveUserBegin(h, by, u)
      PROVE  TenancyTypeOK'
  <2>1. user[u] \in Row BY <1>6, IsARow DEF RemoveUserBegin
  <2>2. [op |-> "remove", target |-> u, read |-> user[u],
         admins |-> Admins(user[by].tenant), role |-> user[u].role] \in Request
    BY <1>6, <2>1, BeginRequest DEF RemoveUserBegin, Row
  <2> QED BY <1>6, <2>2, ReadsType DEF RemoveUserBegin, TenancyTypeOK
<1>7. ASSUME NEW by \in Users, NEW t \in Tenants, NEW h \in Handlers, OnboardBegin(h, by, t)
      PROVE  TenancyTypeOK'
  <2>1. [op |-> "onboard", of |-> t, by |-> by] \in Request BY DEF Request
  <2> QED BY <1>7, <2>1, ReadsType DEF OnboardBegin, TenancyTypeOK
<1>8. ASSUME NEW by \in Users, UpdateTenant(by) PROVE TenancyTypeOK'
  BY <1>8 DEF UpdateTenant, TenancyTypeOK
<1>9. ASSUME NEW h \in Handlers, DeleteTenantCommit(h) PROVE TenancyTypeOK'
  <2>1. request[h].of \in Tenants BY <1>9, TenantRequest DEF DeleteTenantCommit
  <2> QED BY <1>9, <2>1, ReturnsType DEF DeleteTenantCommit, TenancyTypeOK
<1>10. ASSUME NEW h \in Handlers, UpdateRoleCommit(h) PROVE TenancyTypeOK'
  <2> DEFINE r == request[h]
  <2>1. r.target \in Users /\ r.role \in TenantRoles BY <1>10, UserRequest DEF UpdateRoleCommit
  <2>2. user' \in [Users -> Row \cup {Unborn, Gone}]
    <3>1. CASE IsRow(r.target) /\ r.role # r.read.role
      <4>1. user[r.target] \in Row BY <2>1, <3>1, IsARow
      <4>2. [user[r.target] EXCEPT !.role = r.role] \in Row BY <2>1, <4>1 DEF Row
      <4> QED BY <1>10, <3>1, <4>2 DEF UpdateRoleCommit, TenancyTypeOK
    <3>2. CASE ~(IsRow(r.target) /\ r.role # r.read.role)
      BY <1>10, <3>2 DEF UpdateRoleCommit, TenancyTypeOK
    <3> QED BY <3>1, <3>2
  <2>3. led' \in [Tenants -> {"never", "led", "excused"}]
    BY <1>10 DEF UpdateRoleCommit, Noted, TenancyTypeOK
  <2> QED BY <1>10, <2>2, <2>3, ReturnsType DEF UpdateRoleCommit, TenancyTypeOK
<1>11. ASSUME NEW h \in Handlers, RemoveUserCommit(h) PROVE TenancyTypeOK'
  <2>1. user' \in [Users -> Row \cup {Unborn, Gone}] BY <1>11 DEF RemoveUserCommit, TenancyTypeOK
  <2>2. led' \in [Tenants -> {"never", "led", "excused"}]
    BY <1>11 DEF RemoveUserCommit, Noted, TenancyTypeOK
  <2> QED BY <1>11, <2>1, <2>2, ReturnsType DEF RemoveUserCommit, TenancyTypeOK
<1>12. ASSUME NEW h \in Handlers, OnboardCommit(h) PROVE TenancyTypeOK'
  <2> DEFINE r == request[h]
  <2>1. r.of \in Tenants /\ r.by \in Users BY <1>12, TenantRequest DEF OnboardCommit
  <2>2. user' \in [Users -> Row \cup {Unborn, Gone}] /\ cited' \subseteq Users
    <3>1. CASE IsRow(r.by) /\ (fk => tenant[r.of] = "live")
      <4>1. user[r.by] \in Row BY <2>1, <3>1, IsARow
      <4>2. [user[r.by] EXCEPT !.tenant = r.of] \in Row BY <2>1, <4>1 DEF Row
      <4>3. user' = [user EXCEPT ![r.by].tenant = r.of] /\ cited' = cited \cup {r.by}
        BY <1>12, <3>1 DEF OnboardCommit
      <4>4. user' \in [Users -> Row \cup {Unborn, Gone}] BY <4>2, <4>3 DEF TenancyTypeOK
      <4> QED BY <2>1, <4>3, <4>4 DEF TenancyTypeOK
    <3>2. CASE ~(IsRow(r.by) /\ (fk => tenant[r.of] = "live"))
      BY <1>12, <3>2 DEF OnboardCommit, TenancyTypeOK
    <3> QED BY <3>1, <3>2
  <2>3. led' \in [Tenants -> {"never", "led", "excused"}] /\ audited' \subseteq Tenants
    BY <1>12, <2>1 DEF OnboardCommit, TenancyTypeOK
  <2> QED BY <1>12, <2>2, <2>3, ReturnsType DEF OnboardCommit, TenancyTypeOK
<1>13. CASE UNCHANGED tenancyVars BY <1>13 DEF tenancyVars, TenancyTypeOK
<1> QED
  BY <1>1, <1>2, <1>3, <1>4, <1>5, <1>6, <1>7, <1>8, <1>9, <1>10, <1>11, <1>12, <1>13
  DEF TenancyNext, Staff, Manage, Finish

-------------------------------------------------------------------------------
(* A tenant's admins.                                                      *)

\* A request that ends someone's being an admin has counted two of them.
CountedAdmins ==
  \A h \in Handlers :
    LET r == request[h]
    IN  r.op \in {"role", "remove"} /\ r.read.role = "admin" /\ (r.op = "remove" \/ r.role # "admin")
          => EnoughAdmins(r.admins)

AdminInv == TenancyTypeOK /\ CountedAdmins /\ AdminLeft

LEMMA AdminInit == TenancyInit => AdminInv
<1> SUFFICES ASSUME TenancyInit PROVE CountedAdmins /\ AdminLeft
  BY TenancyInitType DEF AdminInv
<1>1. CountedAdmins BY DEF TenancyInit, CountedAdmins, Idle
<1>2. AdminLeft BY DEF TenancyInit, AdminLeft
<1> QED BY <1>1, <1>2

\* A request begins: what it has read it has read now.
LEMMA BeginCounted ==
  ASSUME TenancyTypeOK, CountedAdmins, NEW h \in Handlers, NEW r, Reads(h, r),
         r.op \in {"role", "remove"} /\ r.read.role = "admin" /\ (r.op = "remove" \/ r.role # "admin")
           => EnoughAdmins(r.admins)
  PROVE  CountedAdmins'
<1>1. ASSUME NEW k \in Handlers PROVE request'[k] = IF k = h THEN r ELSE request[k]
  BY DEF Reads, TenancyTypeOK
<1> QED BY <1>1 DEF CountedAdmins

\* A request that returns leaves the others' counts.
LEMMA ReturnCounted ==
  ASSUME TenancyTypeOK, CountedAdmins, NEW h \in Handlers, request' = [request EXCEPT ![h] = Idle]
  PROVE  CountedAdmins'
<1>1. ASSUME NEW k \in Handlers PROVE request'[k] = IF k = h THEN Idle ELSE request[k]
  BY DEF TenancyTypeOK
<1> QED BY <1>1 DEF CountedAdmins, Idle

\* Admins who are left as they are.
LEMMA AdminsStay ==
  ASSUME AdminLeft, \A t \in Tenants : led'[t] = "led" => led[t] = "led" /\ Admins(t) \subseteq Admins(t)'
  PROVE  AdminLeft'
BY DEF AdminLeft

\* A tenant a target is not in keeps its admins, whatever becomes of him.
LEMMA OthersStay ==
  ASSUME TenancyTypeOK, NEW v \in Users, NEW t \in Tenants,
         \A u \in Users : u # v => user'[u] = user[u], v \notin Admins(t)
  PROVE  Admins(t) \subseteq Admins(t)'
BY DEF Admins, Of, IsRow

\* A commit that came over nobody's change: one of the two it counted stays.
LEMMA CommitLeaves ==
  ASSUME AdminInv, NEW h \in Handlers, request[h].op \in {"role", "remove"},
         \A u \in Users : u # request[h].target => user'[u] = user[u],
         request[h].op = "role" => request[h].role # request[h].read.role,
         request[h].op = "role" => user'[request[h].target] =
           [user[request[h].target] EXCEPT !.role = request[h].role],
         led' = Noted(request[h])
  PROVE  AdminLeft'
<1> DEFINE r == request[h]
<1>0. TenancyTypeOK BY DEF AdminInv
<1>1. r.target \in Users /\ r.read \in Row /\ r.admins \in SUBSET Users BY <1>0, UserRequest
<1>2. SUFFICES ASSUME NEW t \in Tenants, led'[t] = "led" PROVE Admins(t)' # {}
  BY DEF AdminLeft
<1>3. led[t] = "led" /\ (Overtaken(r) => t \notin TenantsOf(r)) BY <1>0, <1>2 DEF Noted, TenancyTypeOK
<1>4. Admins(t) # {} BY <1>3 DEF AdminInv, AdminLeft
<1>5. CASE r.target \notin Admins(t)
  BY <1>0, <1>1, <1>4, <1>5, OthersStay
<1>6. CASE r.target \in Admins(t)
  <2>1. user[r.target].tenant = t /\ user[r.target].role = "admin" BY <1>6 DEF Admins, Of
  <2>2. ~Overtaken(r) BY <1>3, <2>1 DEF TenantsOf
  <2>3. r.read = user[r.target] BY <2>2 DEF Overtaken
  <2>4. EnoughAdmins(r.admins) BY <2>1, <2>3 DEF AdminInv, CountedAdmins
  <2>5. PICK a \in r.admins : a # r.target BY <2>4 DEF EnoughAdmins
  <2>6. a \in Users /\ user'[a] = user[a] BY <1>1, <2>5
  <2>7. IsRow(a) /\ user[a] = [tenant |-> t, role |-> "admin"] BY <2>1, <2>2, <2>3, <2>5 DEF Overtaken
  <2>8. a \in Admins(t)' BY <2>6, <2>7 DEF Admins, Of, IsRow
  <2> QED BY <2>8
<1> QED BY <1>5, <1>6

LEMMA AdminStep == AdminInv /\ [TenancyNext]_tenancyVars => AdminInv'
<1> SUFFICES ASSUME AdminInv, [TenancyNext]_tenancyVars PROVE CountedAdmins' /\ AdminLeft'
  BY TenancyStepType DEF AdminInv
<1> USE NoneIsNoTenant
<1>0. TenancyTypeOK /\ CountedAdmins /\ AdminLeft BY DEF AdminInv
<1>a. ASSUME UNCHANGED <<user, led>> PROVE AdminLeft'
  BY <1>0, <1>a DEF AdminLeft, Admins, Of, IsRow
<1>b. ASSUME UNCHANGED request PROVE CountedAdmins'
  BY <1>0, <1>b DEF CountedAdmins
<1>1. ASSUME NEW t \in Tenants, NEW u \in Users, OnboardTenant(t, u) PROVE CountedAdmins' /\ AdminLeft'
  <2>1. u \in Admins(t)' BY <1>0, <1>1 DEF OnboardTenant, TenancyTypeOK, Admins, Of, IsRow
  <2>2. ASSUME NEW s \in Tenants, s # t, led'[s] = "led" PROVE Admins(s)' # {}
    <3>1. user[u] = Unborn BY <1>1 DEF OnboardTenant, NewUser
    <3>2. u \notin Admins(s) BY <3>1 DEF Admins, Of, IsRow, Unborn
    <3>3. Admins(s) \subseteq Admins(s)'
      BY <1>0, <1>1, <3>2, OthersStay DEF OnboardTenant, TenancyTypeOK
    <3>4. led[s] = "led" BY <1>0, <1>1, <2>2 DEF OnboardTenant, TenancyTypeOK
    <3> QED BY <1>0, <3>3, <3>4 DEF AdminLeft
  <2> QED BY <1>1, <1>b, <2>1, <2>2 DEF OnboardTenant, AdminLeft
<1>2. ASSUME NEW t \in Tenants, UpdatePlan(t) PROVE CountedAdmins' /\ AdminLeft'
  BY <1>2, <1>a, <1>b DEF UpdatePlan
<1>3. ASSUME NEW t \in Tenants, NEW h \in Handlers, DeleteTenantBegin(h, t)
      PROVE  CountedAdmins' /\ AdminLeft'
  BY <1>0, <1>3, <1>a, BeginCounted DEF DeleteTenantBegin
<1>4. ASSUME NEW by \in Users, NEW u \in Users, NEW role \in GivenRoles, AddUser(by, u, role)
      PROVE  CountedAdmins' /\ AdminLeft'
  <2>1. user[u] = Unborn BY <1>4 DEF AddUser, NewUser
  <2>2. ASSUME NEW t \in Tenants PROVE Admins(t) \subseteq Admins(t)'
    <3>1. u \notin Admins(t) BY <2>1 DEF Admins, Of, IsRow, Unborn
    <3> QED BY <1>0, <1>4, <3>1, OthersStay DEF AddUser, TenancyTypeOK
  <2> QED BY <1>0, <1>4, <1>b, <2>2, AdminsStay DEF AddUser
<1>5. ASSUME NEW by \in Users, NEW u \in Users, NEW role \in GivenRoles, NEW h \in Handlers,
             UpdateRoleBegin(h, by, u, role)
      PROVE  CountedAdmins' /\ AdminLeft'
  BY <1>0, <1>5, <1>a, BeginCounted DEF UpdateRoleBegin
<1>6. ASSUME NEW by \in Users, NEW u \in Users, NEW h \in Handlers, RemoveUserBegin(h, by, u)
      PROVE  CountedAdmins' /\ AdminLeft'
  BY <1>0, <1>6, <1>a, BeginCounted DEF RemoveUserBegin
<1>7. ASSUME NEW by \in Users, NEW t \in Tenants, NEW h \in Handlers, OnboardBegin(h, by, t)
      PROVE  CountedAdmins' /\ AdminLeft'
  BY <1>0, <1>7, <1>a, BeginCounted DEF OnboardBegin
<1>8. ASSUME NEW by \in Users, UpdateTenant(by) PROVE CountedAdmins' /\ AdminLeft'
  BY <1>8, <1>a, <1>b DEF UpdateTenant
<1>9. ASSUME NEW h \in Handlers, DeleteTenantCommit(h) PROVE CountedAdmins' /\ AdminLeft'
  BY <1>0, <1>9, <1>a, ReturnCounted DEF DeleteTenantCommit
<1>10. ASSUME NEW h \in Handlers, UpdateRoleCommit(h) PROVE CountedAdmins' /\ AdminLeft'
  <2> DEFINE r == request[h]
  <2>1. CountedAdmins' BY <1>0, <1>10, ReturnCounted DEF UpdateRoleCommit
  <2>2. CASE UNCHANGED <<user, led>> BY <1>a, <2>1, <2>2
  <2>3. CASE IsRow(r.target) /\ r.role # r.read.role
    <3>1. user' = [user EXCEPT ![r.target].role = r.role] /\ led' = Noted(r) /\ r.op = "role"
      BY <1>10, <2>3 DEF UpdateRoleCommit
    <3>2. r.target \in Users BY <1>0, <3>1, UserRequest
    <3>3. user'[r.target] = [user[r.target] EXCEPT !.role = r.role]
          /\ \A u \in Users : u # r.target => user'[u] = user[u]
      BY <1>0, <3>1, <3>2 DEF TenancyTypeOK
    <3> QED BY <2>1, <2>3, <3>1, <3>3, CommitLeaves
  <2> QED BY <1>10, <2>2, <2>3 DEF UpdateRoleCommit
<1>11. ASSUME NEW h \in Handlers, RemoveUserCommit(h) PROVE CountedAdmins' /\ AdminLeft'
  <2> DEFINE r == request[h]
  <2>1. CountedAdmins' BY <1>0, <1>11, ReturnCounted DEF RemoveUserCommit
  <2>2. CASE UNCHANGED <<user, led>> BY <1>a, <2>1, <2>2
  <2>3. CASE ~UNCHANGED <<user, led>>
    <3>1. user' = [user EXCEPT ![r.target] = Gone] /\ led' = Noted(r) /\ r.op = "remove"
      BY <1>11, <2>3 DEF RemoveUserCommit
    <3>2. \A u \in Users : u # r.target => user'[u] = user[u] BY <1>0, <3>1 DEF TenancyTypeOK
    <3> QED BY <2>1, <3>1, <3>2, CommitLeaves
  <2> QED BY <2>2, <2>3
<1>12. ASSUME NEW h \in Handlers, OnboardCommit(h) PROVE CountedAdmins' /\ AdminLeft'
  <2> DEFINE r == request[h]
  <2>1. CountedAdmins' BY <1>0, <1>12, ReturnCounted DEF OnboardCommit
  <2>2. CASE UNCHANGED <<user, led>> BY <1>a, <2>1, <2>2
  <2>3. CASE ~UNCHANGED <<user, led>>
    <3>1. /\ IsRow(r.by) /\ r.op = "onboard"
          /\ user' = [user EXCEPT ![r.by].tenant = r.of]
          /\ led' = IF user[r.by].role # "admin" THEN led
                    ELSE [led EXCEPT ![user[r.by].tenant] = "excused", ![r.of] = "led"]
      BY <1>12, <2>3 DEF OnboardCommit
    <3>2. r.of \in Tenants /\ r.by \in Users BY <1>0, <3>1, TenantRequest
    <3>3. user[r.by] \in Row BY <1>0, <3>1, <3>2, IsARow
    <3>4. user'[r.by] = [user[r.by] EXCEPT !.tenant = r.of]
          /\ \A u \in Users : u # r.by => user'[u] = user[u]
      BY <1>0, <3>1, <3>2 DEF TenancyTypeOK
    <3>5. CASE user[r.by].role # "admin"
      <4>1. \A t \in Tenants : r.by \notin Admins(t) BY <3>5 DEF Admins
      <4> QED BY <1>0, <2>1, <3>1, <3>2, <3>4, <3>5, <4>1, OthersStay, AdminsStay
    <3>6. CASE user[r.by].role = "admin"
      <4>0. PICK o \in Tenants, b \in Users : o = r.of /\ b = r.by BY <3>2
      <4>1. user'[b].tenant = o /\ user'[b].role = "admin" /\ o # None
        BY <3>3, <3>4, <3>6, <4>0 DEF Row
      <4>2. b \in Admins(o)' BY <4>1 DEF Admins, Of, IsRow
      <4>3. ASSUME NEW t \in Tenants, t # o, led'[t] = "led" PROVE Admins(t)' # {}
        <5>1. led[t] = "led" /\ t # user[b].tenant
          BY <1>0, <3>1, <3>3, <3>6, <4>0, <4>3 DEF TenancyTypeOK, Row
        <5>2. b \notin Admins(t) BY <5>1 DEF Admins, Of
        <5>3. Admins(t) \subseteq Admins(t)' BY <1>0, <3>4, <4>0, <5>2, OthersStay
        <5> QED BY <1>0, <5>1, <5>3 DEF AdminLeft
      <4> QED BY <2>1, <4>2, <4>3 DEF AdminLeft
    <3> QED BY <3>5, <3>6
  <2> QED BY <2>2, <2>3
<1>13. CASE UNCHANGED tenancyVars BY <1>13, <1>a, <1>b DEF tenancyVars
<1> QED
  BY <1>1, <1>2, <1>3, <1>4, <1>5, <1>6, <1>7, <1>8, <1>9, <1>10, <1>11, <1>12, <1>13
  DEF TenancyNext, Staff, Manage, Finish

\* A tenant that has had an admin has one, whatever its users and the staff do,
\* unless a request committed over another's change there or an admin moved away.
THEOREM AnAdminLeft == TenancySpec => []AdminLeft
<1>1. AdminInv => AdminLeft BY DEF AdminInv
<1> QED BY <1>1, AdminInit, AdminStep, PTL DEF TenancySpec
===============================================================================
