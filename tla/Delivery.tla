------------------------------- MODULE Delivery -------------------------------
(***************************************************************************)
(* Scheduled reports.  A tenant has one schedule: a cadence, the levels to *)
(* send, and when it runs next (routes/reports.py).  The engine takes the  *)
(* due ones a tenant at a time, stores and mails a report per level, and   *)
(* then moves the schedule on (services/report_delivery.py); "send now"    *)
(* does the same for its caller.  The row a delivery works with is the one *)
(* it loaded: every report is a commit of its own, but the row is not      *)
(* loaded again.                                                           *)
(***************************************************************************)
EXTENDS Access

CONSTANTS
  Clients,       \* tenants with a schedule
  Days,          \* days between two runs, per cadence
  Given,         \* the cadences requests ask for (TLC)
  MaxDay, MaxFaults  \* bounds on the clock and on what goes wrong (TLC)

ASSUME DeliveryAssumption ==
  /\ MaxDay \in Nat /\ MaxFaults \in Nat
  /\ Days \in [{"off", "weekly", "monthly", "quarterly"} -> Nat \ {0}]
  /\ Given \subseteq DOMAIN Days
  /\ "engine" \notin Handlers /\ None \notin DOMAIN Days \cup Nat

VARIABLES
  sched,         \* per tenant: its schedule; cadence None while it has none
  day,           \* the clock
  due,           \* what the engine's pass has still to look at
  delivery,      \* per worker: the delivery it is at, or the PATCH it has read
  sent,          \* history, per tenant and level: scheduled reports stored since
                 \* the schedule was moved
  faults,        \* interruptions so far
  spoilt,        \* history: those that hit a tenant's delivery since then
  crossed,       \* history: tenants whose schedule was written by a worker that
                 \* had loaded another one
  patched        \* how many changes there were

deliveryVars == <<sched, day, due, delivery, sent, faults, spoilt, crossed, patched>>

Workers == Handlers \cup {"engine"}
Levels == {"ciso", "engineer", "auditor"}
Schedule == [cadence : DOMAIN Days \cup {None}, levels : SUBSET Levels, next : Nat \cup {None}]
Known == {s \in Schedule : s.cadence # None}
NoSchedule == [cadence |-> None, levels |-> {}, next |-> None]
NewSchedule == [cadence |-> "off", levels |-> {"ciso"}, next |-> None]

\* What a worker is at: nothing, the levels it has still to deliver and whether
\* mails are due first, or the row a change has read and the one it will write.
Ready == [op |-> "ready"]
Deliveries == [op : {"deliver"}, of : Clients, row : Known, mail : BOOLEAN, todo : SUBSET Levels]
Patches == [op : {"patch"}, of : Clients, row : Known, new : Known]

DeliveryTypeOK ==
  /\ sched \in [Clients -> Schedule]
  /\ day \in 0..MaxDay /\ faults \in 0..MaxFaults /\ patched \in 0..MaxRequests
  /\ due \subseteq Clients
  /\ delivery \in [Workers -> {Ready} \cup Deliveries \cup Patches]
  /\ sent \in [Clients -> [Levels -> Nat]] /\ spoilt \in [Clients -> Nat]
  /\ crossed \subseteq Clients

DeliveryInit ==
  /\ sched = [c \in Clients |-> NoSchedule]
  /\ day = 0 /\ faults = 0 /\ patched = 0
  /\ due = {}
  /\ delivery = [w \in Workers |-> Ready]
  /\ sent = [c \in Clients |-> [l \in Levels |-> 0]]
  /\ spoilt = [c \in Clients |-> 0]
  /\ crossed = {}

Works(w, d) == delivery' = [delivery EXCEPT ![w] = d]

NextDay ==
  /\ day < MaxDay
  /\ day' = day + 1
  /\ UNCHANGED <<sched, due, delivery, sent, faults, spoilt, crossed, patched>>

\* Mutant: the schedule is due again at once.
ComputeNextRunNow(cadence) == day
\* Mutant: every cadence is the default of one that is not known.
ComputeNextRunOff(cadence) == day + Days["off"]
ComputeNextRun(cadence) == day + Days[cadence]

IsDueNow(c) ==
  /\ sched[c].cadence \notin {None, "off"}
  /\ sched[c].next # None /\ sched[c].next <= day

\* The row as it is when it is read, created where there is none: tenant_id is
\* unique, so that of two that create it one fails and changes nothing.
GetOrCreate(c) == IF sched[c].cadence = None THEN NewSchedule ELSE sched[c]

GetSchedule(c) ==
  /\ sched[c].cadence = None
  /\ sched' = [sched EXCEPT ![c] = NewSchedule]
  /\ UNCHANGED <<day, due, delivery, sent, faults, spoilt, crossed, patched>>

-------------------------------------------------------------------------------
(* Writing the row: what differs from what was loaded.                     *)

Merged(now, old, new) ==
  [ cadence |-> IF new.cadence # old.cadence THEN new.cadence ELSE now.cadence,
    levels  |-> {l \in Levels : IF (l \in new.levels) # (l \in old.levels)
                                  THEN l \in new.levels ELSE l \in now.levels},
    next    |-> IF new.next # old.next THEN new.next ELSE now.next ]

\* A worker that loaded old writes new.  Moving the schedule starts a period.
Write(c, old, new) ==
  /\ sched' = [sched EXCEPT ![c] = Merged(sched[c], old, new)]
  /\ crossed' = IF sched[c] # old THEN crossed \cup {c}
                ELSE IF new.next # old.next THEN crossed \ {c} ELSE crossed
  /\ IF new.next # old.next
     THEN /\ sent' = [sent EXCEPT ![c] = [l \in Levels |-> 0]]
          /\ spoilt' = [spoilt EXCEPT ![c] = 0]
     ELSE UNCHANGED <<sent, spoilt>>

\* An admin's change: a cadence is checked, and given it restarts the period,
\* the same one too; each level is a flag of its own.
SetScheduleBegin(h, c, cadence, flip) ==
  /\ delivery[h] = Ready /\ patched < MaxRequests
  /\ patched' = patched + 1
  /\ LET row == GetOrCreate(c)
         levels == (row.levels \ flip) \cup (flip \ row.levels)
     IN  /\ sched' = [sched EXCEPT ![c] = row]
         /\ Works(h, [op |-> "patch", of |-> c, row |-> row, new |->
              IF cadence = None THEN [row EXCEPT !.levels = levels]
              ELSE [cadence |-> cadence, levels |-> levels,
                    next |-> IF cadence = "off" THEN None ELSE ComputeNextRun(cadence)]])
  /\ UNCHANGED <<day, due, sent, faults, spoilt, crossed>>

SetScheduleCommit(h) ==
  LET d == delivery[h]
  IN  /\ d.op = "patch"
      /\ Write(d.of, d.row, d.new)
      /\ Works(h, Ready)
      /\ UNCHANGED <<day, due, faults, patched>>

-------------------------------------------------------------------------------
(* A delivery, by the engine or by a "send now".                           *)

Start(w, c, row) ==
  Works(w, [op |-> "deliver", of |-> c, row |-> row, mail |-> FALSE,
            todo |-> row.levels])

\* The levels are taken in this order.
NextLevel(todo) ==
  IF "ciso" \in todo THEN "ciso" ELSE IF "engineer" \in todo THEN "engineer" ELSE "auditor"
Without(d) == [d EXCEPT !.todo = @ \ {NextLevel(d.todo)}]

SendNow(h, c) ==
  LET row == GetOrCreate(c)
  IN  /\ delivery[h] = Ready /\ patched < MaxRequests
      /\ row.cadence # "off" \/ row.levels # {}
      /\ sched' = [sched EXCEPT ![c] = row]
      /\ patched' = patched + 1
      /\ Start(h, c, row)
      /\ UNCHANGED <<day, due, sent, faults, spoilt, crossed>>

\* A pass reads the due schedules, and reads each again before it delivers.
PassReads ==
  /\ delivery["engine"] = Ready /\ due = {}
  /\ due' = {c \in Clients : IsDueNow(c)}
  /\ due' # {}
  /\ UNCHANGED <<sched, day, delivery, sent, faults, spoilt, crossed, patched>>

\* Mutant: a schedule that has no level is passed over.
PassTakesSome(c) ==
  /\ delivery["engine"] = Ready /\ c \in due
  /\ due' = due \ {c}
  /\ IF IsDueNow(c) /\ sched[c].levels # {} THEN Start("engine", c, sched[c]) ELSE UNCHANGED delivery
  /\ UNCHANGED <<sched, day, sent, faults, spoilt, crossed, patched>>
PassTakes(c) ==
  /\ delivery["engine"] = Ready /\ c \in due
  /\ due' = due \ {c}
  /\ IF IsDueNow(c) THEN Start("engine", c, sched[c]) ELSE UNCHANGED delivery
  /\ UNCHANGED <<sched, day, sent, faults, spoilt, crossed, patched>>

Delivering(w) == delivery[w].op = "deliver"

\* The report of the next level is stored, with as many recipients as the
\* preferences name; the mails follow.
StoreReport(w) ==
  LET d == delivery[w]
  IN  /\ Delivering(w) /\ ~d.mail /\ d.todo # {}
      /\ Works(w, [d EXCEPT !.mail = TRUE])
      /\ sent' = IF w = "engine" THEN [sent EXCEPT ![d.of][NextLevel(d.todo)] = @ + 1] ELSE sent
      /\ UNCHANGED <<sched, day, due, faults, spoilt, crossed, patched>>

\* send_email never raises: sent or not, the next level is taken.
MailReport(w) ==
  LET d == delivery[w]
  IN  /\ Delivering(w) /\ d.mail
      /\ Works(w, [Without(d) EXCEPT !.mail = FALSE])
      /\ UNCHANGED <<sched, day, due, sent, faults, spoilt, crossed, patched>>

\* A report that cannot be built is logged and passed over.
SkipReport(w) ==
  LET d == delivery[w]
  IN  /\ Delivering(w) /\ ~d.mail /\ d.todo # {} /\ faults < MaxFaults
      /\ faults' = faults + 1
      /\ Works(w, Without(d))
      /\ UNCHANGED <<sched, day, due, sent, spoilt, crossed, patched>>

\* A failed commit leaves the session unusable: the rest fails with it, and
\* the schedule stays where it is.
StoreFails(w) ==
  LET d == delivery[w]
  IN  /\ Delivering(w) /\ ~d.mail /\ faults < MaxFaults
      /\ faults' = faults + 1
      /\ spoilt' = [spoilt EXCEPT ![d.of] = @ + 1]
      /\ Works(w, Ready)
      /\ UNCHANGED <<sched, day, due, sent, crossed, patched>>

\* The schedule moves on, by the cadence that was loaded.
DeliveryEnds(w) ==
  LET d == delivery[w]
  IN  /\ Delivering(w) /\ ~d.mail /\ d.todo = {}
      /\ Write(d.of, d.row, [d.row EXCEPT !.next = ComputeNextRun(d.row.cadence)])
      /\ Works(w, Ready)
      /\ UNCHANGED <<day, due, faults, patched>>

\* The backend stops and starts: only the rows are left.
StopsAndStarts ==
  /\ faults < MaxFaults
  /\ faults' = faults + 1
  /\ spoilt' = [c \in Clients |->
       IF \E w \in Workers : Delivering(w) /\ delivery[w].of = c THEN spoilt[c] + 1 ELSE spoilt[c]]
  /\ delivery' = [w \in Workers |-> Ready] /\ due' = {}
  /\ UNCHANGED <<sched, day, sent, crossed, patched>>

-------------------------------------------------------------------------------
WorkerStep(w) ==
  \/ StoreReport(w)
  \/ MailReport(w)
  \/ DeliveryEnds(w)

EngineStep == PassReads \/ (\E c \in Clients : PassTakes(c)) \/ WorkerStep("engine")

DeliveryNext ==
  \/ NextDay
  \/ EngineStep
  \/ \E w \in Workers : SkipReport(w) \/ StoreFails(w)
  \/ \E h \in Handlers : WorkerStep(h) \/ SetScheduleCommit(h)
  \/ \E c \in Clients :
       \/ GetSchedule(c)
       \/ \E h \in Handlers : SendNow(h, c)
       \/ \E h \in Handlers, cadence \in Given \cup {None}, l \in Levels, keep \in BOOLEAN :
            SetScheduleBegin(h, c, cadence, IF keep THEN {} ELSE {l})
  \/ StopsAndStarts

\* The loop runs, and goes on after what failed; no request need be made.
DeliveryFairness == WF_deliveryVars(EngineStep)
DeliverySpec == DeliveryInit /\ [][DeliveryNext]_deliveryVars /\ DeliveryFairness

-------------------------------------------------------------------------------
(* Properties.                                                             *)

\* In one period the engine stores a level's report once, and once more for
\* every delivery that was cut short before it moved the schedule (report_
\* delivery.py, lines 44-69: the reports are committed first).
OncePerPeriod ==
  \A c \in Clients, l \in Levels : sent[c][l] <= 1 + spoilt[c]

\* A schedule in force runs within its period, unless it was written over a
\* change the writer had not seen: the delivery computes the next run from the
\* cadence it loaded, which for "off" is ten years away (line 68).
RunsWithinPeriod ==
  \A c \in Clients :
    sched[c].cadence \notin {None, "off"} /\ c \notin crossed =>
      sched[c].next # None /\ sched[c].next <= day + Days[sched[c].cadence]

\* A due schedule does not stay due: it is delivered, or changed.
DueIsDelivered == \A c \in Clients : IsDueNow(c) ~> ~IsDueNow(c)
===============================================================================
