# A verification project for GRCBridge

TLA+ models of the parts of this repository whose correctness depends on more
than one request, thread, message or run of the program; TLC runs over small
instances of them; and TLAPS proofs that hold for every value of their
constants. Paths below are relative to the repository.

## 1. The system

A compliance platform, in four programs.

* **Platform** (`backend/app`): FastAPI on one event loop, SQLAlchemy sessions,
  SQLite by default and PostgreSQL in production. Handlers are coroutines:
  between two awaits they are alone, across an await anything else may run.
  Two background activities live in the same process: the scans of connectors
  and the scheduling engine.
* **Collector** (`collector/codecore_collector`): a daemon in the customer's
  network. Agents hand it scan results; it queues them in SQLite and sends them
  to the platform.
* **Agents** (`agent-linux`, `agent-windows`): scan a host, hand the result to
  the collector.
* **Console** (`frontend`): presentation only.

| Component | State | Operations | Hard because | Correct if |
|---|---|---|---|---|
| Collector relay (`engine`, `queue`, `inbound`, `ape_client`) | SQLite rows; thread state | accept, enqueue, drain, answer, stop | inbound threads against the main loop; lost, late and repeated requests; crash between answer and delete | nothing accepted is lost, order is kept, repeats are explained, no accepted result waits for ever |
| Agents and the collector's registry (`agent`, `collector_client`, `agent_registry`) | token in memory, token file, registry rows | enroll, save, scan, submit, re-enroll | answers that are not heard, a file half written, a registry set up anew | one row per token that was not lost; every agent ends up enrolled |
| Scanners and parsers (`scanners`, `connectors/*`) | the document of a host, records, findings | collect, upload, assess, merge, simulate | settings that cannot be read; records in any order; a key file for half an hour | what is reported is what there was to report |
| Scan jobs (`collector_ingest`, `collector_admin`) | `scan_jobs`, collectors, agents | queue, poll, submit, delete | overlapping polls, lost answers, a re-scan of the connector with the job's number | tenants stay apart, a job done has findings unless a re-scan cleared them, a job is handed out once |
| Connectors and findings (`connectors`, `tickets.create_ticket`) | connectors, events, tickets | add, scan, remove, raise a ticket | a background scan against ticket requests | findings do not accumulate, a ticketed finding keeps its ticket and stays |
| Tickets (`tickets`, `ai`) | one row with JSON lists, files on disk | move, comment, upload, enhance | read, await, write back | approval before acceptance, no comment or file lost but to one posted beside it |
| Scheduling (`scheduler`, `scheduler_engine`) | asset groups, jobs | create, change, scan, delete; the pass | pass against requests; failing commits; time | due groups run, once, in their tenant, at the right time |
| Report delivery (`report_delivery`, `reports`) | schedules, reports | deliver, send now, configure | commits and mails before the schedule moves; a stale cadence | each period delivered once, and delivered |
| Evidence and control status (`evidence`) | evidence, files, status | upload, attest, delete, recompute, decide | the recomputation is a transaction of its own | status agrees with evidence and decision; a document has its file |
| Posture (`governance`, `snapshot_service`, `reports_service`, `auditor`) | snapshots, reports | view, freeze, report | many reads while findings move; rounding | figures are of the reads, and of one moment if nothing moved |
| Frameworks (`frameworks_admin`, `framework_store`) | frameworks, controls | seed, create, import, edit, delete | a key looked up before the insert; a global copy anyone edits | keys distinct, built-ins there once |
| Policies (`policies`, `policy_engine`) | policies with status and text | create, evaluate, delete | an evaluation reads in two queries; overlapping ones write only what differs | the status is a verdict reached in the evaluation's time |
| SOC 2 readiness (`soc2`) | one row, its criteria | set up, update, view | every request recomputes and writes the figure | one readiness, whose figure is its criteria's |
| Tenants, users, staff (`platform`, `tenants`, `tenant_users`) | tenants, users, billing, staff | onboard, plan, delete, add, role, remove | check-then-act on counts; a deletion that leaves rows | an admin and a super admin are left |
| Access (`tenant_guard`, `platform_security`) | none | the guard of a capability | used by every route | a role may do what its table says (a part of the requests' guards) |
| Live events (`main.ConnectionManager`) | sets of sockets | connect, broadcast, disconnect | the sets change across awaits | a tenant's open sockets get its events, and only they |

They meet in these places: agents hand results to the relay's inbound handlers;
the relay calls `submit_results`; `submit_results`, connectors and tickets share
the findings; the engine, the console and `poll_jobs` share the jobs; a scan's end
is broadcast to sockets; findings and frameworks give the posture, of which
reports are made; evidence and open findings give a control its status.

**How the database is modelled.** A handler's session writes, at flush, only the
columns whose value differs from what it loaded, by primary key, and nothing
checks that the row is still as it was loaded. Two consequences run through all
the modules: the later of two overlapping writers wins for the columns it
changed, and a mutable JSON value that was changed in place is equal to what was
loaded and is *not* written. Updating a row that another transaction deleted
raises (`StaleDataError`) and rolls back. Foreign keys are a constant
(`EnforceFK`): PostgreSQL enforces them, SQLite as configured here does not.
An UPDATE may go to the database at an earlier query of its transaction
(autoflush) and then keep others off the row until it ends; the models let it go
at the commit, which allows more orders.

**Ids are used once** in every model. SQLite may give the id of a deleted last row
again, and what follows from that is not modelled: after the tenant with the
highest id was deleted, staff cannot onboard another, since the billing row it
left has the new tenant's id (`billing.tenant_id` is unique); a tenant a user
onboards for himself takes that id with the users, the evidence and the billing
row that were left; and a policy deleted during an evaluation and made anew with
its id would be given the other's verdict.

**Merge markers.** `main.py` (9-13, 103-107), `core/database.py` (32-36) and
`services/scheduler_engine.py` (98-109) contain unresolved merge markers, so
those files do not even import. The HEAD side is modelled, the other one being
a subset of it.

## 2. The modules

### `Relay`, with `RelayService`, `MCRelay`, `Relay_proofs`

The daemon. `engine` is the main thread's position in `engine.run` and
`_drain_queue` (`engine.py:45-126`); `Receive` and `Enqueue` are the two halves
of an inbound handler, since `enqueue` reads the clock before the INSERT commits
(`queue.py:46-54`) and `pending` orders by that time (`queue.py:56-66`).
`Submit`, `Handle`, `Answered`, `MarkUploaded` and `SubmitFailed` are one
submission; `Timeout` leaves an *orphan*, a request that may still be applied
or be lost. `Crash` forgets everything but the rows; `Stop` is the signal
handler; `Garble` is an intermediary answering 200 with something that is not
JSON, which `_drain_queue` takes for a 404 (`engine.py:120`).

`RelayService` is the promise without the machinery: accepted results are
pending until delivered or refused, in order. `ImplementsService` maps
`pending` to the rows not delivered yet, so a repeated delivery is a stutter.

### `ScanJobs`, with `MCScanJobs`, `ScanJobs_proofs`

The `scan_jobs` table. `PollRead` and `PollCommit` are the two sides of the
awaits in `poll_jobs` (`collector_ingest.py:77-98`), `PollCommitLost` the same
commit with its answer lost; `SubmitRead`, `SubmitStore`, `SubmitUnparsable`
and `SubmitDropped` are `submit_results`. Deletion of a collector runs in
between. Findings of a job are known by the report they came with (`rows`,
`stored`): `RescanRead`, `RescanCommit` and `RescanAbort` are the scan of a
connector as far as it touches them, since it clears by connector id and
`submit_results` stores the job's id in that column. `before[p]` is what had been
handed out when the query of poll `p` was made. Nothing is said of what becomes of
a pending job: no program of the repository polls, see section 5.

### `Findings`, with `MCFindings`, `Findings_proofs`

Findings, connectors and the raising of tickets. `ScanRead` is the query of the
findings to clear, made when the scanner has returned, and `ScanCommit` the commit
that deletes them and stores the new ones; the scanner's run of minutes is between
`ScanStart`, which commits "scanning", and `ScanRead` (`connectors.py:101-192`).
`DraftRead`, `DraftCount`, `DraftCommit` and `DraftLink` are `create_ticket`
with its query, its count and its two commits (`tickets.py:62-114`); the texts
come from a template. `counted[k]` are the tickets that were counted for the
number of `k`.

### `TicketFlow`, with `TicketWorkflow`, `MCTicketFlow`, `TicketFlow_proofs`

One ticket. Every request is a read and a commit; `SaveHistory` is the in-place
append that is never written. `TicketWorkflow` is the ticket one believes to
have: moves along `VALID_TRANSITIONS`, comments and evidence that stay. With one
request at a time `TicketFlow` implements it; with two it does not. What two
leave is said by `beside[x]`, the posts that were in progress while `x` was.

### `NextRun`

`_next_run` (`scheduler.py:46-79`) as a pure function of a plan and an instant.
Months are a table of first days, which hides leap years; `IsFirstAfter` is the
reference definition: the least instant of the plan after now. `MCScheduler`
assumes `NextIsFirst` over every daily, weekly and monthly plan and every
instant of five months with a leap February, and TLC evaluates it.

### `Scheduler`, with `MCScheduler`, `Scheduler_proofs`

Asset groups and the engine. `PassBegin` loads the due groups, `PassResolve`
treats one of them, `PassCommit` or `PassRefused` ends the pass
(`scheduler_engine.py:36-110`); `UpdateRead`, `ScanRead` and `RequestCommit` are
the console's requests; groups and agents are deleted in between. `Merge` is
what an UPDATE leaves of a row. The clock is a day and a time of day and may
advance between any two steps. A schedule is any string (`scheduler.py:32`): the
kind `other` stands for those the code does not know, which make their group due
at every pass; what such a pass queues is no run of the history.

### `Access`, `Tenancy`, `Team`, with `Platform_proofs`

`Access` is the capabilities of a tenant's roles and of the staff's, as the two
tables of the code, which guard the requests of `Tenancy` and `Team`. Passwords,
tokens and the ownership query keep no state and are not modelled. The requests
are a `Begin`, with everything read and checked, and a `Commit` in a later step:
adding, demoting and removing users (`tenant_users.py`), onboarding by staff and
by a user who moves to a tenant of his own (`platform.py`, `tenants.py`), plans,
and the deletion of a tenant, which the database refuses where foreign keys are
enforced and rows still refer to it. `led` and `raced` remember where a request
has committed over another's change.

### `Delivery`, with `Platform_proofs`

Scheduled reports. A worker is the engine's pass or a request. `PassReads` and
`PassTakes` load the due schedules, `Start` begins a delivery with the row as it
was loaded, `StoreReport` commits a level's report and `MailReport` sends it,
`DeliveryEnds` writes the next run from the cadence that was loaded;
`SkipReport` and `StoreFails` are a level that fails and one that breaks the
delivery; `SetScheduleBegin`, `SetScheduleCommit` and `SendNow` are the console's
requests. `StopsAndStarts` is a restart between any two steps. `sent` counts a
period's reports of a level, `spoilt` and `crossed` what was cut short and what
was overwritten.

### `Controls`, with `Platform_proofs`

Evidence and the status derived from it. A request commits its evidence, or the
deletion of one, and then `RecomputeRead` and `RecomputeCommit` follow in a
transaction of their own (`evidence.py:233-275`); `UpdateControlRead` and
`UpdateControlCommit` are a reviewer's decision; files come before rows.
`Store` writes only the column that differs from what was loaded. `doubt`
remembers the controls a request wrote over another's change, or was stopped at.

### `Notifier`, with `Platform_proofs`

`ConnectionManager`. A broadcast goes through its tenant's *set object*, which
others change, and puts a new set in its place at the end (`main.py:34-45`).
While the object is still the tenant's the broadcast sees it change, and raises
if its size did; once another took its place the broadcast is alone with it.

### `Agents`, with `Platform_proofs`

The agents' life and the registry they report to: `StartAgent`, enrollment with
an answer that arrives, is not heard or is not sent, `SaveToken`, submissions
accepted, lost or refused for an unknown token, re-enrollment from the loop or
at the next tick of a timer, a host that stops at any step and may leave the file
empty, a registry set up anew (`RegistryLost`).

### `Frameworks`, `Settings`, `Assessment`, with `Governance_proofs`

From a host to findings. `Frameworks` is the table of controls in the code.
`Settings` has, per system, the settings a check looks at with the controls it
maps to, what the agent's scanner puts into its document of settings that are
weak or cannot be read (null, absent, a zero, a transaction that is aborted), and
what the platform makes of the document. `Assessment` has the steps around them:
a scan on a host, an upload, the simulator, a firewall's rules, and Prowler's and
OpenSCAP's records, taken in one after the other and merged by check and
resource; and the key file of a service account.

### `Posture`, with `Governance_proofs`

A view, snapshot or report in progress: frameworks first, then per framework its
controls and then the findings (`governance.py:82-144`), while findings open and
close and controls are edited between the reads. `moments` is what the state was
at each read. `Full` and `Rows` round as the code does, a tie going either way.
`PassOver` skips a selected framework that is not there
(`reports_service.py:31-34`).

### `Catalog`, with `Governance_proofs`

Frameworks and their controls: what a release's startup adds, a tenant's own
frameworks with the key looked up before the insert and stamped with the second
if taken, imports, edits and deletions, each a read and a commit.

### `Policies`, with `Governance_proofs`

Creation, evaluation of one policy or of all, deletion. An evaluation goes through
the rows it loaded in some order, and for each reads the connectors (`Turn`) and,
in a query of its own, the events (`Judge`); `worlds` is what connectors and scans
had left at each moment, and a row's `basis` says which of them its verdict is of.
`Verdict` is `evaluate_policy` for each mode and `Matches` its ten operators. A
value has a text and a number: no number counts 0, and what is not there (`Null`)
is the text "none" too; `PartOf` says which text contains which. The stored text is
abstracted to the verdict it words. `Kept` is what an UPDATE leaves of a row when
only the columns that differ from the loaded ones are written.

### `Readiness`, with `Governance_proofs`

SOC 2: `SetupBegins`, `SetupClears` and `SetupCommits` replace a tenant's
criteria, `UpdateBegins` and `UpdateCommits` set one, and `SummaryReads` and
`SummaryKeeps` are the figure every request ends with, and writes.

### `MCPlatform`, with `MCPlatform_proofs`

Composes the eleven parts above, from `Tenancy` to `Readiness`. They share no
state: no step of one reads a variable another writes. A behaviour of the whole is
one of each beside the others', and so `part` chooses which of them moves instead
of interleaving what is independent; the run explores the union of the parts and
not their product. The parts that do interact are composed where they do:
findings, scans and tickets in `Findings`, engine, requests and jobs in
`Scheduler`, relay and platform in `Relay`, agents and registry in `Agents`, the
engine's pass with the requests on schedules in `Delivery`.

## 3. The runs

| Run | Instance | What it shows |
|---|---|---|
| `relay_safety` | three results, batches of two, two interruptions anywhere | nothing accepted is lost, order is kept, repeats are bounded by unheard answers, the relay implements `RelayService` |
| `relay_live` | one result of each kind, batches of one, an intermediary that garbles, one interruption | a result with no malformed one before it leaves the queue |
| `relay_poison` (violated) | a malformed result and a good one | the good one is never forwarded |
| `jobs` | two tenants, two overlapping polls and submissions, a lost answer, deletions, two reports of a job, re-scans of a connector with its number | tenants stay apart, a job is handed out twice only by overlapping polls, a job done has its findings until a re-scan of the connector with its number, which takes none stored after its query |
| `findings_fk` | foreign keys, two scans and two ticket requests that overlap, a crash | ticketed findings have their tickets and stay, links are right, a ticket's number is above those its request counted |
| `findings_live` | no foreign keys, a real and a simulated connector, one scan and one ticket request at a time, a crash | no accumulation, a connector leaves "scanning" |
| `findings_ticketed` (violated) | no foreign keys, one scan and one ticket request | a finding ticketed while a scan runs is deleted |
| `ticket_overlap` | two overlapping requests of any kind | approval before acceptance, no evidence entry without file, the audit log tells the status, a post is lost only to one made beside it and answered later |
| `ticket_single` | one request at a time | the ticket implements `TicketWorkflow` |
| `scheduler` | two groups listing an agent of another tenant, on manual, on two daily schedules or on another string, a request beside the engine, deletions, a crash, three instants of one day | tenants stay apart, no due instant runs twice, the next run fits the schedule, a due group is served or moved on; the calendar's months are checked before it (`NextRun`) |
| `scheduler_due` (violated) | one group | a PATCH of a due group drops its due run |
| `platform` | the eleven parts of `MCPlatform`, one at a time | see the table below |

The properties of `platform`:

| Property | Part and instance | What it says |
|---|---|---|
| `AdminLeft` | tenancy: two tenants, three users, two overlapping requests | a tenant that has had an admin has one, but for a commit over another's change or an admin who moved away |
| `SuperLeft` | team: three members, two overlapping requests | a super admin is left, but for a commit over another's change |
| `OncePerPeriod` | delivery: one tenant, three days, two requests, one fault | each level is stored once a period, and once more per delivery cut short |
| `RunsWithinPeriod` | delivery | a schedule in force runs within its period, unless it was overwritten |
| `DueIsDelivered` | delivery, with fairness | a due schedule does not stay due |
| `StatusAgrees` | controls: one control, two pieces of evidence, three requests in two slots, one break | a control at rest has the status its evidence, open findings or reviewer give it; handled findings do not count, see section 5 |
| `FilesThere` | controls | a document's file is there, but for a deletion begun or failed |
| `SocketsServed` | notifier: two sockets, two tenants, two broadcasts | events reach their tenant's sockets alone; an open socket stays in the set |
| `EnrollmentsExplained` | agents: one with a timer, one in a loop, two mishaps | one row per host and per lost token; a token on disk is known |
| `EveryAgentEnrolls` | agents, with fairness | every agent comes to have a token the registry knows, or has ended in its loop |
| `ScansFaithful` | assessment: every system, any one weak and one unreadable setting, two records, two rules | every readable gap is reported, records merge in any order, the mappings asked for are kept, no key is left |
| `PostureFaithful` | posture: two frameworks sharing a control, two findings, one change in between | each row is of what was read; a report nothing changed under is that moment's |
| `CatalogSound` | catalog: two tenants, two releases, three requests in two slots | keys are distinct, a built-in is there once, a tenant's framework is its own |
| `PoliciesHonest` | policies: two policies, three rules, a connector, two overlapping evaluations, two changes of what scans left | status and text tell the verdict of connectors and events read in this order within the evaluation; manual ones are never attested |
| `ReadinessTold` | readiness: two criteria, three requests in two slots | one readiness, whose figure is what its criteria give |
| `TypesOK` | all | every part's state is within its types |

Where a property has an exception, what the exception costs is in section 5: the
exceptions are history variables set by the very step that does the damage, so
that any *other* way to it is still a violation.

The three rules are a manual policy, one over open findings and one `contains
"none"`, which an absent field matches; the other operators are covered by the
proof, which holds for any rule and value. Two changes are what a verdict of no
single moment takes: a connector is read, then removed (without foreign keys while
a scan of it runs), and a finding of it stored before the events are read; the
policy fails by what was never there at once.
The second of them comes while a policy's id is left (`ScansChange`), to keep the
state space finite.

**Bounds.** Two of everything is enough for the interference there is: every
hazard in `PROJECT.json` is between a writer and one other actor, plus an
interruption. Three results and batches of two let a row be inserted behind, in
and after a batch. Interruptions, lost answers, crashes and requests are counted
(`MaxFaults`, `MaxLosses`, `MaxCrashes`, `MaxRequests`, `MaxChanges`, `MaxRuns`,
and in `Platform.cfg` `MaxReviews`, `MaxBreaks`, `MaxScans`, `MaxMishaps`,
`MaxMoves`, `MaxEdits`, `MaxEvaluations`, `MaxScanned`, `MaxAsks`) to keep the
state space finite; ids of findings, tickets, groups, users and tokens run out.
With three users an admin can be demoted by a second and removed by a third;
three days let a weekly schedule (one day here) run, be missed and run again,
with "off" nine days away, beyond `MaxDay`; three edits let two tenants create a
framework of one name and a third request come after; two scans per agent run
let the first be refused and the second not begin. The calendar's lengths stand
for those of the code in their order. That is why some runs may stop, which
their `.cfg` says.

**Fairness.** `Relay`: the process is scheduled and restarted (`restart:
unless-stopped`), and the platform answers what reaches it; agents,
interruptions and the operator are not fair. `Findings`: a background scan ends.
`Scheduler`: the loop's steps, nothing of the console or the clock. `Delivery`:
the engine's loop goes on (`scheduler_engine.py:86-110` catches what a pass
raises, compose restarts the process); no request is fair, and faults are
finite. `Agents`: each agent's steps, since a timer ticks, the loop runs and a
collector that is up answers (`codecore-agent.service`, `codecore-agent.timer`);
mishaps are not fair.

**Mutants.** Every property has a mutant, a plausible bug in a mapped
definition (marked "Mutant" beside it), under which TLC finds it violated.

## 4. The proofs

All are checked by TLAPS with no assumption but the `ASSUME`s of the modules,
which TLC evaluates on the instances.

* `Relay_proofs`: `IndInv` is inductive, and with it `TypeOK`, `NothingLost`
  (when nothing but the platform answers), `InOrder`, `DuplicatesExplained`, and
  the implementation of `RelayService`. None of them is inductive alone. Order
  needs to know that the list being drained contains every older row (`Ordered`);
  the bound on repeats charges each request, in flight or orphaned, to a
  submission that ended unheard, except one while the row exists (`Counted`).
* `ScanJobs_proofs`: `IsolationInv` extends tenant isolation to polls and
  submissions in progress. `FindingsInv` adds to `DoneHasFindings` that a re-scan
  clears only what it selected, all of it stored before; `HandedInv` to
  `HandedOutOnce` that a job once handed out is never pending again, although it
  may go from done back to dispatched.
* `Findings_proofs`: `TicketInv` ties what a ticket request has read to the
  tickets there are; where foreign keys are enforced it contains
  `TicketsKeepFinding`. Where scans do not overlap (`Scans = {one}`),
  `OneScanShown` needs `Selected`: a scan that has read its selection still has
  in it every finding its connector shows, since only a scan adds to them. Without
  this hypothesis it is false (section 5). `NumbersRise`, for any overlap, needs
  `Numbered`: no number given exceeds the number of tickets, and those a request
  has counted are at most its count.
* `TicketFlow_proofs`: `FlowInv` remembers that the status loaded allowed the
  move and that an accepted ticket had its approver; `AuditTellsStatus` is
  inductive with it. `PostsKept` holds for any number of overlapping requests, by
  `KeptInv`: a list a request has loaded has every answered post, but for those it
  was made beside, and those that were overwritten already. Only the
  implementation of `TicketWorkflow` assumes one request slot, and rests on
  `FreshInv`: the request in progress has loaded what is there.
* `Scheduler_proofs`: `NextFirst`, for every plan, instant and table of months in
  which months have 28 days or more and cover the days. `JobsStayInTenant` from
  an invariant of the jobs of passes
  and requests that have not committed. `RunsOnce` and `NextFitsPlan` from
  `RunInv`, whose point is that a pass or request still has the row it loaded
  unless another writer had it too (`raced`), so that its UPDATE leaves what it
  computed, and that a computed next run is later than every instant served,
  which is `NextFirst`. A group may have any other schedule string meanwhile: its
  passes count no run, and a schedule the code knows, once it is set again, gives
  a next run after now and so after those served.
* `Platform_proofs`, for tenants: the invariants of `Tenancy` and `Team`. That
  an admin is left is not inductive: a request commits on what it counted when
  it began. `CountedTwo` and `CountedAdmins` say that what it counted were two,
  and that, unless someone's change was committed over, they are still there.
  For scheduled reports: `PeriodInv` charges each report of a level to the
  delivery in progress or to one that was cut short, for every delivery that
  holds a due row; `WithinInv` says that a change not yet committed either
  leaves the next run it loaded or has one within its cadence. For evidence:
  `FilesInv` (what a request rests on, items used once) and `StatusInv`, which
  says of every control in progress that whoever will write its status has
  loaded what is there, or has been overtaken. For live events: `SocketsInv`,
  that a broadcast has seen and still has sockets of its tenant only, and that
  those it found dead are not open. For agents: `EnrollInv`, that a registry row
  is either carried by its host, in the file or about to be written, or counted
  as lost. Numbers of tenants, days, requests, controls, sockets, broadcasts,
  hosts and mishaps are arbitrary.
* `Governance_proofs`, for policies: `PoliciesInv` says of a row an evaluation
  has loaded that it is the stored one or older (`writes` tells), of the same
  mode unless it was deleted, and of a verdict that the evaluation's rule gives
  it from the connectors of its first read and the events of its second, both
  made since the evaluation began and in this order. A commit over an older copy
  is `muddled`; one over the stored row leaves status and text of one verdict.
  For readiness: ids are given once, so that a setup whose row is still there
  has read the statuses that are there (`SetupsSound`), and a figure that does
  not agree has a request under way that will mend it (`FigureMended`). For
  frameworks: `EditSound`, what a request has read of the rows still there; a
  key it found free is free of those it has seen. For posture: `RowsRead` and
  `AtFramework` tie each row, and the controls read for the next, to moments the
  report has passed through; `Walked` says that the frameworks there were have a
  row or are still to come, so that a report nothing changed under is complete.
  For assessments: the findings are at each record the merge of the records
  taken so far (`MergedByRecord`), which needs no induction over their list
  because each step adds one; and for each table of `Settings`, of each system,
  that a weak setting gives the controls of its check and a good one none, which
  a host's document is then shown to keep.
* `MCPlatform_proofs`: `Composition`, that the whole does for each part what that
  part does alone, since no move of one changes another's variables. With it,
  `PlatformTypes` (`TypesOK`) and `PlatformSound` (the thirteen other invariants
  that `platform` checks) follow from the parts. The types need lemmas of
  their own: that a policy is written no more often than requests have ended
  (`WritesCounted`), that a rounded share is at most 100 (`FiguresTyped`).

What these proofs ask of the constants: that the sets the code counts or numbers
are finite (criteria, control names, the keys of a release, the controls of the
code), and for `Platform_proofs` as much of sockets and users.

Every invariant and every action property that a run checks has its theorem, as
has each refinement. Only model-checked are the liveness properties
(`UnblockedSettles`, `ScanningEnds`, `DueSettles`, `DueIsDelivered`,
`EveryAgentEnrolls`), since the prover does neither fairness nor ENABLED;
`Composition` therefore says of `Delivery` and `Agents` that their steps are
kept, not that their fairness is.

## 5. What the models say of the code

Three disagreements have a run and are findings of `PROJECT.json`: a result the
platform refuses blocks those behind it (`relay_poison`); a re-scan deletes a
finding that was ticketed meanwhile where no foreign keys are enforced
(`findings_ticketed`); changing a due group drops its run (`scheduler_due`).

Others follow from the same models and are stated here only:

* `engine.run` never calls `ApeClient.poll_jobs` (`ape_client.py:67`), and no other
  program of the repository does: with the collectors as shipped no job leaves
  `pending`, although `collector_admin.py:153-154` and `167` announce "its next
  poll".
* A poll commits `dispatched` before its answer arrives; when that is lost the
  job stays there (`collector_ingest.py:90`). Of two overlapping polls the
  slower one sets a job that is done back to `dispatched` (line 97). Any
  collector of the tenant is handed any of its jobs (line 82).
* A 200 answer that is not JSON drops the row (`engine.py:120`).
* Overlapping scans of a connector both clear the same findings and both store
  theirs (`connectors.py:150`). A scan clears by connector id, and
  `submit_results` stores the *job's* id in that column (`collector_ingest.py:129`):
  a re-scan of connector n deletes the open findings of job n, of whatever tenant
  the job is: the exception of `DoneHasFindings`. The job stays done.
* A scan whose last commit is refused leaves its connector `scanning`
  (`connectors.py:174`), the exception of `ScanningEnds`.
* Ticket references are counted, so two overlapping requests issue the same one
  (`tickets.py:84`). Two overlapping moves both pass the check (`tickets.py:132`).
  Of two comments or two files posted at once one entry is lost
  (`tickets.py:189`, `222`), the exception of `PostsKept`.
* A status change leaves no entry in a ticket's history (`tickets.py:144-147`):
  the loaded list is appended to in place, so nothing is written.
* A schedule is any string (`scheduler.py:32`). With one that is not of the four
  `_next_run` returns today's time (`scheduler.py:79`): once that has passed the
  group is due at every tick and its jobs are queued each time.
* A pass writes its next run over that of an update that committed meanwhile
  (`scheduler_engine.py:77`), the exception `raced` of `RunsOnce` and
  `NextFitsPlan`.

Of the parts in `MCPlatform` (the exceptions of their properties, and what the
types and tables show):

* *Reports.* A delivery that began before a PATCH computes the next run from the
  cadence it loaded and writes it over the new one; from "off" that is ten years
  (`report_delivery.py:20-28`, `68`). A PATCH of the same cadence postpones the
  run. The stored report says it was mailed to all recipients before any mail is
  sent (`report_delivery.py:47-50`). Two first requests of a tenant: the second
  insert is refused by the unique column and answers 500, nothing lasts.
* *Evidence.* "A handled technical finding" moves a control towards satisfied,
  and findings that are "all ticketed/closed" count "as technical coverage"
  (`evidence.py:234-236`, `245-247`); the code below looks for open findings and
  for evidence alone (`evidence.py:267-274`), so that a control whose findings
  are all handled stays `not_started`. `StatusAgrees` is what the code does. Two
  first recomputations of a control leave two `ControlStatus` rows, which no
  constraint forbids, and every later one raises (`evidence.py:257`). No status
  looks at `valid_until`. An `os.remove` whose commit then fails leaves a
  document without a file.
* *Tenants.* Deleting one answers "and all data deleted" (`platform.py:239`);
  users, billing, collectors and evidence stay, so that PostgreSQL refuses it
  and SQLite leaves them behind; no property says more. `update_plan` of a
  tenant that is not there leaves a billing row. Onboarding one's own tenant
  moves an admin away from the old one (`tenants.py:39-43`). No guard reads a
  tenant's status `suspended`. Of two admins or two super admins that demote
  each other none is left. A role committed late is written to a user who has
  moved on.
* *Live events.* A socket stays bound to the tenant its user had when it connected.
  A broadcast overtaken by another puts an older set back (`main.py:45`); a set
  that changes size raises, and the scan drops the rest of its events.
* *Agents.* An agent in its loop ends when a re-enrollment fails, since nothing
  catches it (`agent.py:102-108`). Every enrollment adds a row.
* *Scanners.* The checks name controls that the frameworks do not have: PCI DSS
  4.2.1 for 4.2, NIST `pr_ac_1` for `PR.AC`, ISO A.8.2, A.8.3, A.8.9, A.8.16 and
  A.8.22; findings of a scan made for PCI DSS or the NIST CSF show in no
  framework's posture. Where `pg_hba_file_rules` may not be read the whole scan
  fails, though the comment says "not readable; leave unknown"
  (`agent-linux/codecore_agent/scanners/__init__.py:135`): the next query finds the
  transaction aborted. The SQL Server scanner asks for neither forced encryption
  nor login auditing. Two firewall rules of one name are one finding. The MySQL and
  SQL Server connectors, run on the platform, use the simulator.
* *Posture.* A snapshot is "a faithful freeze" (`snapshot_service.py:4-6`) of
  reads that may be of several moments; a framework deleted between them counts
  0 of 0. From 200 controls on one failing control is shown as 100 %. The
  executive figure is a rounded mean of rounded percentages
  (`reports_service.py:67`): no property constrains it beyond its definition
  (`Overall`). The audit report counts by the frameworks in the code, not by the
  tenant's. Versions are always empty: what `get_framework` returns has none.
  `governance.py` raises an `HTTPException` it does not import.
* *Frameworks.* Two requests within one second can give two frameworks one key, and
  a later release may bring a key a tenant has taken. Any tenant can edit and delete
  the controls of a built-in (`frameworks_admin.py:45-53`). Two overlapping imports
  that replace leave both sets. The industry "government" suggests `fedramp`, which
  is no framework (`definitions.py:165`).
* *Policies.* A field that is absent counts as 0 and as the text "none"
  (`policy_engine.py:18-24`, `39-43`): `contains "no"`, `equals "none"` and `gte
  0` fail a policy by an event without the field. Connectors and events are read
  by two queries (`policy_engine.py:73-91`, `110-121`), and a verdict may belong
  to no single moment. A rule looks at closed findings too, and at all the
  tenant's if no connector has its category. A policy over connectors keeps only
  findings of its own category (`policy_engine.py:94-95`). Overlapping
  evaluations may leave the status of one and the text of the other; deleting a
  policy during one makes it fail. The function that updates, and with it
  attests, a policy has lost its decorator (`policies.py:140-141`).
* *Readiness.* Two overlapping setups leave two rows, and every later request raises
  (`soc2.py:36`). `PATCH /criterion` stores any string as a criterion's readiness
  (`soc2.py:92`); the model has the four of the comment in line 78, and any
  other would count as not started.

## 6. The plan

Done, in this order: the relay, the scan jobs, findings and tickets, the ticket
workflow, the scheduler; then tenants, staff and access, report delivery,
evidence, live events, agents, the assessments, posture, frameworks, policies
and readiness, composed in `MCPlatform`; proofs of every invariant and action
property a run checks, part by part, and of their composition. Next:

1. Of the liveness properties, the safety facts they rest on (what a step of the
   engine, a relay or an agent leaves to be done) as invariants with proofs.
2. `Controls` with the findings of `Findings` instead of `FindingsChange`, and
   `Assessment` in front of `ScanJobs`.
3. Registration of collectors and agents (`collector_admin.py`), and the
   enhancement of an event (`governance.py`), should they come to be shared.

## 7. Not modelled

Cryptography, e-mail and AI calls (their time and failure matter and are in the
models, their content is not), the text of reports, seeds, backup scripts and
the console. AI credits: a balance is kept and shown, nothing draws on it or is
refused for it. Devices: an inventory that nothing else reads. Impersonation: it
issues a token and adds an audit row, and nothing refers to it later. Suspension:
a column no guard reads. The collector's configuration: read once. `PROJECT.json`
lists every part with its reason.
