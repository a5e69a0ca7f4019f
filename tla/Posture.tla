-------------------------------- MODULE Posture --------------------------------
(***************************************************************************)
(* Compliance posture: how many controls of each framework a tenant chose  *)
(* have no open finding.  The live views (api/routes/governance.py), the   *)
(* snapshots (services/snapshot_service.py) and the reports of three       *)
(* levels (services/reports_service.py) go through the same reads, one     *)
(* framework after the other, while findings open and close and controls   *)
(* are edited; the audit report (api/routes/auditor.py) counts by the      *)
(* frameworks written in the code instead.                                 *)
(***************************************************************************)
EXTENDS Integers, Sequences, FiniteSets, Functions

CONSTANTS
  Keys,          \* keys of frameworks
  Ids,           \* ids of controls: frameworks share them (sox and soc2: CC6.1)
  Alarms,        \* findings that may be open
  Concerns,      \* an alarm: per framework, the ids it is mapped to
  Deduction,     \* an alarm: 8, 4, 2 or 0 by its severity
  Code,          \* the frameworks of the code: their ids
  MaxMoves       \* bound on changes by others (TLC)

ASSUME PostureAssumption ==
  /\ Concerns \in [Alarms -> [Keys -> SUBSET Ids]]
  /\ Deduction \in [Alarms -> {0, 2, 4, 8}]
  /\ DOMAIN Code \subseteq Keys /\ Code \in [DOMAIN Code -> SUBSET Ids]
  /\ IsFiniteSet(Ids) /\ MaxMoves \in Nat

VARIABLES
  open,          \* the open alarms
  shown,         \* the frameworks the tenant is shown, and their ids
  chosen,        \* the frameworks it selected, in order
  active,        \* its active framework, used when none is selected
  reading,       \* the report under way
  report,        \* the last one finished
  moves          \* changes so far
postureVars == <<open, shown, chosen, active, reading, report, moves>>

\* The report of a level but the executives' is for engineers or auditors.
Kinds == {"live", "detail", "snapshot", "ciso", "level"}
Selected == IF chosen = <<>> THEN <<active>> ELSE chosen
Now == [open |-> open, shown |-> shown]
NoReading ==
  [kind |-> "none", left |-> <<>>, there |-> {}, ids |-> {}, at |-> "none", rows |-> <<>>, moments |-> {}]
NoReport == [kind |-> "none", rows |-> <<>>, overall |-> 0, score |-> 0, risk |-> 0, moments |-> {}]

PostureTypeOK ==
  /\ open \subseteq Alarms /\ DOMAIN shown \subseteq Keys
  /\ \A k \in DOMAIN shown : shown[k] \subseteq Ids
  /\ reading.kind \in Kinds \cup {"none"} /\ report.kind \in Kinds \cup {"none", "audit", "score"}

PostureInit ==
  /\ open \in SUBSET Alarms /\ shown \in {[k \in Keys |-> Ids], Code}
  /\ chosen \in {<<>>} \cup {s \in [1..2 -> Keys] : s[1] # s[2]} /\ active \in Keys
  /\ reading = NoReading /\ report = NoReport /\ moves = 0

-------------------------------------------------------------------------------
(* Figures.                                                                *)

\* What a over b rounds to: two answers for a tie, of which the floating point
\* takes one.
Nearest(a, b) ==
  {n \in {a \div b, a \div b + 1} : 2 * n * b - 2 * a <= b /\ 2 * a - 2 * n * b <= b}

\* A control fails if an open finding names it for that framework.
Failing(key, ids, alarms) == {i \in ids : \E a \in alarms : i \in Concerns[a][key]}

\* Snapshots keep one decimal.
Full(kind) == IF kind = "snapshot" THEN 1000 ELSE 100
Readiness(passing, total, full) == IF total = 0 THEN {0} ELSE Nearest(full * passing, total)

Rows(key, kind, ids, alarms) ==
  LET failing == Failing(key, ids, alarms)
      total == Cardinality(ids)
  IN  [total : {total}, failing : {failing},
       pct : Readiness(total - Cardinality(failing), total, Full(kind))]

Score(alarms) ==
  LET taken == FoldFunctionOnSet(+, 0, Deduction, alarms)
  IN  IF taken > 100 THEN 0 ELSE 100 - taken

\* The mean of the frameworks' rounded figures.
Overall(rows) ==
  IF rows = <<>> THEN {0}
  ELSE Nearest(FoldFunction(+, 0, [k \in DOMAIN rows |-> rows[k].pct]), Cardinality(DOMAIN rows))

-------------------------------------------------------------------------------
(* What others change: findings open and close, controls and frameworks    *)
(* are edited.  A report under way passes through these moments.           *)

PassedBy(moment) ==
  reading' = IF reading.kind = "none" THEN reading
             ELSE [reading EXCEPT !.moments = @ \cup {moment}]

FindingMoves(a) ==
  /\ moves < MaxMoves /\ moves' = moves + 1
  /\ open' = IF a \in open THEN open \ {a} ELSE open \cup {a}
  /\ PassedBy([open |-> open', shown |-> shown])
  /\ UNCHANGED <<shown, chosen, active, report>>

FrameworkMoves(k) ==
  /\ moves < MaxMoves /\ moves' = moves + 1
  /\ \/ \E ids \in SUBSET Ids : shown' = [j \in DOMAIN shown \cup {k} |-> IF j = k THEN ids ELSE shown[j]]
     \/ k \notin DOMAIN Code /\ shown' = [j \in DOMAIN shown \ {k} |-> shown[j]]
  /\ shown' # shown
  /\ PassedBy([open |-> open, shown |-> shown'])
  /\ UNCHANGED <<open, chosen, active, report>>

-------------------------------------------------------------------------------
(* A report.  The frameworks there are is read first; one that is not      *)
(* among them is passed over.  For each of the others its controls are     *)
(* read again, then the open findings.  A framework deleted in between has *)
(* no controls, and is reported at 0 of 0.                                 *)

Begin(kind) ==
  /\ reading.kind = "none"
  /\ \E k \in Keys :
       reading' = [kind |-> kind, left |-> IF kind = "detail" THEN <<k>> ELSE Selected, there |-> DOMAIN shown,
                   ids |-> {}, at |-> "controls", rows |-> <<>>, moments |-> {Now}]
  /\ report' = NoReport
  /\ UNCHANGED <<open, shown, chosen, active, moves>>

\* Mutant: the first framework that is not there ends the loop.
Stop(reads) == [reads EXCEPT !.left = <<>>]
PassOver(reads) == [reads EXCEPT !.left = Tail(@)]

ReadControls ==
  /\ reading.at = "controls" /\ reading.left # <<>>
  /\ LET k == Head(reading.left)
     IN  reading' = IF k \in reading.there
                    THEN [reading EXCEPT !.at = "open", !.ids = IF k \in DOMAIN shown THEN shown[k] ELSE {}]
                    ELSE PassOver(reading)
  /\ UNCHANGED <<open, shown, chosen, active, report, moves>>

ReadOpen ==
  /\ reading.at = "open"
  /\ LET k == Head(reading.left)
     IN  \E row \in Rows(k, reading.kind, reading.ids, open) :
           reading' = [reading EXCEPT !.at = "controls", !.left = Tail(@), !.ids = {},
                         !.rows = [j \in DOMAIN @ \cup {k} |-> IF j = k THEN row ELSE @[j]]]
  /\ UNCHANGED <<open, shown, chosen, active, report, moves>>

ComplianceBegins == Begin("live")
DetailBegins == Begin("detail")
SnapshotBegins == Begin("snapshot")
CISOBegins == Begin("ciso")
LevelBegins == Begin("level")

ReportEnds(kinds, overalls, risk) ==
  /\ reading.kind \in kinds /\ reading.at = "controls" /\ reading.left = <<>>
  /\ \E overall \in overalls :
       report' = [kind |-> reading.kind, rows |-> reading.rows, overall |-> overall, score |-> 0,
                  risk |-> risk, moments |-> reading.moments]
  /\ reading' = NoReading
  /\ UNCHANGED <<open, shown, chosen, active, moves>>

ViewEnds == ReportEnds({"live", "detail"}, {0}, 0)
\* A snapshot's rows are committed together.
SnapshotEnds == ReportEnds({"snapshot"}, {0}, 0)
\* The executives' report reads the open findings once more, for its headline.
CISOEnds == ReportEnds({"ciso"}, Overall(reading.rows), Cardinality({a \in open : Deduction[a] >= 4}))
\* The engineers' and the auditors' are kept with an overall figure, if they
\* have a framework.
LevelEnds ==
  ReportEnds({"level"}, IF reading.rows = <<>> THEN {"none"} ELSE Overall(reading.rows), 0)

\* The dashboard and the audit report read the findings once; the latter has
\* the controls of the active framework in the code, and none for a custom one.
OneRead(kind) ==
  /\ reading.kind = "none"
  /\ \E row \in Rows(active, kind, IF active \in DOMAIN Code THEN Code[active] ELSE {}, open) :
       report' = [NoReport EXCEPT !.kind = kind, !.score = Score(open), !.moments = {Now},
                    !.rows = IF kind = "audit" THEN [k \in {active} |-> row] ELSE <<>>]
  /\ UNCHANGED <<open, shown, chosen, active, reading, moves>>
Dashboard == OneRead("score")
AuditReport == OneRead("audit")

PostureNext ==
  \/ \E a \in Alarms : FindingMoves(a)
  \/ \E k \in Keys : FrameworkMoves(k)
  \/ ComplianceBegins \/ DetailBegins \/ SnapshotBegins \/ CISOBegins \/ LevelBegins
  \/ ReadControls \/ ReadOpen
  \/ ViewEnds \/ SnapshotEnds \/ CISOEnds \/ LevelEnds
  \/ Dashboard \/ AuditReport

PostureSpec == PostureInit /\ [][PostureNext]_postureVars

-------------------------------------------------------------------------------
\* Every row counts controls the framework had and findings that were open at
\* some moment of the reading (none, if the framework was gone by then): a
\* report may mix moments, and never counts what was at none of them.
RowsOfTheReading ==
  report.kind \in Kinds =>
    \A k \in DOMAIN report.rows :
      \E m \in report.moments, n \in report.moments :
        LET ids == IF k \in DOMAIN m.shown THEN m.shown[k] ELSE {}
        IN  report.rows[k] \in Rows(k, report.kind, ids, n.open)

\* A report nothing changed under is the posture of that moment, of every
\* framework selected, and its headline is of the same findings.
FrozenFaithfully ==
  report.kind \in Kinds \ {"detail"} /\ Cardinality(report.moments) = 1 =>
    \A m \in report.moments :
      /\ DOMAIN report.rows = {Selected[n] : n \in DOMAIN Selected} \cap DOMAIN m.shown
      /\ \A k \in DOMAIN report.rows :
           report.rows[k].failing = Failing(k, m.shown[k], m.open) /\ report.rows[k].total = Cardinality(m.shown[k])
      /\ report.kind = "ciso" => report.risk = Cardinality({a \in m.open : Deduction[a] >= 4})

\* The audit report agrees with the live views for a framework nobody edited.
AuditAgrees ==
  report.kind = "audit" =>
    \A m \in report.moments :
      active \in DOMAIN m.shown \cap DOMAIN Code /\ m.shown[active] = Code[active] =>
        report.rows[active] \in Rows(active, "live", m.shown[active], m.open)

\* Of frameworks of fewer than 200 controls only one none of whose controls
\* fails is shown at 100 %: from 200 on, one failing control rounds away.
FullMarksEarned ==
  \A k \in DOMAIN report.rows :
    report.rows[k].pct = Full(report.kind) /\ report.rows[k].total < 200 => report.rows[k].failing = {}

PostureFaithful == RowsOfTheReading /\ FrozenFaithfully /\ AuditAgrees /\ FullMarksEarned
===============================================================================
