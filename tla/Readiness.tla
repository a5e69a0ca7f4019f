------------------------------- MODULE Readiness -------------------------------
(***************************************************************************)
(* SOC 2 readiness of a tenant (api/routes/soc2.py): one row with the      *)
(* overall figure and one status per criterion of the trust categories it  *)
(* chose.  Setting up replaces them, a criterion is updated by hand, and   *)
(* every request ends with a summary that computes the figure and keeps it.*)
(*                                                                         *)
(* A handler reads, is suspended, and commits.  The database is PostgreSQL:*)
(* deleting a row waits for whoever has deleted it and not yet committed.  *)
(***************************************************************************)
EXTENDS Integers, FiniteSets

CONSTANTS
  Criteria,      \* criteria: those of Mandatory belong to the security category
  Mandatory,
  Askers,        \* request slots, numbered and taken in order
  MaxAsks        \* bound on requests (TLC)

ASSUME ReadinessAssumption ==
  /\ IsFiniteSet(Criteria) /\ Mandatory \subseteq Criteria /\ Mandatory # {}
  /\ Askers \subseteq Nat /\ MaxAsks \in Nat

VARIABLES
  readiness,     \* the tenant's rows: there should be one
  criterion,     \* its rows of criteria
  lastRow,       \* the last id given
  asked,         \* per slot: where its request is and what it has read
  asks,          \* how many requests there were
  doubled,       \* history: two setups overlapped
  outdated       \* history: the figure was computed from statuses others changed
                 \* before it was kept, or its request did not come to keep it
readinessVars == <<readiness, criterion, lastRow, asked, asks, doubled, outdated>>

Marks == {"not_started", "in_progress", "ready", "gap"}
NotAsked == [at |-> "idle"]
\* The criteria of the categories chosen, security's always.
CriteriaFor(chosen) == chosen \cup Mandatory

ReadinessTypeOK ==
  /\ \A r \in readiness : r.id \in 1..lastRow /\ r.criteria \subseteq Criteria /\ r.overall \in 0..100
  /\ \A c \in criterion : c.id \in 1..lastRow /\ c.name \in Criteria /\ c.mark \in Marks
  /\ asks \in 0..MaxAsks /\ doubled \in BOOLEAN /\ outdated \in BOOLEAN

ReadinessInit ==
  /\ readiness = {} /\ criterion = {} /\ lastRow = 0 /\ asks = 0
  /\ asked = [a \in Askers |-> NotAsked] /\ doubled = FALSE /\ outdated = FALSE

Asks(a, r) ==
  /\ asked[a] = NotAsked /\ \A b \in Askers : b < a => asked[b] # NotAsked
  /\ asks < MaxAsks /\ asks' = asks + 1 /\ asked' = [asked EXCEPT ![a] = r]
GoesOn(a, r) == asked' = [asked EXCEPT ![a] = r] /\ UNCHANGED asks

\* More than one row is an error, and remains one.
OneRow(rows) == Cardinality(rows) <= 1
IdsOf(rows) == {r.id : r \in rows}

-------------------------------------------------------------------------------
(* Setting up.  The row there is is deleted before the statuses are read,  *)
(* and all is committed together.                                          *)

SetupBegins(a, chosen) ==
  /\ OneRow(readiness)
  /\ Asks(a, [at |-> "setup", old |-> readiness, criteria |-> CriteriaFor(chosen)])
  /\ UNCHANGED <<readiness, criterion, lastRow, doubled, outdated>>

SetupClears(a) ==
  LET r == asked[a]
  IN  /\ r.at = "setup"
      /\ \A b \in Askers \ {a} : asked[b].at = "cleared" => IdsOf(asked[b].old) \cap IdsOf(r.old) = {}
      /\ GoesOn(a, [at |-> "cleared", old |-> r.old, criteria |-> r.criteria, statuses |-> criterion])
      /\ UNCHANGED <<readiness, criterion, lastRow, doubled, outdated>>

\* A criterion in whose area findings are open starts as a gap.
NewStatuses(r, gaps) ==
  LET numbered == CHOOSE s \in [r.criteria -> 1..Cardinality(r.criteria)] :
                    \A c, d \in r.criteria : s[c] = s[d] => c = d
  IN  {[id |-> lastRow + numbered[c], name |-> c,
        mark |-> IF c \in gaps THEN "gap" ELSE "not_started"] : c \in r.criteria}

\* Mutant: the old statuses stay.
SetupKeeps(r, rows) == rows
SetupLeaves(r, rows) == {c \in rows : \A o \in r.statuses : c.id # o.id}

SetupCommits(a, gaps) ==
  LET r == asked[a]
  IN  /\ r.at = "cleared" /\ gaps \subseteq r.criteria
      /\ lastRow' = lastRow + 1 + Cardinality(r.criteria)
      /\ readiness' = {s \in readiness : s.id \notin IdsOf(r.old)}
                        \cup {[id |-> lastRow', criteria |-> r.criteria, overall |-> 0]}
      /\ criterion' = SetupLeaves(r, criterion) \cup NewStatuses(r, gaps)
      /\ doubled' = (doubled \/ IdsOf(readiness) # IdsOf(r.old))
      /\ outdated' = FALSE
      /\ GoesOn(a, [at |-> "summary"])

-------------------------------------------------------------------------------
(* Updating a criterion, and the summary.                                  *)

UpdateBegins(a, name) ==
  /\ Cardinality({c \in criterion : c.name = name}) = 1
  /\ Asks(a, [at |-> "update", row |-> {c.id : c \in {d \in criterion : d.name = name}}])
  /\ UNCHANGED <<readiness, criterion, lastRow, doubled, outdated>>

\* A status that was replaced meanwhile is an error.
UpdateCommits(a, mark) ==
  LET mine == {c \in criterion : c.id \in asked[a].row}
  IN  /\ asked[a].at = "update"
      /\ criterion' = (criterion \ mine) \cup {[c EXCEPT !.mark = mark] : c \in mine}
      /\ GoesOn(a, IF mine = {} THEN NotAsked ELSE [at |-> "summary"])
      /\ UNCHANGED <<readiness, lastRow, doubled, outdated>>

View(a) ==
  /\ Asks(a, [at |-> "summary"])
  /\ UNCHANGED <<readiness, criterion, lastRow, doubled, outdated>>

\* Without a row there is nothing to tell.
SummaryReads(a) ==
  /\ asked[a].at = "summary"
  /\ IF Cardinality(readiness) = 1
     THEN GoesOn(a, [at |-> "computed", row |-> readiness, statuses |-> criterion]) /\ UNCHANGED outdated
     ELSE GoesOn(a, NotAsked) /\ UNCHANGED outdated
  /\ UNCHANGED <<readiness, criterion, lastRow, doubled>>

\* What part of the statuses is ready, in per cent; a tie may go either way.
\* Mutant: in tenths.
SharesInTenths(statuses) ==
  IF statuses = {} THEN {0}
  ELSE {(1000 * Cardinality({c \in statuses : c.mark = "ready"})) \div Cardinality(statuses)}
Shares(statuses) ==
  LET total == Cardinality(statuses)
      ready == 100 * Cardinality({c \in statuses : c.mark = "ready"})
  IN  IF total = 0 THEN {0}
      ELSE {n \in {ready \div total, ready \div total + 1} :
              2 * n * total - 2 * ready <= total /\ 2 * ready - 2 * n * total <= total}

\* The figure is kept if it is another than the one that was loaded; of a row
\* that is gone that is an error.
SummaryKeeps(a) ==
  LET r == asked[a]
  IN  /\ r.at = "computed"
      /\ \E share \in Shares(r.statuses) :
           LET kept(s) == \E o \in r.row : o.id = s.id /\ o.overall # share
           IN  readiness' = {IF kept(s) THEN [s EXCEPT !.overall = share] ELSE s : s \in readiness}
      /\ outdated' = (r.statuses # criterion \/ (outdated /\ readiness' = readiness))
      /\ GoesOn(a, NotAsked)
      /\ UNCHANGED <<criterion, lastRow, doubled>>

\* The platform stops, and its requests with it.
ReadinessStops ==
  /\ \E a \in Askers : asked[a].at \in {"summary", "computed"}
  /\ asked' = [a \in Askers |-> NotAsked] /\ outdated' = TRUE
  /\ UNCHANGED <<readiness, criterion, lastRow, asks, doubled>>

ReadinessNext ==
  \/ ReadinessStops
  \/ \E a \in Askers :
       \/ \E chosen \in SUBSET (Criteria \ Mandatory) : SetupBegins(a, chosen)
       \/ SetupClears(a)
       \/ \E gaps \in SUBSET Criteria : SetupCommits(a, gaps)
       \/ \E c \in Criteria : UpdateBegins(a, c)
       \/ \E mark \in {"ready", "in_progress"} : UpdateCommits(a, mark)
       \/ View(a) \/ SummaryReads(a) \/ SummaryKeeps(a)

ReadinessSpec == ReadinessInit /\ [][ReadinessNext]_readinessVars

-------------------------------------------------------------------------------
\* A tenant has one readiness, with one status for each criterion it chose,
\* unless two setups overlapped: then it has two rows, and every request on it
\* fails from then on.
OneReadiness ==
  ~doubled =>
    /\ OneRow(readiness)
    /\ \A r \in readiness : {c.name : c \in criterion} = r.criteria
    /\ \A c, d \in criterion : c.name = d.name => c = d

\* Between requests the overall figure is what its statuses give, unless the
\* last that kept it had read them before another changed them, or was stopped.
OverallAgrees ==
  ~doubled /\ ~outdated /\ (\A a \in Askers : asked[a] = NotAsked) =>
    \A r \in readiness : r.overall \in Shares(criterion)

ReadinessTold == OneReadiness /\ OverallAgrees
===============================================================================
