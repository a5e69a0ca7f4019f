------------------------------- MODULE Policies -------------------------------
(***************************************************************************)
(* A tenant's own policies (api/routes/policies.py) and their evaluation   *)
(* against what its scans reported (services/policy_engine.py).            *)
(*                                                                         *)
(* A request loads the policies' rows, judges one after the other, and     *)
(* commits them together.  What it commits of a row are the columns it     *)
(* gave another value than the one it loaded: not those another request    *)
(* changed meanwhile and it found as they were.  No policy is disabled:    *)
(* the function that would is not routed.  The audit rows are left out.    *)
(***************************************************************************)
EXTENDS Integers, FiniteSets, Sequences

CONSTANTS
  PolicyIds,     \* given in ascending order and used once
  Evaluators,    \* request slots, numbered and taken in order
  Sources,       \* the connectors that events are of
  Values,        \* what a rule compares: an event's field or the rule's value
  PartOf,        \* <<a, b>>: the text a is contained in the text b
  GivenWorlds,   \* what connectors and scans have left at first (TLC)
  GivenRules,    \* what policies are created with (TLC)
  MaxEvaluations,\* bound on evaluations (TLC)
  MaxScanned     \* bound on what scans and connectors change (TLC)

\* A value is compared as a text in lower case or as a number, whatever it is:
\* what is no number counts 0, and what is not there is the text none too.
\* (A value that reads nan is left out.)
Null == [there |-> FALSE, text |-> "none", number |-> 0]

ASSUME PoliciesAssumption ==
  /\ \A v \in Values : v = [there |-> v.there, text |-> v.text, number |-> v.number]
                       /\ v.there \in BOOLEAN /\ v.number \in Int
  /\ Null \in Values
  /\ PolicyIds \cup Evaluators \subseteq Nat /\ MaxEvaluations \in Nat /\ MaxScanned \in Nat

Operators ==
  {"equals", "not_equals", "contains", "not_contains", "gt", "lt", "gte", "lte", "exists", "not_exists"}
\* A policy is a person's to attest, or judged by the open findings of its
\* category of connectors, or by a rule on a field, and then it may name no
\* category.  Unfinished are a rule without a field or a known operator and an
\* unknown mode.
PolicyRules ==
  [mode : {"manual", "connector", "unfinished"} \cup Operators, category : BOOLEAN, value : Values]

ASSUME RulesAssumption == GivenRules \subseteq PolicyRules

VARIABLES
  worlds,        \* what connectors and scans left, the last is there now
  policy,        \* per policy: its row, or Absent
  evaluation,    \* per slot: what was loaded, read and judged
  evaluations,   \* how many there were
  muddled        \* history: policies an evaluation committed over another's
policyVars == <<worlds, policy, evaluation, evaluations, muddled>>

\* An event of a connector.  An event is open where its status is, and where it
\* is of the category of findings the connector policies are about.
Events == [of : Sources, open : BOOLEAN, field : Values]
\* The connectors of the policies' category, and the tenant's events.
Worlds == [connectors : SUBSET Sources, events : SUBSET Events]
ASSUME WorldsAssumption == GivenWorlds \subseteq Worlds
Last == Len(worlds)
World == worlds[Last]

Absent ==
  [rule |-> [mode |-> "none", category |-> FALSE, value |-> Null], status |-> "none", result |-> "none",
   basis |-> {}, writes |-> 0]
Resting == [ids |-> {}, loaded |-> <<>>, since |-> 0, read |-> <<>>, verdict |-> <<>>]
Verdicts == {"passing", "failing", "not_assessed"}
Exists(p) == policy[p].rule.mode # "none"

PoliciesTypeOK ==
  /\ Last \in 1..(MaxScanned + 1) /\ \A i \in 1..Last : worlds[i] \in Worlds
  /\ \A p \in PolicyIds : Exists(p) =>
       /\ policy[p].rule \in PolicyRules /\ policy[p].status \in Verdicts
       /\ policy[p].result \in Verdicts \cup {"none"} /\ policy[p].writes \in 0..MaxEvaluations
  /\ evaluations \in 0..MaxEvaluations /\ muddled \subseteq PolicyIds

PoliciesInit ==
  /\ worlds \in {<<w>> : w \in GivenWorlds}
  /\ policy = [p \in PolicyIds |-> Absent]
  /\ evaluation = [e \in Evaluators |-> Resting]
  /\ evaluations = 0 /\ muddled = {}

-------------------------------------------------------------------------------
(* The verdict.                                                            *)

Matches(op, v, w) ==
  \/ op = "equals" /\ v.text = w.text
  \/ op = "not_equals" /\ v.text # w.text
  \/ op = "contains" /\ <<w.text, v.text>> \in PartOf
  \/ op = "not_contains" /\ <<w.text, v.text>> \notin PartOf
  \/ op = "gt" /\ v.number > w.number
  \/ op = "lt" /\ v.number < w.number
  \/ op = "gte" /\ v.number >= w.number
  \/ op = "lte" /\ v.number <= w.number
  \/ op = "exists" /\ v.there
  \/ op = "not_exists" /\ ~v.there

\* A rule looks at every event of the connectors it read, closed ones too, and
\* at every event of the tenant if it read none.  A match fails it.
Looked(connectors, events) == {e \in events : connectors # {} => e.of \in connectors}

Verdict(rule, connectors, events) ==
  IF rule.mode \in Operators
  THEN IF \E e \in Looked(connectors, events) : Matches(rule.mode, e.field, rule.value)
       THEN "failing" ELSE "passing"
  ELSE IF rule.mode = "connector" /\ connectors # {}
  THEN IF \E e \in Looked(connectors, events) : e.open THEN "failing" ELSE "passing"
  ELSE "not_assessed"

\* The connectors are read first, if the policy names a category, and then the
\* events: read is when, and since when its evaluation began.
VerdictOf(rule, read) ==
  Verdict(rule, IF rule.category THEN worlds[read.first].connectors ELSE {}, worlds[read.second].events)

-------------------------------------------------------------------------------
(* Requests.                                                               *)

Vacant(e) == evaluation[e] = Resting /\ \A d \in Evaluators : d < e => evaluation[d] # Resting

Loading(ids, loaded) == [Resting EXCEPT !.ids = ids, !.loaded = loaded, !.since = Last]

\* A new policy; a file's are manual ones.  It is committed unjudged, and an
\* automated one is judged and committed again by the same request.
Create(e, rule) ==
  LET p == CHOOSE q \in PolicyIds : policy[q] = Absent /\ \A r \in PolicyIds : r < q => policy[r] # Absent
      row == [Absent EXCEPT !.rule = rule, !.status = "not_assessed"]
  IN  /\ Vacant(e) /\ \E q \in PolicyIds : policy[q] = Absent
      /\ policy' = [policy EXCEPT ![p] = row]
      /\ IF rule.mode = "manual" THEN UNCHANGED <<evaluation, evaluations>>
         ELSE /\ evaluations < MaxEvaluations /\ evaluations' = evaluations + 1
              /\ evaluation' = [evaluation EXCEPT ![e] = Loading({p}, [q \in {p} |-> row])]
      /\ UNCHANGED <<worlds, muddled>>

EvaluateAll(e) ==
  LET all == {p \in PolicyIds : Exists(p)}
  IN  /\ Vacant(e) /\ all # {}
      /\ evaluations < MaxEvaluations /\ evaluations' = evaluations + 1
      /\ evaluation' = [evaluation EXCEPT ![e] = Loading(all, [p \in all |-> policy[p]])]
      /\ UNCHANGED <<worlds, policy, muddled>>

With(f, p, v) == [q \in DOMAIN f \cup {p} |-> IF q = p THEN v ELSE f[q]]

\* One policy after the other is judged, in whatever order the query gave: its
\* connectors are read, and, in a query of its own, the events.
Turn(e, p) ==
  LET r == evaluation[e]
      read == [since |-> r.since, first |-> Last, second |-> Last]
  IN  /\ p \in r.ids \ DOMAIN r.read /\ DOMAIN r.read = DOMAIN r.verdict
      /\ evaluation' = [evaluation EXCEPT ![e].read = With(@, p, read)]
      /\ UNCHANGED <<worlds, policy, evaluations, muddled>>

\* A manual policy keeps its status.
\* Mutant: the connectors are read after the events.
OutcomeLate(r, p) ==
  IF r.loaded[p].rule.mode = "manual" THEN r.loaded[p].status
  ELSE VerdictOf(r.loaded[p].rule, [first |-> Last, second |-> r.read[p].first])
Outcome(r, p) ==
  IF r.loaded[p].rule.mode = "manual" THEN r.loaded[p].status
  ELSE VerdictOf(r.loaded[p].rule, [first |-> r.read[p].first, second |-> Last])

Judge(e, p) ==
  LET r == evaluation[e]
      read == [since |-> r.since, first |-> r.read[p].first, second |-> Last]
  IN  /\ p \in DOMAIN r.read \ DOMAIN r.verdict
      /\ evaluation' = [evaluation EXCEPT ![e].read = With(@, p, read),
                                          ![e].verdict = With(@, p, Outcome(r, p))]
      /\ UNCHANGED <<worlds, policy, evaluations, muddled>>

\* The rows are committed, a deleted one among them fails them all.
Kept(loaded, now, new) == IF new = loaded THEN now ELSE new
Judged(r, p) ==
  [policy[p] EXCEPT !.status = Kept(r.loaded[p].status, @, r.verdict[p]),
     !.result = Kept(r.loaded[p].result, @, r.verdict[p]), !.basis = {r.read[p]}, !.writes = @ + 1]

Commit(e) ==
  LET r == evaluation[e]
      over == {p \in r.ids : policy[p].writes # r.loaded[p].writes}
  IN  /\ r.ids # {} /\ DOMAIN r.verdict = r.ids
      /\ IF \A p \in r.ids : Exists(p)
         THEN /\ policy' = [p \in PolicyIds |-> IF p \in r.ids THEN Judged(r, p) ELSE policy[p]]
              /\ muddled' = (muddled \ r.ids) \cup over
         ELSE UNCHANGED <<policy, muddled>>
      /\ evaluation' = [evaluation EXCEPT ![e] = Resting]
      /\ UNCHANGED <<worlds, evaluations>>

\* A policy's id is not given twice.
Delete(p) ==
  /\ Exists(p) /\ policy' = [policy EXCEPT ![p] = [Absent EXCEPT !.status = "deleted"]]
  /\ UNCHANGED <<worlds, evaluation, evaluations, muddled>>

\* Connectors and findings come and go, and findings are closed.  (Bounds: there
\* are MaxScanned changes, the last of them while an id is left to give.)
Becomes(world) == worlds' = Append(worlds, world)
ScansChange ==
  /\ Last <= MaxScanned
  /\ Last = MaxScanned => \E p \in PolicyIds : policy[p] = Absent
  /\ \/ \E s \in Sources \ World.connectors : Becomes([World EXCEPT !.connectors = @ \cup {s}])
     \/ \E s \in World.connectors : Becomes([World EXCEPT !.connectors = @ \ {s}])
     \/ \E s \in Sources, v \in Values :
          Becomes([World EXCEPT !.events = @ \cup {[of |-> s, open |-> TRUE, field |-> v]}])
     \/ \E e \in World.events : Becomes([World EXCEPT !.events = @ \ {e}])
     \/ \E e \in World.events :
          e.open /\ Becomes([World EXCEPT !.events = (@ \ {e}) \cup {[e EXCEPT !.open = FALSE]}])
  /\ UNCHANGED <<policy, evaluation, evaluations, muddled>>

PoliciesNext ==
  \/ ScansChange
  \/ \E e \in Evaluators :
       \/ EvaluateAll(e) \/ Commit(e)
       \/ \E rule \in GivenRules : Create(e, rule)
       \/ \E p \in PolicyIds : Turn(e, p) \/ Judge(e, p)
  \/ \E p \in PolicyIds : Delete(p)

PoliciesSpec == PoliciesInit /\ [][PoliciesNext]_policyVars

-------------------------------------------------------------------------------
\* A judged policy stands as its last evaluation found it, and the text beside
\* it says the same, unless two evaluations overlapped, after which the status
\* may be one's and the text the other's.  It was found so in the evaluation's
\* own time, but not at one moment of it: by connectors that were there and by
\* events that were there later, whose connectors may have come or gone between.
StatusTellsResult ==
  \A p \in PolicyIds \ muddled : Exists(p) /\ policy[p].result # "none" =>
    /\ policy[p].status = policy[p].result
    /\ policy[p].rule.mode # "manual" =>
         \E read \in policy[p].basis :
           /\ read.since <= read.first /\ read.first <= read.second /\ read.second <= Last
           /\ policy[p].status = VerdictOf(policy[p].rule, read)

\* No evaluation attests a manual policy, overlapped or not; nor does any request,
\* the one that would is not routed.
ManualUnattested == \A p \in PolicyIds : policy[p].rule.mode = "manual" => policy[p].status = "not_assessed"

PoliciesHonest == StatusTellsResult /\ ManualUnattested
===============================================================================
