------------------------------ MODULE MCPlatform ------------------------------
(***************************************************************************)
(* The components of the platform that share no state with one another:    *)
(* tenants and users, the staff, scheduled reports, evidence, live events, *)
(* agents, assessments, posture, frameworks, policies and readiness.  A    *)
(* behaviour of the whole is a behaviour of each beside the others' and no *)
(* step of one reads what another writes, so that each is checked for      *)
(* itself: part says which one moves.                                      *)
(***************************************************************************)
EXTENDS Tenancy, Team, Delivery, Controls, Notifier, Agents, Assessment, Posture, Catalog, Policies,
        Readiness

MCDays == [off |-> 9, weekly |-> 1, monthly |-> 2, quarterly |-> 3]

\* Two frameworks share the control id i1, as sox and soc2 share CC6.1; only
\* one is among the code's.
MCConcerns == << [f1 |-> {"i1"}, f2 |-> {}], [f1 |-> {"i2"}, f2 |-> {"i1"}] >>
MCDeduction == <<8, 4>>
MCCode == [f1 |-> {"i1", "i2"}]
\* A later release brings a framework whose key a tenant may have taken.
MCReleases == <<{"b"}, {"b", "n"}>>
\* A rule on a text finds the word none where the field is not there.
MCTwo == [there |-> TRUE, text |-> "2", number |-> 2]
MCValues == {Null, MCTwo}
MCConnected == [connectors |-> Sources, events |-> {}]
MCWorlds == {MCConnected}
MCPartOf == {<<v, v>> : v \in {"2", "none"}}
MCRules ==
  {[mode |-> "manual", category |-> FALSE, value |-> Null],
   [mode |-> "connector", category |-> TRUE, value |-> Null],
   [mode |-> "contains", category |-> TRUE, value |-> Null]}

VARIABLE part

OfTenancy == <<fk, tenant, user, billing, cited, audited, request, begun, led>>
OfTeam == <<staff, teamRequest, teamBegun, raced>>
OfDelivery == <<sched, day, due, delivery, sent, faults, spoilt, crossed, patched>>
OfControls == <<evidence, files, used, gaps, status, twice, review, reviews, breaks, derived,
                decision, halfGone, doubt>>
OfNotifier == <<socket, byTenant, broadcast, scans, rewound>>
OfAgents == <<at, token, stored, left, known, issued, mishaps, excess, resets>>
OfAssessment == <<system, hint, weak, unread, step, doc, raised, records, taken, findings, keyFile>>
OfPosture == <<open, shown, chosen, active, reading, report, moves>>
OfCatalog == <<release, frameworks, controls, lastId, edit, edits, excused>>
OfPolicies == <<worlds, policy, evaluation, evaluations, muddled>>
OfReadiness == <<readiness, criterion, lastRow, asked, asks, doubled, outdated>>
platformVars ==
  <<part, OfTenancy, OfTeam, OfDelivery, OfControls, OfNotifier, OfAgents, OfAssessment, OfPosture,
    OfCatalog, OfPolicies, OfReadiness>>

Early == <<OfTenancy, OfTeam, OfDelivery, OfControls, OfNotifier, OfAgents>>
Late == <<OfAssessment, OfPosture, OfCatalog, OfPolicies, OfReadiness>>

\* The parts that do not move start in one way.
Init ==
  /\ part \in {"tenancy", "team", "delivery", "controls", "notifier", "agents", "assessment",
               "posture", "catalog", "policies", "readiness"}
  /\ part # "tenancy" => fk = TRUE
  /\ part # "assessment" => system = "aws" /\ hint = "all"
  /\ part # "posture" => open = {} /\ shown = Code /\ chosen = <<>> /\ active = "f1"
  /\ part # "policies" => worlds = <<MCConnected>>
  /\ TenancyInit /\ TeamInit /\ DeliveryInit /\ ControlsInit /\ NotifierInit /\ AgentsInit
  /\ AssessmentInit /\ PostureInit /\ CatalogInit /\ PoliciesInit /\ ReadinessInit

TenancyMoves ==
  /\ part = "tenancy" /\ TenancyNext
  /\ UNCHANGED <<part, OfTeam, OfDelivery, OfControls, OfNotifier, OfAgents, Late>>
TeamMoves ==
  /\ part = "team" /\ TeamNext
  /\ UNCHANGED <<part, OfTenancy, OfDelivery, OfControls, OfNotifier, OfAgents, Late>>

BesideDelivery == UNCHANGED <<part, OfTenancy, OfTeam, OfControls, OfNotifier, OfAgents, Late>>
DeliveryMoves == part = "delivery" /\ DeliveryNext /\ BesideDelivery

ControlsMove ==
  /\ part = "controls" /\ ControlsNext
  /\ UNCHANGED <<part, OfTenancy, OfTeam, OfDelivery, OfNotifier, OfAgents, Late>>
NotifierMoves ==
  /\ part = "notifier" /\ NotifierNext
  /\ UNCHANGED <<part, OfTenancy, OfTeam, OfDelivery, OfControls, OfAgents, Late>>

BesideAgents == UNCHANGED <<part, OfTenancy, OfTeam, OfDelivery, OfControls, OfNotifier, Late>>
AgentsMove == part = "agents" /\ AgentsNext /\ BesideAgents

AssessmentMoves ==
  /\ part = "assessment" /\ AssessmentNext
  /\ UNCHANGED <<part, Early, OfPosture, OfCatalog, OfPolicies, OfReadiness>>
PostureMoves ==
  /\ part = "posture" /\ PostureNext
  /\ UNCHANGED <<part, Early, OfAssessment, OfCatalog, OfPolicies, OfReadiness>>
CatalogMoves ==
  /\ part = "catalog" /\ CatalogNext
  /\ UNCHANGED <<part, Early, OfAssessment, OfPosture, OfPolicies, OfReadiness>>
PoliciesMove ==
  /\ part = "policies" /\ PoliciesNext
  /\ UNCHANGED <<part, Early, OfAssessment, OfPosture, OfCatalog, OfReadiness>>
ReadinessMoves ==
  /\ part = "readiness" /\ ReadinessNext
  /\ UNCHANGED <<part, Early, OfAssessment, OfPosture, OfCatalog, OfPolicies>>

Next ==
  \/ TenancyMoves \/ TeamMoves \/ DeliveryMoves \/ ControlsMove \/ NotifierMoves \/ AgentsMove
  \/ AssessmentMoves \/ PostureMoves \/ CatalogMoves \/ PoliciesMove \/ ReadinessMoves

\* The fairness of Delivery and of Agents, of the part that moves.
Fairness ==
  /\ WF_platformVars(part = "delivery" /\ EngineStep /\ BesideDelivery)
  /\ \A a \in Hosts : WF_platformVars(part = "agents" /\ AgentStep(a) /\ BesideAgents)

Spec == Init /\ [][Next]_platformVars /\ Fairness

\* Every component's state stays within its types (the columns the models
\* under src/backend/app/models/ declare).
TypesOK ==
  /\ TenancyTypeOK /\ TeamTypeOK /\ DeliveryTypeOK
  /\ ControlsTypeOK /\ NotifierTypeOK /\ AgentsTypeOK
  /\ AssessmentTypeOK /\ PostureTypeOK /\ CatalogTypeOK
  /\ PoliciesTypeOK /\ ReadinessTypeOK

\* AgentsEnroll of Agents, where the agents move.
EveryAgentEnrolls == part = "agents" => AgentsEnroll
===============================================================================
