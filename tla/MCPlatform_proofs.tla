--------------------------- MODULE MCPlatform_proofs ---------------------------
(***************************************************************************)
(* The parts of the platform side by side: a behaviour of MCPlatform is a  *)
(* behaviour of every part, and so keeps what is proved of each.           *)
(***************************************************************************)
EXTENDS MCPlatform, Platform_proofs, Governance_proofs

\* A step of the whole is for each part a step of its own, or none.
PartsStep ==
  /\ [TenancyNext]_tenancyVars
  /\ [TeamNext]_teamVars
  /\ [DeliveryNext]_deliveryVars
  /\ [ControlsNext]_controlsVars
  /\ [NotifierNext]_notifierVars
  /\ [AgentsNext]_agentsVars
  /\ [AssessmentNext]_assessVars
  /\ [PostureNext]_postureVars
  /\ [CatalogNext]_catalogVars
  /\ [PoliciesNext]_policyVars
  /\ [ReadinessNext]_readinessVars

LEMMA WholeStep == [Next]_platformVars => PartsStep
<1>. SUFFICES ASSUME [Next]_platformVars PROVE PartsStep
  OBVIOUS
<1>. USE DEF Early, Late, OfTenancy, OfTeam, OfDelivery, OfControls, OfNotifier, OfAgents,
             OfAssessment, OfPosture, OfCatalog, OfPolicies, OfReadiness,
             tenancyVars, teamVars, deliveryVars, controlsVars, notifierVars, agentsVars,
             assessVars, postureVars, catalogVars, policyVars, readinessVars
<1>1. CASE TenancyMoves
  BY <1>1 DEF TenancyMoves, PartsStep
<1>2. CASE TeamMoves
  BY <1>2 DEF TeamMoves, PartsStep
<1>3. CASE DeliveryMoves
  BY <1>3 DEF DeliveryMoves, BesideDelivery, PartsStep
<1>4. CASE ControlsMove
  BY <1>4 DEF ControlsMove, PartsStep
<1>5. CASE NotifierMoves
  BY <1>5 DEF NotifierMoves, PartsStep
<1>6. CASE AgentsMove
  BY <1>6 DEF AgentsMove, BesideAgents, PartsStep
<1>7. CASE AssessmentMoves
  BY <1>7 DEF AssessmentMoves, PartsStep
<1>8. CASE PostureMoves
  BY <1>8 DEF PostureMoves, PartsStep
<1>9. CASE CatalogMoves
  BY <1>9 DEF CatalogMoves, PartsStep
<1>10. CASE PoliciesMove
  BY <1>10 DEF PoliciesMove, PartsStep
<1>11. CASE ReadinessMoves
  BY <1>11 DEF ReadinessMoves, PartsStep
<1>12. CASE UNCHANGED platformVars
  BY <1>12 DEF platformVars, PartsStep
<1>. QED  BY <1>1, <1>2, <1>3, <1>4, <1>5, <1>6, <1>7, <1>8, <1>9, <1>10, <1>11, <1>12 DEF Next

LEMMA WholeBegins ==
  Init => /\ TenancyInit /\ TeamInit /\ DeliveryInit /\ ControlsInit /\ NotifierInit /\ AgentsInit
          /\ AssessmentInit /\ PostureInit /\ CatalogInit /\ PoliciesInit /\ ReadinessInit
  BY DEF Init

\* Whatever the whole does, each part does what it does alone: its own start and
\* its own steps, with pauses (the routers of main.py share no tables across
\* these parts). Of the report engine and of the agents only the steps: that they
\* go on is fairness.
THEOREM Composition ==
  Spec => /\ TenancySpec /\ TeamSpec /\ ControlsSpec /\ NotifierSpec
          /\ AssessmentSpec /\ PostureSpec /\ CatalogSpec /\ PoliciesSpec /\ ReadinessSpec
          /\ DeliveryInit /\ [][DeliveryNext]_deliveryVars
          /\ AgentsInit /\ [][AgentsNext]_agentsVars
<1>1. [Next]_platformVars => /\ [TenancyNext]_tenancyVars /\ [TeamNext]_teamVars /\ [DeliveryNext]_deliveryVars
                             /\ [ControlsNext]_controlsVars /\ [NotifierNext]_notifierVars
                             /\ [AgentsNext]_agentsVars
                             /\ [AssessmentNext]_assessVars /\ [PostureNext]_postureVars
                             /\ [CatalogNext]_catalogVars /\ [PoliciesNext]_policyVars
                             /\ [ReadinessNext]_readinessVars
  BY WholeStep DEF PartsStep
<1>. QED
  BY <1>1, WholeBegins, PTL
  DEF Spec, TenancySpec, TeamSpec, ControlsSpec, NotifierSpec, AssessmentSpec, PostureSpec, CatalogSpec,
      PoliciesSpec, ReadinessSpec

\* Every row, request and history stays within its type, whatever number of
\* tenants, users, reports, controls, sockets, agents, findings, frameworks,
\* policies, criteria and requests there is (the columns of
\* src/backend/app/models).
THEOREM PlatformTypes == Spec => []TypesOK
<1>1. TenancySpec => []TenancyTypeOK
  BY TenancyInitType, TenancyStepType, PTL DEF TenancySpec
<1>2. TeamSpec => []TeamTypeOK
  BY TeamInitType, TeamStepType, PTL DEF TeamSpec
<1>3. DeliveryInit /\ [][DeliveryNext]_deliveryVars => []DeliveryTypeOK
  BY DeliveryInitType, DeliveryStepType, PTL
<1>4. ControlsSpec => []RestsOn
  BY RestsInit, RestsStep, PTL DEF ControlsSpec
<1>5. NotifierSpec => []SocketsInv
  BY SocketsInit, SocketsStep, PTL DEF NotifierSpec
<1>6. AgentsInit /\ [][AgentsNext]_agentsVars => []EnrollInv
  BY EnrollInit, EnrollStep, PTL
<1>7. RestsOn /\ SocketsInv /\ EnrollInv => ControlsTypeOK /\ NotifierTypeOK /\ AgentsTypeOK
  BY DEF RestsOn, SocketsInv, EnrollInv
<1>8. /\ TenancyTypeOK /\ TeamTypeOK /\ DeliveryTypeOK /\ ControlsTypeOK /\ NotifierTypeOK /\ AgentsTypeOK
      /\ AssessmentTypeOK /\ PostureTypeOK /\ CatalogTypeOK /\ PoliciesTypeOK /\ ReadinessTypeOK
      => TypesOK
  BY DEF TypesOK
<1>. QED
  BY <1>1, <1>2, <1>3, <1>4, <1>5, <1>6, <1>7, <1>8, Composition, AssessmentInvariance, PostureInvariance,
     CatalogInvariance, PoliciesInvariance, ReadinessInvariance, PTL

\* Side by side the parts keep every invariant that each keeps alone: of
\* tenants, users and staff, reports, evidence and statuses, events, agents,
\* scans, posture, frameworks, policies and readiness.
THEOREM PlatformSound ==
  Spec => [](/\ AdminLeft /\ SuperLeft /\ OncePerPeriod /\ RunsWithinPeriod
             /\ StatusAgrees /\ FilesThere /\ SocketsServed /\ EnrollmentsExplained
             /\ ScansFaithful /\ PostureFaithful /\ CatalogSound /\ PoliciesHonest /\ ReadinessTold)
<1>1. DeliveryInit /\ [][DeliveryNext]_deliveryVars => [](OncePerPeriod /\ RunsWithinPeriod)
  <2>1. PeriodInv /\ WithinInv => OncePerPeriod /\ RunsWithinPeriod
    BY DEF PeriodInv, Counted, OncePerPeriod, DeliveryTypeOK, WithinInv
  <2>. QED  BY <2>1, PeriodInit, PeriodStep, WithinInit, WithinStep, PTL
<1>2. AgentsInit /\ [][AgentsNext]_agentsVars => []EnrollmentsExplained
  BY EnrollInit, EnrollStep, EnrollMeans, PTL
<1>. QED
  BY <1>1, <1>2, Composition, AnAdminLeft, SuperAdminLeft, StatusIsRight, DocumentsHaveFiles,
     SocketsAreServed, AssessmentInvariance, PostureInvariance, CatalogInvariance, PoliciesInvariance,
     ReadinessInvariance, PTL
===============================================================================
