\* Two groups whose lists name an agent of another tenant, on any schedule, one
\* request at a time beside the engine, a crash; three instants of one day.
CONSTANTS
  tA = tA
  tB = tB
  g1 = g1
  g2 = g2
  a1 = a1
  b1 = b1
  MaxTod = 2
  Months = 1
  MonthStart <- MonthsTwo
  Groups = {g1, g2}
  Agents = {a1, b1}
  TenantOf <- TenantOfAll
  PlanSet <- AnyPlan
  MemberSets <- OwnAndForeign
  Requests = {r1}
  LastDay = 0
  MaxRequests = 1
  MaxCrashes = 1
  EnforceFK = TRUE
SPECIFICATION FairSpec
INVARIANTS JobsStayInTenant RunsOnce NextFitsPlan
PROPERTY DueSettles
\* The clock stops and every group may be deleted: then nothing is left to do.
CHECK_DEADLOCK FALSE
