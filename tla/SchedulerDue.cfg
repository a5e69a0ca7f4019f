\* One group, and a request that changes nothing of its schedule.
CONSTANTS
  tA = tA
  tB = tB
  g1 = g1
  g2 = g2
  a1 = a1
  b1 = b1
  MaxTod = 1
  Months = 1
  MonthStart <- MonthsTwo
  Groups = {g1}
  Agents = {a1, b1}
  TenantOf <- TenantOfAll
  PlanSet <- ManualDaily
  MemberSets <- OwnAndForeign
  Requests = {r1}
  LastDay = 1
  MaxRequests = 1
  MaxCrashes = 0
  EnforceFK = TRUE
SPECIFICATION Spec
PROPERTY DueIsServed
\* The clock stops and every group may be deleted: then nothing is left to do.
CHECK_DEADLOCK FALSE
