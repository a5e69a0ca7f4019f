\* Two tenants with a collector each, overlapping polls and submissions, one
\* lost answer, a connector with the job's number, foreign keys enforced.
CONSTANTS
  tA = tA
  tB = tB
  cA = cA
  cB = cB
  j1 = j1
  None = None
  Tenants = {tA, tB}
  Collectors = {cA, cB}
  TenantOf <- TenantOfTwo
  Jobs = {j1}
  ConnOf <- ConnOfOne
  Polls = {p1, p2}
  Submits = {s1, s2}
  Scans = {r1}
  MaxRuns = 2
  MaxLosses = 1
  EnforceFK = TRUE
SPECIFICATION Spec
SYMMETRY Symmetry
INVARIANTS TenantIsolation DoneHasFindings HandedOutOnce
\* Every collector may be deleted and every job queued: then nothing is left to do.
CHECK_DEADLOCK FALSE
