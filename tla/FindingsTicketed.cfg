\* No foreign keys: a ticket is raised while a scan is about to clear.
CONSTANTS
  None = None
  Conns = {c1}
  Real = {c1}
  JobIds = {c1}
  Events = {e1, e2}
  Tickets = {k1}
  Scans = {s1}
  Drafts = {d1}
  MaxCrashes = 0
  EnforceFK = FALSE
SPECIFICATION Spec
INVARIANT TicketsKeepFinding
\* Every finding id used and every connector removed: nothing is left to do.
CHECK_DEADLOCK FALSE
