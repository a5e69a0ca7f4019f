\* No foreign keys (SQLite); one scan and one ticket request at a time.
CONSTANTS
  None = None
  Conns = {c1, c2}
  Real = {c1}
  JobIds = {c1, j2}
  Events = {e1, e2}
  Tickets = {k1, k2}
  Scans = {s1}
  Drafts = {d1}
  MaxCrashes = 1
  EnforceFK = FALSE
SPECIFICATION FairSpec
INVARIANT OneScanShown
PROPERTY ScanningEnds
\* Every finding id used and every connector removed: nothing is left to do.
CHECK_DEADLOCK FALSE
