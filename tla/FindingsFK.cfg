\* Foreign keys enforced; a job has the connector's number; scans and ticket requests overlap.
CONSTANTS
  None = None
  Conns = {c1}
  Real = {c1}
  JobIds = {c1}
  Events = {e1, e2}
  Tickets = {k1, k2}
  Scans = {s1, s2}
  Drafts = {d1, d2}
  MaxCrashes = 1
  EnforceFK = TRUE
SPECIFICATION Spec
SYMMETRY Symmetry
INVARIANTS TicketedHasTicket LinksAgree TicketsKeepFinding NumbersRise
\* Every finding id used and every connector removed: nothing is left to do.
CHECK_DEADLOCK FALSE
