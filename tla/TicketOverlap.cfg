\* Two overlapping requests.
CONSTANTS
  None = None
  Requests = {r1, r2}
  Comments = {x1, x2}
  Files = {f1, f2}
  MaxChanges = 5
SPECIFICATION Spec
SYMMETRY Symmetry
INVARIANTS ApprovedFirst EvidenceOnDisk AuditTellsStatus PostsKept
\* A closed ticket with every comment and file posted has nothing left to do.
CHECK_DEADLOCK FALSE
