\* One request at a time.
CONSTANTS
  None = None
  Requests = {r1}
  Comments = {x1, x2}
  Files = {f1, f2}
  MaxChanges = 8
SPECIFICATION Spec
PROPERTY ImplementsWorkflow
\* A closed ticket with every comment and file posted has nothing left to do.
CHECK_DEADLOCK FALSE
