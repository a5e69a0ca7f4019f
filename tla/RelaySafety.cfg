\* Safety and refinement: interruptions in every position.
CONSTANTS
  r1 = r1
  r2 = r2
  r3 = r3
  None = None
  Results <- ResultsMixed
  Kind <- KindGood
  Limit = 2
  MaxFaults = 2
  Garbling = FALSE
SPECIFICATION Spec
INVARIANTS NothingLost InOrder DuplicatesExplained
PROPERTY ImplementsService
