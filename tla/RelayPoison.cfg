\* One malformed result and one good one, no interruption at all.
CONSTANTS
  r1 = r1
  r2 = r2
  r3 = r3
  None = None
  Results <- ResultsPoison
  Kind <- KindPoison
  Limit = 20
  MaxFaults = 0
  Garbling = FALSE
SPECIFICATION FairSpec
PROPERTY EveryResultForwarded
