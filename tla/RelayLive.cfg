\* One result of each kind, and an intermediary that may answer 200 itself.
CONSTANTS
  r1 = r1
  r2 = r2
  r3 = r3
  None = None
  Results <- ResultsMixed
  Kind <- KindMixed
  Limit = 1
  MaxFaults = 1
  Garbling = TRUE
SPECIFICATION FairSpec
PROPERTY UnblockedSettles
