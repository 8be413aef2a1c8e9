SPECIFICATION FairSpec
CONSTANTS
  Servers = {s1, s2}
  First = s1
  FirstId = 3
  Changes = {v1}
  MaxCrashes = 2
  MaxStarts = 2
  MaxDoubts = 1
  Faults = {}
  None = None
INVARIANTS TypeOK OnePrimary
PROPERTY Relinks
CHECK_DEADLOCK FALSE
