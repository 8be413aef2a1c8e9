SPECIFICATION FairSpec
CONSTANTS
  Servers = {s1, s2, s3}
  First = s1
  FirstId = 4
  Changes = {}
  MaxCrashes = 1
  MaxStarts = 0
  MaxDoubts = 0
  Faults = {"crash_in_join"}
  None = None
PROPERTY FailsOver
CHECK_DEADLOCK FALSE
