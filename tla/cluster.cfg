SPECIFICATION FairSpec
CONSTANTS
  Servers = {s1, s2, s3}
  First = s1
  FirstId = 4
  Changes = {v1, v2}
  MaxCrashes = 2
  MaxStarts = 0
  MaxDoubts = 0
  Faults = {}
  None = None
INVARIANTS HighestLeads OneCrashLosesNothing LinkedHasAll
PROPERTY FailsOver
CHECK_DEADLOCK FALSE
