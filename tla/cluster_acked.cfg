SPECIFICATION Spec
CONSTANTS
  Servers = {s1, s2, s3}
  First = s1
  FirstId = 4
  Changes = {v1}
  MaxCrashes = 2
  MaxStarts = 0
  MaxDoubts = 0
  Faults = {}
  None = None
SYMMETRY Symmetry
INVARIANT AckedKept
CHECK_DEADLOCK FALSE
