SPECIFICATION Spec
CONSTANTS
  Servers = {s1, s2, s3}
  First = s1
  FirstId = 4
  Changes = {}
  MaxCrashes = 0
  MaxStarts = 0
  MaxDoubts = 0
  Faults = {"joins_at_once"}
  None = None
SYMMETRY Symmetry
INVARIANT UniqueIds
CHECK_DEADLOCK FALSE
