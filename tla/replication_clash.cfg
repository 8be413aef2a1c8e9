SPECIFICATION FairSpec
CONSTANTS
  a = a  ab = ab  u = u  v1 = v1
  NoConn = NoConn  NoServer = NoServer  Absent = Absent  Free = Free  Attacher = Attacher
  Backups = {b1}
  Writers = {w1}
  Conns = {c1, c2}
  Files = {a, ab}
  Users = {}
  Values = {v1}
  Clash <- MCClash
  Disks <- MCDisks
PROPERTIES CatchesUp
CHECK_DEADLOCK FALSE
