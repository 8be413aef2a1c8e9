SPECIFICATION Spec
CONSTANTS
  a = a  ab = ab  u = u  v1 = v1
  NoConn = NoConn  NoServer = NoServer  Absent = Absent  Free = Free  Attacher = Attacher
  Backups = {b1}
  Writers = {w1, w2}
  Conns = {c1, c2}
  Files = {a, ab}
  Users = {u}
  Values = {v1}
  Clash <- MCClash
  Disks <- MCDisks
SYMMETRY Symmetry
INVARIANTS TypeOK   OverdueIsSuspect
 
CHECK_DEADLOCK FALSE
