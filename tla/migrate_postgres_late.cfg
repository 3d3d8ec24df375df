SPECIFICATION Spec
CONSTANTS
  Procs = {p1, p2}
  Conns = {c1, c2}
  N = 2
  Dialects = {"postgres"}
  Overlap = {"postgres"}
  MaxHeld = 0
  NoConn = none
INVARIANTS ReleasedClean
