SPECIFICATION FairSpec
CONSTANTS
  Procs = {p1, p2}
  Conns = {c1, c2}
  N = 2
  Dialects = {"mysql", "postgres", "sqlite"}
  Overlap = {"mysql", "postgres"}
  MaxHeld = 1
  NoConn = none
INVARIANTS CleanMeansApplied OneMigrator UpReached
PROPERTIES CallsReturn
