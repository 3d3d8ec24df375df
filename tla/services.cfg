SPECIFICATION ServicesSpec
CONSTANTS
  Parts = {"db", "downloads", "gate", "setup", "map", "log", "app"}
  Services = {s1, s2}
  MaxPings = 2
  Urls = {u1, u2, u3}
  Paths = {p1, p2}
  Targets <- SharedTarget
  WorkerLimit = 2
  BodyLen = 2
  Befores <- NewOrOld
  Flows = {w1}
  MaxRuns = 1
  Configs <- WaitConfigs
  Starters = {c1, c2}
  Needs <- StreamNeeds
  MapKeys = {k1, k2}
  Goroutines = {g1, g2}
  MaxOps = 3
  Literals <- LiteralBodies
  MaxTokens = 2
  Limits = {4}
  NoErr = NoErr
  RunErr = RunErr
  StopErr = StopErr
  Timeout = Timeout
  MaxConns = 2
INVARIANTS
  PoolsReleased EnsureRace WorkersLimited NilMeansComplete
  ClashNeedsDifference VisitsAreConsistent 
  DoneAfterAll FailureReported NilMeansDrained CleanExit
PROPERTIES
  EveryCallEnds
  RunnerReturns GoroutinesEnd PortReleased AppEnds
CHECK_DEADLOCK FALSE
