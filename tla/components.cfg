SPECIFICATION ComponentsSpec
CONSTANTS
  Parts = {"stream", "loki", "client", "heartbeat", "gate", "log"}
  Chunks = {"a", "b"}
  MaxChunks = 3
  MaxBlocks = 3
  MaxEvents = 6
  AttrKeys <- AttrLists
  LabelKeys <- Labels
  Groups = {"g"}
  MaxHandlers = 5
  RemotePaths = {p1}
  Contents = {c1, c2}
  NoFile = NoFile
  MaxCalls = 3
  Interval = 3
  MaxDelay = 2
  MaxClock = 12
  Flows = {w1}
  MaxRuns = 2
  Configs <- WaitConfigs
  Literals <- LiteralBodies
  MaxTokens = 3
  Limits = {4, 9}
INVARIANTS
  Readable TextHasReceived OnlyForksClash EntryComplete
  FilesFollowCalls RunsOnce SeenIsAlive GateHolds GivesUpInTime TerminalIsFinal
  TraceIsFaithful
CHECK_DEADLOCK FALSE
