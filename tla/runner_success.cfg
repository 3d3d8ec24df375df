SPECIFICATION Spec
CONSTANTS
  NoErr = NoErr
  RunErr = RunErr
  StopErr = StopErr
  Timeout = Timeout
INVARIANT SuccessMeansFinished
CHECK_DEADLOCK FALSE
