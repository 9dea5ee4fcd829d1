SPECIFICATION FairSpec
CONSTANTS
  c1 = c1  c2 = c2
  Closers = {c1, c2}
  InitialBackoff = 2
  MaxBackoff = 4
  MulNum = 3
  MulDen = 2
  StableThreshold = 2
  PingInterval = 1
  BufferSize = 2
  MaxCount = 1
INVARIANTS ClosedIsQuiet
PROPERTIES StreamSpec ResetOnlyWhenStable BrokenNoticed KeepsTrying CloseReturns
CHECK_DEADLOCK FALSE
