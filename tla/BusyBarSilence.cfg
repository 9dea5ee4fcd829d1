SPECIFICATION FairSpec
CONSTANTS
  c1 = c1  c2 = c2
  Closers = {c1}
  InitialBackoff = 2
  MaxBackoff = 3
  MulNum = 3
  MulDen = 2
  StableThreshold = 2
  PingInterval = 1
  BufferSize = 1
  MaxCount = 0
PROPERTY SilenceNoticed
CHECK_DEADLOCK FALSE
