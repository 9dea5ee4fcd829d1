SPECIFICATION FairSpec
CONSTANTS
  e1 = e1  e2 = e2  e3 = e3  p1 = p1  p2 = p2  c1 = c1  c2 = c2
  NoEvent = NoEvent
  Events = {e1, e2}
  Producers = {p1}
  Closers = {c1}
  BufferSize = 2
  TTL = 2
  RetryBackoff = 1
  RequestTimeout = 1
  MaxRetries = 1
PROPERTIES EventuallySettled CloseReturns
CHECK_DEADLOCK FALSE
