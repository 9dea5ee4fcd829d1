SPECIFICATION Spec
CONSTANTS
  e1 = e1  e2 = e2  e3 = e3  p1 = p1  p2 = p2  c1 = c1  c2 = c2
  NoEvent = NoEvent
  Events <- ThreeEvents
  Producers <- Callers2
  Closers <- Closers2
  BufferSize = 2
  TTL = 1
  RetryBackoff = 1
  RequestTimeout = 1
  MaxRetries = 1
SYMMETRY Symm3
INVARIANTS NoSendOnClosed OneRecord
PROPERTY RelaySpec
CHECK_DEADLOCK FALSE
