SPECIFICATION Spec
CONSTANTS
  e1 = e1  e2 = e2  e3 = e3  p1 = p1  p2 = p2  c1 = c1  c2 = c2
  NoEvent = NoEvent
  Events = {e1, e2}
  Producers = {p1}
  Closers = {c1}
  BufferSize = 1
  TTL = 4
  RetryBackoff = 1
  RequestTimeout = 2
  MaxRetries = 2
INVARIANTS FreshPost OutcomeJustified DeliveryBound
CHECK_DEADLOCK FALSE
