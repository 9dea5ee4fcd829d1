SPECIFICATION Spec
CONSTANTS
  p1 = p1  p2 = p2  c1 = c1  c2 = c2
  Pushers = {p1, p2}
  Closers = {c1, c2}
  MaxFrames = 4
INVARIANT CloseTerminatesWorker
CHECK_DEADLOCK FALSE
