SPECIFICATION Spec
CONSTANTS
  MaxEvents = 4
  Events <- AllEvents
  Capacity = 2
  RingCapacity = 2
  Inputs = {"button", "encoder", "switch"}
  Noise = "noise"
  MaxUpdates = 2
  Clock = 9
  Precision = 8
  Overflow <- MCOverflow
  Deltas <- MCDeltas
  Stamps <- MCStamps
INVARIANTS RingIsNewest OutcomeOnItsTrace Books OneSchema SentIsReadable
CHECK_DEADLOCK FALSE
