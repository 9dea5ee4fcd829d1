SPECIFICATION LFairSpec
CONSTANTS
  r1 = r1  r2 = r2  r3 = r3
  b1 = b1  b2 = b2
  None = None
  Partial = Partial
  Requests = {r1, r2, r3}
  Browsers = {b1, b2}
  MaxLogins = 2
  MaxCrashes = 2
INVARIANTS FileComplete MemoryMatchesFile TempsBounded BoundByConsent StatusCoherent
PROPERTIES BindingSpec Answered
CHECK_DEADLOCK FALSE
