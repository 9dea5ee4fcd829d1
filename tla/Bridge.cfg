SPECIFICATION FairSpec
CONSTANTS
  Launches <- MCLaunches
  MaxFrames = 1
INVARIANTS StartedAsConfigured CleanReturn
PROPERTIES RunEnds NothingLeft TelemetryFollows
CHECK_DEADLOCK FALSE
