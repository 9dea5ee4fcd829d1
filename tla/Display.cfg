SPECIFICATION FairSpec
CONSTANTS
  Minute = 2
  Items <- MCItems
  Email = "user"
  KeepAlive = 1
  Horizon = 1
  MaxItems = 2
  MaxEdits = 1
  Spaces <- MCSpaces
  Font <- MCFont
  Capital <- MCCapital
  Unknown = "?"
  Fallback <- MCFallback
INVARIANTS NeverOverdue
PROPERTIES OutageKeepsMeeting ScreenConverges MeetingsLeave
CHECK_DEADLOCK FALSE
