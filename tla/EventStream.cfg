SPECIFICATION FairSpec
CONSTANTS
  Events = {m1, m2, e}
  UserMessages = {m1, m2}
  ChannelSize = 2
  WireSize = 1
  MaxReplayErrors = 1
  MaxAppendErrors = 1
  MaxBreaks = 2
  MaxClears = 1
INVARIANTS
  ActedOnce
  CaughtUp
PROPERTIES
  EveryMessageActedOn
CHECK_DEADLOCK FALSE
