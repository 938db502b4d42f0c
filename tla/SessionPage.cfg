SPECIFICATION FairSpec
CONSTANTS
  Stories <- SomeStories
  Keep = 1
  ChannelSize = 1
  MaxHandlers = 2
  MaxPolls = 2
  MaxLoads = 1
  MaxBreaks = 1
  MaxAgain = 1
  MaxOvertaken = 1
PROPERTIES
  PageCatchesUp
  AgentsCatchUp
CHECK_DEADLOCK FALSE
