SPECIFICATION FairSpec
CONSTANTS
  A = A
  B = B
  Chain <- AgentOnly
  Teams <- OneTeam
  HomeTeam = A
  SpawnLimit = 1
  MaxAttempts = 1
  MaxRetries = 1
  Items <- OneItem
  CertMode = FALSE
  MaxActions = 1
  MaxCommands = 2
INVARIANTS
  PauseFlagAgrees
PROPERTIES
  StopEndsRun
  RunTerminates
CHECK_DEADLOCK FALSE
