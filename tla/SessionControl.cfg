SPECIFICATION Spec
CONSTANTS
  A = A
  B = B
  Chain <- IsolatedThenCommand
  Teams <- MCTeams
  HomeTeam = A
  SpawnLimit = 1
  MaxAttempts = 1
  MaxRetries = 1
  Items <- OneItem
  CertMode = FALSE
  MaxActions = 1
  MaxCommands = 1
INVARIANTS
  CompletedIsEarned
  CheckpointMatchesTrace
PROPERTIES
  NoWorkAfterStop
  LifecycleSpec
CHECK_DEADLOCK FALSE
