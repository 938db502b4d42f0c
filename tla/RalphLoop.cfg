SPECIFICATION Spec
CONSTANTS
  Files = {"coder", "critic"}
  Sessions = {"golden", "new", "smoke", "lost"}
  Trace <- OfSessions
  Registered <- AtFirst
  Shapes <- SomeShapes
  Replays <- SomeReplays
  MinCoverage = 1
  MaxCost = 5
  Multiplier = 2
  RequireScores = FALSE
  TraceLimit = 2
  MaxRuns = 2
  MaxProposed = 2
  MaxEdits = 1
  MaxPromoted = 1
INVARIANTS FilesAreVerified
PROPERTIES AcceptedStays
CHECK_DEADLOCK FALSE
