SPECIFICATION FairSpec
CONSTANTS
  build = build
  review = review
  ann = ann
  bob = bob
  eve = eve
  Stranger = Stranger
  Teams <- TwoTeams
  Members <- TwoAndOne
  StrictTeams = {build}
  SessionMax = 2
  TeamMax = 1
  ReadOnlySets <- NoneOrReview
  MaxHeals = 1
  MaxRetries = 1
  Verdicts = {"PASS", "REWORK", "FIX", "SENIOR", "BARE"}
  CanStop = TRUE
  SessionLimit = 5
  AgentLimit = 2
INVARIANTS LimitsHeld VerifiedCovers TreesMatchWork OverrunBounded
PROPERTIES  StepEnds
CHECK_DEADLOCK FALSE
