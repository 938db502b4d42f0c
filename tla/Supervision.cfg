SPECIFICATION FairSpec
CONSTANTS
  Agents = {"a","b"}
  RuleBased = 1
  Costs = {19}
  SessionLimit = 20
  AgentLimit = 19
  BudgetAction = "pause"
INVARIANTS DrainedIsFinal EscalationIsEarned
PROPERTIES TriggersAreHeard StallsAreNudged
CHECK_DEADLOCK FALSE
