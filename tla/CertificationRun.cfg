SPECIFICATION Spec
CONSTANTS
  lead1 = lead1
  lead2 = lead2
  worker2 = worker2
  Leads = {lead1, lead2}
  Workers = {worker2}
  LeadOf <- OneWorker
  LeadOutcomes <- Outcomes
  WorkerOutcomes <- FewOutcomes
  Claims = {"ready"}
  Intents = {"message", "pause", "resume", "stop"}
  MaxSteers = 2
INVARIANTS Reviewed SoundRunPasses SteeringIsSeen
CHECK_DEADLOCK FALSE
