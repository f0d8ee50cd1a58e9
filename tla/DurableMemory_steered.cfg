CONSTANTS
  Policies = {"message", "turn", "run"}
  AgentPolicy = "turn"
  RunScripts <- Steered
  AgentScripts <- Queued
  MaxEpochs <- Segments
  MaxAttempts = 2
  MaxFaults = 1
  MaxRetries = 1
SPECIFICATION Spec
INVARIANT TranscriptSaved
CHECK_DEADLOCK FALSE
