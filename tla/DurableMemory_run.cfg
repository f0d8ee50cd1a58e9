CONSTANTS
  Policies = {"message", "turn", "run"}
  AgentPolicy = "turn"
  RunScripts <- Direct
  AgentScripts <- Direct
  MaxEpochs <- Segments
  MaxAttempts = 2
  MaxFaults = 2
  MaxRetries = 1
SPECIFICATION FairSpec
INVARIANTS TypeOK InOrderOnce TranscriptSaved CompactionWhole
PROPERTIES MergeNoticed FlushEnds
CHECK_DEADLOCK FALSE
