CONSTANTS
  pay = pay
  look = look
  m1 = m1
  Calls = {pay, look}
  Recovery <- MCRecovery
  ApprovalSets <- MCApprovals
  Answers <- MCAnswers
  Inputs = {m1}
  ToolConcurrency = 2
  MaxModelTurns = 2
  MaxAttempts = 2
  MaxRestarts = 1
  MaxRetries = 1
  MaxResponses = 2
SPECIFICATION FairSpec
INVARIANTS TypeOK ReplayFaithful SteeringHeard ManualOnce ApprovedFirst BudgetsKept TranscriptWhole
PROPERTIES CompletedKept Settles
CHECK_DEADLOCK FALSE
