CONSTANTS
  MaxRequests = 2
  MaxEvents = 2
  MaxInFlight = 2
  MaxResumes = 1
  MaxLosses = 1
SPECIFICATION FairSpec
INVARIANT AnswerHeard
PROPERTIES AnswerEnds
CHECK_DEADLOCK FALSE
