CONSTANTS
  chain = chain
  pair = pair
  s1 = s1
  q1 = q1
  q2 = q2
  q3 = q3
  Sessions = {s1}
  Requests = {q1, q2, q3}
  Graphs = {}
  Needs <- MCNeeds
  MaxConcurrentRuns = 2
  MaxRuns = 3
  MaxWaits = 0
  MaxResumes = 1
  CallsInLaunchGap = FALSE
SYMMETRY Symmetry
SPECIFICATION Spec
INVARIANTS HistoryComplete OneAttemptPerSession
PROPERTIES ImplementsSessionQueue
