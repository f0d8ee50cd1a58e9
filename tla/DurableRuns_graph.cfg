CONSTANTS
  s1 = s1
  q1 = q1
  chain = chain
  pair = pair
  Sessions = {s1}
  Requests = {q1}
  Graphs = {chain}
  Needs <- MCNeeds
  MaxConcurrentRuns = 1
  MaxRuns = 3
  MaxWaits = 0
  MaxResumes = 1
  CallsInLaunchGap = FALSE
SPECIFICATION Spec
INVARIANT InputsResolved
