CONSTANTS
  chain = chain
  pair = pair
  s1 = s1
  q1 = q1
  q2 = q2
  q3 = q3
  Sessions = {s1}
  Requests = {q1, q2, q3}
  Graphs = {}
  Needs <- MCNeeds
  MaxConcurrentRuns = 1
  MaxRuns = 3
  MaxWaits = 0
  MaxResumes = 1
  CallsInLaunchGap = TRUE
SYMMETRY Symmetry
SPECIFICATION Spec
PROPERTIES SessionOrder
