CONSTANTS
  s1 = s1
  q1 = q1
  q2 = q2
  chain = chain
  pair = pair
  Sessions = {s1}
  Requests = {q1, q2}
  Graphs = {chain, pair}
  Needs <- MCNeeds
  MaxConcurrentRuns = 1
  MaxRuns = 2
  MaxWaits = 1
  MaxResumes = 1
  CallsInLaunchGap = TRUE
SPECIFICATION FairSpec
INVARIANTS WithinCapacity AttemptOwnsRow DependenciesKept
PROPERTIES SettledFinal RunnableProgress CloseReleases
