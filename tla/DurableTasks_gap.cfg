CONSTANTS
  r = r
  g = g
  RootKeys = {r}
  ChildKeys = {}
  AgentKeys = {g}
  WaitKinds = {"allSettled"}
  Recovery = "manual"
  MaxConcurrentTasks = 1
  MaxTasks = 2
  MaxEffects = 0
  MayExceedLimits = FALSE
  MicrotaskGaps = TRUE
SPECIFICATION Spec
INVARIANT OwnedRunsEnd
