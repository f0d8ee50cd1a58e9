CONSTANTS
  r = r
  g = g
  RootKeys = {r}
  ChildKeys = {}
  AgentKeys = {g}
  WaitKinds = {"failFast", "signal", "timer"}
  Recovery = "manual"
  MaxConcurrentTasks = 1
  MaxTasks = 2
  MaxEffects = 2
  MayExceedLimits = TRUE
  MicrotaskGaps = FALSE
SPECIFICATION FairSpec
INVARIANTS TypeOK ManualEffectOnce OwnedRunsEnd
PROPERTIES CancelSettles WaitersWake
