CONSTANTS
  r = r
  a = a
  b = b
  RootKeys = {r}
  ChildKeys = {a, b}
  AgentKeys = {}
  WaitKinds = {"allSettled", "failFast"}
  Recovery = "manual"
  MaxConcurrentTasks = 2
  MaxTasks = 3
  MaxEffects = 0
  MayExceedLimits = FALSE
  MicrotaskGaps = TRUE
SPECIFICATION Spec
INVARIANTS NoOrphans Fenced NothingForgotten
PROPERTIES OutcomesFinal
