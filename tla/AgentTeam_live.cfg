CONSTANTS
  l = l
  a = a
  b = b
  Members = {l, a, b}
  Leader = l
  Siblings = TRUE
  MaxDepth = 2
  MaxConcurrent = 2
  MaxTotalTurns = 4
  MaxPending = 2
  MaxSteers = 1
SPECIFICATION FairSpec
INVARIANTS TypeOK AtWorkWithinLimit HeardInOrder OrphansStopped
PROPERTIES TeamSettles
CHECK_DEADLOCK FALSE
