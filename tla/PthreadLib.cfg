SPECIFICATION Spec
CONSTANTS
  Mutex <- MCMutex
  Cond <- MCCond
  Programs <- AllPrograms
  MaxDepth = 40
INVARIANTS TypeOK CountsExact MutualExclusion EveryDeadlockReported
CHECK_DEADLOCK FALSE
