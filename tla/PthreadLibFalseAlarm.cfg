SPECIFICATION Spec
CONSTANTS
  Mutex <- MCMutex
  Cond <- MCCond
  Programs <- JoiningPrograms
  MaxDepth = 40
INVARIANTS OnlyDeadlocksReported
CHECK_DEADLOCK FALSE
