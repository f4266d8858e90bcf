SPECIFICATION MCSpec
CONSTANTS
  MaxKStep = 3
  KStep = 1
  Faults = {"crash", "front_end", "exception"}
  Uninit <- MCUninit
INVARIANTS TypeOK SuccessSound HeardFailureSound NoOrphans
PROPERTIES VerdictRefinement Terminates
CHECK_DEADLOCK FALSE
