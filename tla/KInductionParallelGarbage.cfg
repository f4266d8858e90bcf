SPECIFICATION MCSpec
CONSTANTS
  MaxKStep = 3
  KStep = 1
  Faults = {"front_end"}
  Uninit <- MCUninit
INVARIANTS FailureSound
CHECK_DEADLOCK FALSE
