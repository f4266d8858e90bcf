SPECIFICATION Spec
CONSTANTS
  MaxKStep = 5
  MaxIncrement = 3
  MaxInductive = 4
  HiddenSpawn = TRUE
  MultiProperty = FALSE
INVARIANTS DisabledStepProvesNothing
CHECK_DEADLOCK FALSE
