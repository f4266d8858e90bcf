SPECIFICATION Spec
CONSTANTS
  MaxKStep = 5
  MaxIncrement = 3
  MaxInductive = 4
  HiddenSpawn = FALSE
  MultiProperty = FALSE
INVARIANTS TypeOK UnknownIsHonest DisabledStepProvesNothing
PROPERTIES VerdictRefinement
CHECK_DEADLOCK FALSE
