SPECIFICATION Spec
CONSTANTS
  IntVars <- MCIntVars
  FloatVars <- MCFloatVars
  Cases <- MCCases
  Nondet <- MCNondet
  Depth = 30
  Width = 0
INVARIANTS TypeOK NothingForgotten IntervalsSound AssumptionsHold OrderDoesNotMatter
PROPERTIES Terminates
CHECK_DEADLOCK FALSE
