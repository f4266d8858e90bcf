SPECIFICATION Spec
CONSTANTS
  IntVars <- MCIntVars
  FloatVars <- MCFloatVars
  Cases <- RecursiveCases
  Nondet <- MCNondet
  Depth = 30
  Width = 0
INVARIANTS AssumptionsHold
CHECK_DEADLOCK FALSE
