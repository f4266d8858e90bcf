SPECIFICATION Spec
CONSTANTS
  Width = 2
  Inputs = 3
  World <- MCWorld
  Vars <- MCVars
  Cases <- BreakCases
  Depth = 60
INVARIANTS InductiveStepSound
