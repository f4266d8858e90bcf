SPECIFICATION Spec
CONSTANTS
  Width = 2
  Inputs = 3
  World <- MCWorld
  Vars <- MCVars
  Cases <- MCCases
  Depth = 60
INVARIANTS TypeOK OnePathPerInput SymbolsAssignedOnce LoopConversionEnds BaseCaseExact ForwardConditionExact InductiveStepSound SlicedEquationClosed
