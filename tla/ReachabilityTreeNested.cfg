SPECIFICATION Spec
CONSTANTS
  Programs <- NestedPrograms
  Vars <- MCVars
  Options <- DefaultOnly
INVARIANTS EveryOutcomeChecked
CHECK_DEADLOCK FALSE
