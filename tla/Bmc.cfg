SPECIFICATION MCSpec
CONSTANTS
  Programs <- AllPrograms
  Vars <- MCVars
  Options <- MCOptions
  Configs <- MCConfigs
INVARIANTS BmcTypeOK EveryOutcomeChecked OnlyRealOutcomes NoInterleavingTwice ClaimsCounted
INVARIANTS VerdictExact EveryViolationReported FailFastReportsOne
PROPERTIES JobsEnd
CHECK_DEADLOCK FALSE
