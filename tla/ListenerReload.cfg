SPECIFICATION Spec
CONSTANTS
  MaxReloads = 2
  MaxForeign = 1
  BindRetries = 2
  MaxConns = 1
INVARIANTS
  LoadedRulesJudge
CHECK_DEADLOCK FALSE
