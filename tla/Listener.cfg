SPECIFICATION FairSpec
CONSTANTS
  MaxReloads = 3
  MaxForeign = 2
  BindRetries = 2
  MaxConns = 2
INVARIANTS
  TypeOK
  GuardedWhileLoaded
PROPERTIES
  ServesAgain
  OldConnectionsEnd
CHECK_DEADLOCK FALSE
