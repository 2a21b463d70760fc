SPECIFICATION FairSpec
CONSTANTS
  ProxyPorts <- MCProxyPort
  UpstreamPorts <- MCUpstreamPorts
  HomePort = 8123
  MaxEdits = 2
  TrialsFail = TRUE
  Patient = FALSE
  None = None
INVARIANTS
  TypeOK
  UnconfirmedIsReverted
  
PROPERTIES
  PermanentOnlyOnceServing
  
CHECK_DEADLOCK FALSE
