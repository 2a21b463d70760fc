SPECIFICATION Spec
CONSTANTS
  ProxyPorts <- MCProxyPorts
  UpstreamPorts <- MCUpstreamPorts
  HomePort = 8123
  MaxEdits = 1
  TrialsFail = FALSE
  Patient = TRUE
  None = None
PROPERTY
  RestoreLeavesLoopback
CHECK_DEADLOCK FALSE
