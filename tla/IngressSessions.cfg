SPECIFICATION Spec
CONSTANTS
  terminal = terminal
  s1 = s1
  s2 = s2
  s3 = s3
  alice = alice
  bob = bob
  q1 = q1
  q2 = q2
  None = None
  Tokens <- MCOneAddon
  Sessions <- MCThreeSessions
  Users <- MCUsers
  Requests <- MCOneRequest
  MaxTime = 2
  SessionTtl = 1
  MissInterval = 2
  MaxSessions = 2
PROPERTIES
  ForgottenLast
  OpenedByItsUser
SYMMETRY
  Symmetric
CHECK_DEADLOCK FALSE
