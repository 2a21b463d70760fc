SPECIFICATION FairSpec
CONSTANTS
  terminal = terminal
  s1 = s1
  s2 = s2
  s3 = s3
  alice = alice
  bob = bob
  q1 = q1
  q2 = q2
  None = None
  Tokens <- MCOneAddon
  Sessions <- MCOneSession
  Users <- MCOneUser
  Requests <- MCRequests
  MaxTime = 2
  SessionTtl = 1
  MissInterval = 0
  MaxSessions = 1
INVARIANTS
  TypeOK
PROPERTIES
  UnguardedOnlyNewer
  RequestsAnswered
CHECK_DEADLOCK FALSE
