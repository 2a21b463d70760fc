SPECIFICATION Spec
CONSTANTS
  get_states = get_states
  supervisor_addons = supervisor_addons
  supervisor_session = supervisor_session
  subscribe_entities = subscribe_entities
  supported_features = supported_features
  nobody = nobody
  admin = admin
  guest = guest
  NoCommand = NoCommand
  Raw = Raw
  Nothing = Nothing
  SupportedFeatures = supported_features
  Commands <- MCCommands
  SupervisorCalls <- MCSupervisorCalls
  SessionCall = supervisor_session
  Subscriptions <- MCFeeds
  Feeds <- MCFeeds
  Policies <- MCPolicies
  NoPolicy = nobody
  FullAccess <- MCFullAccess
  Allows <- MCAllows
  MaxId = 3
  MaxBatch = 2
  MaxPending = 2
  MaxEndpoints = 1
INVARIANTS
  TypeOK
  LabelFaithful
  ReplyNotLost
  EndpointJudged
  SessionsTied
  RefusedNeverRuns
  OpeningArrives
PROPERTIES
  RawOnlyWhenEntitled
  LiveCallKeepsEndpoint
CHECK_DEADLOCK FALSE
