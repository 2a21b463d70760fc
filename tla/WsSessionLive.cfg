SPECIFICATION FairSpec
CONSTANTS
  get_states = get_states
  supervisor_addons = supervisor_addons
  supervisor_session = supervisor_session
  subscribe_entities = subscribe_entities
  supported_features = supported_features
  nobody = nobody
  admin = admin
  guest = guest
  NoCommand = NoCommand
  Raw = Raw
  Nothing = Nothing
  SupportedFeatures = supported_features
  Commands <- MCFewCommands
  SupervisorCalls <- MCFewSupervisorCalls
  SessionCall = supervisor_addons
  Subscriptions <- MCFeeds
  Feeds <- MCFeeds
  Policies <- MCPolicies
  NoPolicy = nobody
  FullAccess <- MCFullAccess
  Allows <- MCAllows
  MaxId = 2
  MaxBatch = 2
  MaxPending = 2
  MaxEndpoints = 1
PROPERTY
  CommandsAnswered
CHECK_DEADLOCK FALSE
