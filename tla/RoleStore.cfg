SPECIFICATION FairSpec
CONSTANTS
  Users = {"ann"}
  Custom = {"kids", "guests"}
  Conditional = {"kids"}
  Predefined = {"user"}
  DefaultFor <- MCDefaultFor
  Grants = {"lamp"}
  MaxEdits = 3
  MaxCrashes = 1
  MaxRegistry = 1
  MaxRunning = 1
  None = None
INVARIANTS
  TypeOK
  AnswersAreCurrent
  HeldIsLive
  NoDanglingBinding
PROPERTIES
  ImplementsDurableStore
  EditsAreAnswered
