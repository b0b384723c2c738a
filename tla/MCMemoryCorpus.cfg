CONSTANTS
  Kind <- MCKind
  MonthLength = 10
  CalendarEnd = 20
  MessageSet <- MCMessages
  Policies <- MCPolicies
  InitialLive <- MCInitialLive
  MaxCorpora = 2
  MaxTroubles = 1
SPECIFICATION Spec
INVARIANTS
  OncePerCorpus
  SelectionExact
  FrontierShared
PROPERTIES
  NothingLost
  NoGhosts
CHECK_DEADLOCK FALSE
