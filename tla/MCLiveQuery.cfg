CONSTANTS
    Messages <- MCMessages
    Conversations <- MCConversations
    Shards <- MCShards
    Requests <- MCRequests
    InitialMessages <- MCInitialMessages
    PageLimit = 2
    ScanBudget = 2
    ConversationBudget = 2
    MaxChanges = 2
    MaxTroubles = 1
SPECIFICATION Spec
INVARIANTS NothingMissed ReturnedOnce
PROPERTIES PagesEnd
CHECK_DEADLOCK FALSE
