\* A consumer whose replica is recovered from a backup.
CONSTANTS
  a = a
  b = b
  d1 = d1
  d2 = d2
  t1 = t1
  t2 = t2
  n1 = n1
  n2 = n2
  s1 = s1
  s2 = s2
  Nothing = Nothing
  Conversation <- MCConversation
  Message <- MCMessage
  Home <- MCHome
  Database <- MCDatabase
  ShardOf <- MCShardOf
  Text <- MCText
  Name <- MCName
  Restored <- MCRestored
  Syncer <- MCSyncer
  Authorized <- MCAuthorized
  PageSize = 1
  MaxCheckpoint = 3
  MaxReplica = 1
  MaxRecovery = 1
SPECIFICATION RecoverySpec
INVARIANTS
  NothingMissed
