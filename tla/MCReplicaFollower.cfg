\* Two followers of one replica beside the publisher, one crash: what may never happen.
CONSTANTS
  o1 = o1
  x = x
  y = y
  z = z
  c1 = c1
  c2 = c2
  f1 = f1
  f2 = f2
  Nothing = Nothing
  Retained = Retained
  Process <- MCProcess
  Path <- MCPath
  Content <- MCContent
  Retentions <- MCRetentions
  Refusing <- MCRefusing
  Follower <- MCFollower
  MaxGeneration = 3
  MaxHistory = 3
  MaxFaults = 1
INIT FollowInit
NEXT FollowNext
SYMMETRY MCSymmetry
INVARIANTS
  StateCommitted
PROPERTIES
  NoRollback
CHECK_DEADLOCK FALSE
