\* Two followers of one replica, ended by what they refuse: what must happen.
CONSTANTS
  o1 = o1
  x = x
  y = y
  z = z
  c1 = c1
  c2 = c2
  f1 = f1
  f2 = f2
  Nothing = Nothing
  Retained = Retained
  Process <- MCProcess
  Path <- MCPath
  Content <- MCContent
  Retentions <- MCRetentions
  Refusing <- MCRefusing
  Follower <- MCFollower
  MaxGeneration = 3
  MaxHistory = 3
  MaxFaults = 0
SPECIFICATION FollowSpec
PROPERTIES
  CatchesUp
CHECK_DEADLOCK FALSE
