\* Two operators, archives that share paths and contents.
CONSTANTS
  o1 = o1
  o2 = o2
  x = x
  y = y
  z = z
  c1 = c1
  c2 = c2
  Nothing = Nothing
  Retained = Retained
  Process <- MCProcess
  Path <- MCPath
  Content <- MCContent
  Retentions <- MCRetentions
  MaxGeneration = 4
  MaxHistory = 4
SYMMETRY MCSymmetry
SPECIFICATION PubSpec
INVARIANTS
  NothingLost
  ProtectedServable
PROPERTIES
  ChainUnbroken
CHECK_DEADLOCK FALSE
