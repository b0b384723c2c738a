\* Two snapshots and three archives beside a client that writes and checkpoints.
CONSTANTS
  p1 = p1
  p2 = p2
  Nothing = Nothing
  Source <- MCSource
  Page <- MCPage
  MaxChanges <- MCMaxChanges
  MaxCommits <- MCMaxCommits
  MaxAttempts = 2
  MaxSnapshots = 2
  MaxArchives = 3
SYMMETRY Symmetric
SPECIFICATION Spec
INVARIANTS
  FreshCommitted
  NothingDropped
CHECK_DEADLOCK FALSE
