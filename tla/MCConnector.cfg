\* Two processes, two checkpoints of two sources, one fault.
CONSTANTS
  c1 = c1
  c2 = c2
  f1 = f1
  f2 = f2
  Nobody = Nobody
  Service <- MCService
  Requests <- MCAll
  MaxRequests = 2
  MaxCheckpoint = 2
  FingerprintOf <- MCTwoSources
  MaxFaults = 1
SYMMETRY MCSymmetry
SPECIFICATION Spec
INVARIANTS
  OneCheckpoint
  JournalTrue
  DraftsAccounted
  PreviewOfOneSource
PROPERTIES
  AuditSound
CHECK_DEADLOCK FALSE
