\* Two processes over four keys, two to an approval and a text.  The first carries an
\* attachment and may be vouched for by the operator, the last is a dry run; the
\* owner types one message that reads like the first two.  The grace outlives every
\* capability.
CONSTANTS
  k1 = k1
  k2 = k2
  k3 = k3
  k4 = k4
  a1 = a1
  a2 = a2
  p1 = p1
  p2 = p2
  b1 = b1
  b2 = b2
  NoEntry = NoEntry
  Never = Never
  NoStaging = NoStaging
  NoKey = NoKey
  NoWork = NoWork
  Key <- MCKey
  Approval <- MCApproval
  ApprovalOf <- RetriedApproval
  DraftOf <- RetriedApproval
  BodyOf <- MCBody
  Typed <- LookAlike
  Attested <- FirstKey
  Staging <- MCStaging
  Process <- MCProcess
  DryRun <- LastKey
  Attachment <- FirstKey
  MaxKeys = 3
  MaxCompletions = 2
  MaxPending = 2
  WindowLength = 4
  FailureThreshold = 0
  Cooldown = 0
  IdBytes = 0
  EntryBytes = 0
  AttemptBytes = 0
  ParkBytes = 0
  CompletionBytes = 0
  MaxBytes = 1
  GeneralMaximum = 2
  AttachmentMaximum = 1
  Validity = 1
  Grace = 2
  Lookback = 0
  SkillTime = 1
  MaxTime = 2
  MaxCommands = 2
  MaxTyped = 1
SYMMETRY ProcessSymmetry
ACTION_CONSTRAINT KnownKeys
SPECIFICATION Spec
INVARIANTS
  ClosedUnattempted
  OneReturnPerApproval
  SentHasMatch
  ReturnJournaled
  OneSendAtATime
  QuietWhenResolved
PROPERTIES
  StoreSpec
CHECK_DEADLOCK FALSE
