\* The outbox store under every order of transactions; MaxBytes is out of reach.
CONSTANTS
  k1 = k1
  k2 = k2
  k3 = k3
  a1 = a1
  a2 = a2
  NoEntry = NoEntry
  Never = Never
  Staging <- MCStaging
  NoStaging = NoStaging
  Key <- MCKey
  Approval <- MCApproval
  ApprovalOf <- MCApprovalOf
  MaxKeys = 3
  MaxCompletions = 1
  MaxPending = 2
  WindowLength = 1
  FailureThreshold = 2
  Cooldown = 1
  IdBytes = 3
  EntryBytes = 50
  AttemptBytes = 1
  ParkBytes = 1
  CompletionBytes = 38
  MaxBytes = 200
  ClockReadings <- MCClock
  Maxima <- MCMaxima
SPECIFICATION Spec
INVARIANTS
  SingleFlight
  OneAttemptPerApproval
  ReservationsAccounted
PROPERTIES
  NeverRedispatched
