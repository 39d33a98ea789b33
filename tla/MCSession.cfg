SPECIFICATION SessionSpec
CONSTANTS
  Timer = {t1, t2}
  None = None
  Callback = Callback
  Connect = Connect
  MaxRestartsWithoutRecovery = 2
  MaxChanges = 6
  Limit = 2
  Window = 3
  MaxTime = 9
  HandlerKind = {"plain", "panics", "registers"}
  AwaiterId = {a1, a2}
  Payload = {migrated, other}
  Awaited = {migrated}
  MaxEvents = 2
  MaxHandlers = 2
  NoEvent = NoEvent
  NoCaller = NoCaller
  ReadLoop = ReadLoop
  RetryLimit = 3
  HintLimit = 2
  Sfu = {s1, s2}
  Intervals = {2, 4}
  HealthTimeout = 6
  PingWait = 2
  ReadTimeout = 8
  MaxAttempts = 3
  MaxSends = 6
INVARIANTS
  RecoveryConsistent
  LimiterExact
  EventsDelivered
  JoinAccounted
PROPERTIES
  TroubleAnswered
  RefinesBudget
  LockReleased
  JoinReturns
  HealthSound
  RetrySafe
CHECK_DEADLOCK FALSE
