SPECIFICATION PublisherSpec
CONSTANTS
  Width = 3
  Timer = {t1, t2}
  NoTimer = NoTimer
  StartIds = {0, 6}
  MaxCalls = 3
  MaxFaults = 1
  Ctx = {x1, x2}
  Provider = {a, b}
  Pump = {p1, p2, p3, p4}
  App = App
  None = None
  MaxBinds = 3
INVARIANTS
  SettledByItsAnswer
  ExchangeConsistent
  
PROPERTIES
  RequestsMet
  TrackFollows
  TrackCallsReturn
CHECK_DEADLOCK FALSE
