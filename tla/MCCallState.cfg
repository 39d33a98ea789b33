SPECIFICATION CallSpec
CONSTANTS
  AppEvent = {ok}
  CallEvent = {ended}
  SfuEvent = {offer, moved}
  MigrationComplete = moved
  ConnectedOk = ok
  Unknown = Unknown
  CallCid = {own, other}
  OwnCid = own
  AnyCall = AnyCall
  NoCid = NoCid
  MaxClients = 2
  HandlerId = {1, 2}
  Panicking = {2}
  MaxFrames = 2
  Pid = {p1, p2}
  TrackType = {t1}
  MaxTotal = 3
  MaxQueue = 1
  MaxJoins = 2
  Nil = Nil
  Caller = {a, b}
  Monitor = mon
  Wanted = {l1}
  NoList = NoList
  Empty = Empty
  MaxSessions = 2
  PubTrack = {1, 2}
  Rid = {f}
  Adder = {a1, a2}
  MaxPubPeers = 2
INVARIANTS
  
  StoreFollows
  SubscriptionsTold
  
CHECK_DEADLOCK FALSE
