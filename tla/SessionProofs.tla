---------------------------- MODULE SessionProofs ----------------------------
(***************************************************************************)
(* Proofs about what keeps a client connected: RetryRequest, FirstJoin,    *)
(* SocketHealth, IceRecovery, EventStore and SlidingWindow, each for every *)
(* value of its constants.  The components share nothing; each has an      *)
(* inductive invariant of its own.                                         *)
(***************************************************************************)
EXTENDS RetryRequest, FirstJoin, SocketHealth, IceRecovery, EventStore, SlidingWindow,
        FiniteSetTheorems, SequenceTheorems, TLAPS

(***************************************************************************)
(* RetryRequest.                                                           *)
(***************************************************************************)

\* Where another attempt may still follow, there is one left to make.
AttemptsLeft == request \in {"attempt", "decide", "rewind", "wait"} => attempt < MaxAttempts

\* A request about to be sent has its whole body, and one being rewound can be.
BodyReady ==
    /\ request \in {"attempt", "wait"} => unread \/ body = "none"
    /\ request = "rewind" => canReplayBody

\* A request that was answered is on its way out.
AnsweredGoesOut ==
    replied => /\ request \in {"decide", "return", "classify", "done", "error"}
               /\ outcome \in {"ok", "undecodable"}

RetryInv == RetryTypeOK /\ AttemptsLeft /\ BodyReady /\ AnsweredGoesOut /\ WholeBodySent

LEMMA RetryInvInit == RetryInit => RetryInv
<1> SUFFICES ASSUME RetryInit PROVE RetryInv
  OBVIOUS
<1>1. RetryTypeOK
  <2>1. unread \in BOOLEAN /\ ctxDone \in BOOLEAN /\ replied \in BOOLEAN /\ blankSent \in BOOLEAN
    BY DEF RetryInit
  <2> QED
    BY <2>1, RetryAssumption DEF RetryInit, RetryTypeOK
<1> QED
  BY <1>1 DEF RetryInit, RetryInv, AttemptsLeft, BodyReady, AnsweredGoesOut, WholeBodySent

\* The flags of a request stay flags.
LEMMA RetryFlags ==
    ASSUME RetryTypeOK, [RetryNext]_retryVars
    PROVE  /\ marked' \in BOOLEAN /\ unread' \in BOOLEAN /\ ctxDone' \in BOOLEAN
           /\ replied' \in BOOLEAN /\ blankSent' \in BOOLEAN
<1>1. /\ marked \in BOOLEAN /\ unread \in BOOLEAN /\ ctxDone \in BOOLEAN
      /\ replied \in BOOLEAN /\ blankSent \in BOOLEAN
  BY DEF RetryTypeOK
<1>2. CASE CtxOver \/ UNCHANGED retryVars
  BY <1>1, <1>2 DEF CtxOver, retryVars
<1>3. CASE connectWithRetries \/ rewindBody
  BY <1>1, <1>3 DEF connectWithRetries, rewindBody, goes
<1>4. CASE RoundTripDecides \/ RoundTripWaits \/ makeRequest \/ connectClassifies \/ connectSleeps
  BY <1>1, <1>4 DEF RoundTripDecides, RoundTripWaits, makeRequest, connectClassifies, connectSleeps, goes
<1>5. CASE \E o \in Outcome \cup {"cancelled"} : Attempt(o)
  BY <1>1, <1>5 DEF Attempt
<1> QED
  BY <1>2, <1>3, <1>4, <1>5 DEF RetryNext, RetryStep

LEMMA RetryInvStep == ASSUME RetryInv, [RetryNext]_retryVars PROVE RetryInv'
<1> DEFINE TypeRest == /\ body \in {"none", "replayable", "once"}
                       /\ request \in {"loop", "attempt", "decide", "rewind", "wait", "return",
                                       "classify", "sleep", "done", "error"}
                       /\ attempt \in 0 .. MaxAttempts
                       /\ outcome \in Outcome \cup {"none", "cancelled", "maxAttempts"}
                       /\ sends \in 0 .. MaxSends
           Rest == TypeRest /\ AttemptsLeft /\ BodyReady /\ AnsweredGoesOut /\ WholeBodySent
<1>0. Rest
  BY DEF RetryInv, RetryTypeOK
<1> SUFFICES Rest'
  BY RetryFlags DEF RetryInv, RetryTypeOK
<1> USE RetryAssumption
    DEF AttemptsLeft, BodyReady, AnsweredGoesOut, WholeBodySent, goes, Outcome
<1>1. CASE CtxOver
  BY <1>0, <1>1 DEF CtxOver, canReplayBody
<1>2. CASE connectWithRetries
  BY <1>0, <1>2 DEF connectWithRetries, canReplayBody
<1>3. ASSUME NEW o \in Outcome \cup {"cancelled"}, Attempt(o) PROVE Rest'
  <2>1. ~blankSent' /\ (replied' => o \in {"ok", "undecodable"})
    BY <1>0, <1>3, Zenon DEF Attempt
  <2>2. request' = "decide" /\ outcome' = o /\ sends' = sends + 1 /\ sends < MaxSends
    BY <1>3 DEF Attempt
  <2> QED
    BY <1>0, <1>3, <2>1, <2>2 DEF Attempt
<1>4. CASE RoundTripDecides
  BY <1>0, <1>4 DEF RoundTripDecides, shouldRetry, retryable, canReplayBody, isErrRetryable,
                    isStatusCodeRetryable
<1>5. CASE rewindBody
  BY <1>0, <1>5 DEF rewindBody, canReplayBody
<1>6. CASE RoundTripWaits
  BY <1>0, <1>6 DEF RoundTripWaits, canReplayBody
<1>7. CASE makeRequest
  BY <1>0, <1>7 DEF makeRequest, canReplayBody
<1>8. CASE connectClassifies
  BY <1>0, <1>8 DEF connectClassifies, IsRetryableError, canReplayBody
<1>9. CASE connectSleeps
  BY <1>0, <1>9 DEF connectSleeps, canReplayBody
<1>10. CASE UNCHANGED retryVars
  BY <1>0, <1>10 DEF retryVars, canReplayBody
<1> QED
  BY <1>1, <1>2, <1>3, <1>4, <1>5, <1>6, <1>7, <1>8, <1>9, <1>10 DEF RetryNext, RetryStep

\* RoundTripperRetryer and connectWithRetries: every attempt sends the whole body,
\* and no request is sent again once a 2xx reply has come back.
THEOREM RetrySafeCorrect == RetrySpec => RetrySafe
<1>1. RetryInv => RetryTypeOK /\ WholeBodySent
  BY DEF RetryInv
<1>2. RetryInv /\ [RetryNext]_retryVars => [sends' > sends => ~replied]_retryVars
  <2> SUFFICES ASSUME RetryInv, RetryNext, sends' > sends PROVE ~replied
    OBVIOUS
  <2>1. sends \in Nat
    BY RetryAssumption DEF RetryInv, RetryTypeOK
  <2>2. \E o \in Outcome \cup {"cancelled"} : Attempt(o)
    BY <2>1 DEF RetryNext, RetryStep, CtxOver, connectWithRetries, RoundTripDecides, rewindBody,
           RoundTripWaits, makeRequest, connectClassifies, connectSleeps, goes
  <2> QED
    BY <2>2 DEF RetryInv, AnsweredGoesOut, Attempt
<1> QED
  BY <1>1, <1>2, RetryInvInit, RetryInvStep, PTL DEF RetrySpec, RetrySafe, JoinNotRepeated

(***************************************************************************)
(* FirstJoin.                                                              *)
(***************************************************************************)

\* An attempt under MIGRATE, until it has built its pair, has a pair to spare.
MigrationSpare ==
    strategy = "MIGRATE" /\ jpc \in {"creds", "credsSleep", "init"} => pairs <= migrations

\* The coordinator half of a join comes before any retry has chosen a strategy.
CoordinatorFirst ==
    jpc \in {"token", "wsConnect", "wsSleep", "client", "locate", "post", "postSleep"} =>
        strategy = "UNSPECIFIED"

\* Whoever waits for the SFU's answer, or has it, has a pair.
PairToWatch == jpc \in {"connect", "joined"} => pairs > 0

JoinInv ==
    /\ JoinTypeOK /\ PairsReleased /\ MigrationSpare /\ CoordinatorFirst /\ PairToWatch
    /\ jpc = "backoff" => attemptsLeft > 0

\* The flags of a join stay flags.
LEMMA JoinFlags ==
    ASSUME {withWS, detect, located, ctxOver, joinedCoord} \subseteq BOOLEAN, [JoinNext]_joinVars
    PROVE  {withWS', detect', located', ctxOver', joinedCoord'} \subseteq BOOLEAN
<1>1. withWS' = withWS /\ detect' = detect
  BY DEF JoinNext, JoinStep, ConnectEnds, newClient, connectWsWithRetries, JoinStarts, Discover,
         joinCoordinator, initPubAndSub, ConnectAnswered, ConnectFails, retryFirstJoin, RetryWaits,
         GetCred, ContextEnds, joinVars
<1>2. located' \in BOOLEAN
  <2>1. CASE Discover
    BY <2>1 DEF Discover
  <2>2. CASE ~Discover
    BY <2>2 DEF JoinNext, JoinStep, ConnectEnds, newClient, connectWsWithRetries, JoinStarts,
         joinCoordinator, initPubAndSub, ConnectAnswered, ConnectFails, retryFirstJoin, RetryWaits,
         GetCred, ContextEnds, joinVars
  <2> QED
    BY <2>1, <2>2
<1>3. ctxOver' \in BOOLEAN
  BY DEF JoinNext, JoinStep, ConnectEnds, newClient, connectWsWithRetries, JoinStarts, Discover,
         joinCoordinator, initPubAndSub, ConnectAnswered, ConnectFails, retryFirstJoin, RetryWaits,
         GetCred, ContextEnds, joinVars
<1>4. joinedCoord' \in BOOLEAN
  BY DEF JoinNext, JoinStep, ConnectEnds, newClient, connectWsWithRetries, JoinStarts, Discover,
         joinCoordinator, initPubAndSub, ConnectAnswered, ConnectFails, retryFirstJoin, RetryWaits,
         GetCred, ContextEnds, joinVars
<1> QED
  BY <1>1, <1>2, <1>3, <1>4

LEMMA JoinInvInit == JoinInit => JoinInv
<1> SUFFICES ASSUME JoinInit PROVE JoinInv
  OBVIOUS
<1>1. {withWS, detect, located, ctxOver, joinedCoord} \subseteq BOOLEAN
  BY DEF JoinInit
<1>2. JoinTypeOK
  BY <1>1, FirstJoinAssumption DEF JoinInit, JoinTypeOK, Final, Strategy, JoinError, NoError
<1> QED
  BY <1>2 DEF JoinInit, JoinInv, PairsReleased, MigrationSpare, CoordinatorFirst, PairToWatch

LEMMA JoinInvStep == ASSUME JoinInv, [JoinNext]_joinVars PROVE JoinInv'
<1> DEFINE TypeRest ==
      /\ jpc \in Final \cup {"token", "wsConnect", "wsSleep", "client", "locate", "post", "postSleep",
                             "init", "connect", "retry", "backoff", "creds", "credsSleep"}
      /\ ctxKind \in {"deadline", "cancel"} /\ edge \in Sfu /\ exclude \subseteq Sfu
      /\ attemptsLeft \in 0 .. RetryLimit /\ strategy \in Strategy /\ nextStrategy \in Strategy
      /\ lastError \in JoinError \cup {NoError} /\ tries \in 0 .. HintLimit
      /\ pairs \in Nat /\ migrations \in Nat /\ monitors \in Nat
    Rest == /\ TypeRest /\ PairsReleased /\ MigrationSpare /\ CoordinatorFirst /\ PairToWatch
            /\ jpc = "backoff" => attemptsLeft > 0
<1>0. Rest
  BY DEF JoinInv, JoinTypeOK
<1>00. {withWS', detect', located', ctxOver', joinedCoord'} \subseteq BOOLEAN
  BY JoinFlags DEF JoinInv, JoinTypeOK
<1> SUFFICES Rest'
  BY <1>00 DEF JoinInv, JoinTypeOK
<1> USE FirstJoinAssumption DEF PairsReleased, MigrationSpare, CoordinatorFirst, PairToWatch,
                            Final, Strategy, joinAt
<1>1. CASE newClient \/ connectWsWithRetries \/ JoinStarts
  BY <1>0, <1>1 DEF newClient, connectWsWithRetries, JoinStarts
<1>2. CASE Discover
  <2>1. tries' \in 0 .. HintLimit
    BY <1>0, <1>2 DEF Discover
  <2>2. jpc' \in {"post", "locate"}
    BY <1>2 DEF Discover
  <2> QED
    BY <1>0, <1>2, <2>1, <2>2 DEF Discover
<1>3. CASE joinCoordinator
  BY <1>0, <1>3 DEF joinCoordinator
<1>4. CASE initPubAndSub
  BY <1>0, <1>4 DEF initPubAndSub, releases
<1>5. CASE ConnectAnswered
  BY <1>0, <1>5 DEF ConnectAnswered
<1>6. ASSUME NEW e \in JoinError, ConnectFails(e) PROVE Rest'
  BY <1>0, <1>6 DEF ConnectFails
<1>7. CASE retryFirstJoin
  BY <1>0, <1>7 DEF retryFirstJoin
<1>8. CASE RetryWaits
  BY <1>0, <1>8 DEF RetryWaits
<1>9. CASE GetCred
  BY <1>0, <1>9 DEF GetCred, JoinError
<1>10. CASE ContextEnds \/ UNCHANGED joinVars
  BY <1>0, <1>10 DEF ContextEnds, joinVars
<1> QED
  BY <1>1, <1>2, <1>3, <1>4, <1>5, <1>6, <1>7, <1>8, <1>9, <1>10 DEF JoinNext, JoinStep, ConnectEnds

\* retryFirstJoin and initPubAndSub: however often the first join is retried, and
\* whatever strategies the SFU's errors choose, every pair but the current one is
\* released, apart from one for each MIGRATE, and the workers start once.
THEOREM JoinAccountedCorrect == JoinSpec => []JoinAccounted
<1>1. JoinInv => JoinAccounted
  BY DEF JoinInv, JoinAccounted
<1> QED
  BY <1>1, JoinInvInit, JoinInvStep, PTL DEF JoinSpec
(***************************************************************************)
(* SocketHealth.                                                           *)
(***************************************************************************)

\* The signalling client stops pinging only with its connection closed, and the
\* coordinator client pings more slowly than a ping's deadline.
PingerKnown ==
    /\ socketKind = "signal" /\ ~pinger => ~open
    /\ socketKind = "coordinator" => interval > PingWait

\* While pings are due, the last health check was recent enough at the last of them.
HealthRecent == pinger /\ open => healthAge + nextPing <= HealthTimeout + interval

\* A read under way has a deadline, has been silent no longer than the health
\* check is old, and cannot fail before a silence of PingWait.
ReadArmed ==
    reader = "reading" /\ open =>
        deadline < Forever /\ quiet <= healthAge /\ quiet + deadline >= PingWait

\* With a slow ping, the deadline of a read under way is the loop's own, no ping
\* having gone by since the read began, or that of the last ping.
DeadlineKnown ==
    reader = "reading" /\ open /\ interval > PingWait =>
        \/ /\ pinger => quiet + nextPing <= interval
           /\ quiet + deadline <= ReadTimeout
        \/ /\ pinger /\ deadline + interval <= PingWait + nextPing
           /\ quiet + deadline <= interval + PingWait

HealthInv == HealthTypeOK /\ PingerKnown /\ HealthRecent /\ ReadArmed /\ DeadlineKnown

LEMMA HealthInvInit == HealthInit => HealthInv
<1> SUFFICES ASSUME HealthInit PROVE HealthInv
  OBVIOUS
<1>1. open \in BOOLEAN /\ pinger \in BOOLEAN
  BY DEF HealthInit
<1>2. HealthTypeOK
  BY <1>1, SocketHealthAssumption DEF HealthInit, HealthTypeOK, Forever, MaxAge
<1> QED
  BY <1>2, SocketHealthAssumption
     DEF HealthInit, HealthInv, HealthTypeOK, PingerKnown, HealthRecent, ReadArmed, DeadlineKnown

\* An age that is capped is still an age, and has not grown by more than a tick.
LEMMA CapBounds ==
    ASSUME NEW n \in 0 .. MaxAge
    PROVE  /\ cap(n + 1) \in 0 .. MaxAge /\ cap(n + 1) <= n + 1 /\ n <= cap(n + 1)
           /\ cap(n + 1) = n + 1 \/ cap(n + 1) = MaxAge
           /\ \A m \in 0 .. MaxAge : m <= n => cap(m + 1) <= cap(n + 1)
BY SocketHealthAssumption DEF cap, MaxAge, Forever

LEMMA HealthInvStep == ASSUME HealthInv, [HealthNext]_healthVars PROVE HealthInv'
<1> DEFINE TypeRest ==
      /\ socketKind \in {"signal", "coordinator"}
      /\ reader \in {"arming", "reading", "handling", "done"}
      /\ interval \in Intervals /\ deadline \in 0 .. Forever /\ nextPing \in 0 .. interval
      /\ healthAge \in 0 .. MaxAge /\ quiet \in 0 .. MaxAge
    Rest == TypeRest /\ PingerKnown /\ HealthRecent /\ ReadArmed /\ DeadlineKnown
<1>0. Rest /\ interval \in Nat \ {0} /\ MaxAge = Forever + HealthTimeout /\ Forever = ReadTimeout + PingWait + 1
  BY SocketHealthAssumption DEF HealthInv, HealthTypeOK, MaxAge, Forever
<1>00. open' \in BOOLEAN /\ pinger' \in BOOLEAN
  BY DEF HealthInv, HealthTypeOK, HealthNext, ReadArm, ReadFrame, HandlerReturns, ReadFails, Closed,
         PingGivesUp, PingEnds, Ping, HealthTick, healthVars
<1> SUFFICES Rest'
  BY <1>00 DEF HealthInv, HealthTypeOK
<1> USE SocketHealthAssumption DEF PingerKnown, HealthRecent, ReadArmed, DeadlineKnown, pingDue
<1>1. CASE ReadArm
  BY <1>0, <1>1 DEF ReadArm
<1>2. ASSUME NEW frame \in {"health", "event", "undecodable"}, ReadFrame(frame) PROVE Rest'
  BY <1>0, <1>2 DEF ReadFrame
<1>3. CASE HandlerReturns \/ ReadFails \/ Closed
  BY <1>0, <1>3 DEF HandlerReturns, ReadFails, Closed
<1>4. CASE PingGivesUp
  BY <1>0, <1>4 DEF PingGivesUp
<1>5. CASE PingEnds
  BY <1>0, <1>5 DEF PingEnds
<1>6. CASE Ping
  BY <1>0, <1>6 DEF Ping
<1>7. CASE HealthTick
  <2>1. /\ healthAge' \in 0 .. MaxAge /\ healthAge' <= healthAge + 1 /\ quiet' \in 0 .. MaxAge
        /\ quiet' <= quiet + 1
    <3>1. quiet \in 0 .. MaxAge /\ healthAge \in 0 .. MaxAge /\ MaxAge \in Nat
      BY <1>0
    <3>2. healthAge' = cap(healthAge + 1) /\ quiet' \in {quiet, cap(quiet + 1)}
      BY <1>7 DEF HealthTick
    <3>3. cap(healthAge + 1) \in 0 .. MaxAge /\ cap(healthAge + 1) <= healthAge + 1
      BY <3>1, CapBounds
    <3>4. cap(quiet + 1) \in 0 .. MaxAge /\ cap(quiet + 1) <= quiet + 1
      BY <3>1, CapBounds
    <3>5. quiet <= quiet + 1
      BY <3>1
    <3> HIDE DEF PingerKnown, HealthRecent, ReadArmed, DeadlineKnown, pingDue
    <3> QED
      BY <3>1, <3>2, <3>3, <3>4, <3>5
  <2>2. reader = "reading" => /\ quiet' = quiet + 1 \/ quiet' = MaxAge
                              /\ quiet <= healthAge => quiet' <= healthAge'
    BY <1>0, <1>7, CapBounds DEF HealthTick
  <2>3. TypeRest'
    BY <1>0, <1>7, <2>1 DEF HealthTick
  <2>4. PingerKnown' /\ HealthRecent'
    BY <1>0, <1>7, <2>1 DEF HealthTick
  <2>5. ReadArmed'
    BY <1>0, <1>7, <2>2, <2>3 DEF HealthTick
  <2>6. DeadlineKnown'
    BY <1>0, <1>7, <2>1 DEF HealthTick
  <2> QED
    BY <2>3, <2>4, <2>5, <2>6
<1>8. CASE UNCHANGED healthVars
  BY <1>0, <1>8 DEF healthVars
<1> QED
  BY <1>1, <1>2, <1>3, <1>4, <1>5, <1>6, <1>7, <1>8 DEF HealthNext

\* pingHandler and readLoop: with any intervals and timeouts, a silent peer is
\* noticed in time, whichever goroutine wrote the deadline last, and a read fails
\* on an open connection only after a silence of PingWait.
THEOREM HealthSoundCorrect == HealthSpec => HealthSound
<1>1. HealthInv => HealthTypeOK /\ SilenceNoticed
  <2> SUFFICES ASSUME HealthInv, open, reader = "reading" PROVE quiet <= NoticeWithin
    BY DEF HealthInv, SilenceNoticed
  <2>1. /\ quiet \in Nat /\ healthAge \in Nat /\ deadline \in Nat /\ interval \in Nat /\ nextPing \in Nat
        /\ socketKind \in {"signal", "coordinator"}
    BY SocketHealthAssumption DEF HealthInv, HealthTypeOK, MaxAge, Forever
  <2>2. CASE interval <= PingWait
    BY <2>1, <2>2, SocketHealthAssumption
       DEF HealthInv, PingerKnown, HealthRecent, ReadArmed, NoticeWithin
  <2>3. CASE interval > PingWait
    BY <2>1, <2>3, SocketHealthAssumption DEF HealthInv, DeadlineKnown, NoticeWithin, HealthTypeOK
  <2> QED
    BY <2>1, <2>2, <2>3, SocketHealthAssumption
<1>2. HealthInv /\ [HealthNext]_healthVars =>
        [(open /\ reader = "reading" /\ reader' = "done") => quiet >= PingWait]_healthVars
  <2> SUFFICES ASSUME HealthInv, HealthNext, open, reader = "reading", reader' = "done"
               PROVE  quiet >= PingWait
    OBVIOUS
  <2>1. ReadFails
    BY DEF HealthNext, ReadArm, ReadFrame, HandlerReturns, Closed, PingGivesUp, PingEnds, Ping, HealthTick
  <2>2. deadline = 0
    BY <2>1 DEF ReadFails
  <2> QED
    BY <2>2, SocketHealthAssumption DEF HealthInv, ReadArmed, HealthTypeOK, MaxAge, Forever
<1> QED
  BY <1>1, <1>2, HealthInvInit, HealthInvStep, PTL DEF HealthSpec, HealthSound, NoFalseAlarm
(***************************************************************************)
(* IceRecovery.                                                            *)
(***************************************************************************)

LEMMA RecoveryInit == IceInit => RecoveryConsistent
<1> SUFFICES ASSUME IceInit PROVE RecoveryConsistent
  OBVIOUS
<1>1. connectedAt \in BOOLEAN /\ closed \in BOOLEAN /\ bound \in BOOLEAN /\ pcClosed \in BOOLEAN
      /\ answered \in BOOLEAN
  BY DEF IceInit
<1> QED
  BY <1>1, IceRecoveryAssumption
     DEF IceInit, RecoveryConsistent, IceTypeOK, HandleMeansPending, State, Thread

\* The places a goroutine goes through.
Place == {"idle", "armed", "fired", "handler", "info", "failedBefore", "failedAfter", "try", "restart",
          "escalate"}

\* The flags of the connection and of its end stay flags.
LEMMA IceFlags ==
    ASSUME IceTypeOK, [IceNext]_iceVars
    PROVE  /\ connectedAt' \in BOOLEAN /\ closed' \in BOOLEAN /\ bound' \in BOOLEAN
           /\ pcClosed' \in BOOLEAN /\ answered' \in BOOLEAN
<1>1. /\ connectedAt \in BOOLEAN /\ closed \in BOOLEAN /\ bound \in BOOLEAN /\ pcClosed \in BOOLEAN
      /\ answered \in BOOLEAN
  BY DEF IceTypeOK
<1>2. CASE (\E s \in State : onPCStateChange(s)) \/ onICEStateChange \/ onConnectTimeout
           \/ onConnected \/ onDisconnected
  BY <1>1, <1>2 DEF onPCStateChange, onICEStateChange, onConnectTimeout, onConnected, onDisconnected,
                    connVars, endVars
<1>3. CASE (\E t \in Timer : Delayed(t)) \/ (\E t \in Thread : Recovery(t))
  BY <1>1, <1>3 DEF Delayed, TimerFires, TimerCallback, Recovery, connectionInfo, OnFailed, tryRestart,
                    restart, escalate, connVars, endVars
<1>4. CASE Unbind \/ close \/ TransportClose \/ UNCHANGED iceVars
  BY <1>1, <1>4 DEF Unbind, close, TransportClose, iceVars, connVars, endVars
<1> QED
  BY <1>2, <1>3, <1>4 DEF IceNext

\* Stopping the timer leaves every goroutine somewhere it can be.
LEMMA StopsTimer ==
    ASSUME timer \in Timer \cup {None}, NEW places \in [Thread -> Place]
    PROVE  stopTimerLocked(places) \in [Thread -> Place]
BY IceRecoveryAssumption DEF stopTimerLocked, Thread, Place

\* A goroutine that moves on is not the pending timer's, unless it clears the handle.
LEMMA HandleStep ==
    ASSUME RecoveryConsistent, [IceNext]_iceVars
    PROVE  /\ timer' \in Timer \cup {None} /\ doing' \in [Thread -> Place]
           /\ HandleMeansPending'
<1>0. /\ timer \in Timer \cup {None} /\ doing \in [Thread -> Place]
      /\ timer # None => doing[timer] \in {"armed", "fired"}
      /\ Callback \in Thread /\ Connect \in Thread /\ Timer \subseteq Thread
      /\ None \notin Timer /\ Callback \notin Timer /\ Connect \notin Timer
  BY IceRecoveryAssumption DEF RecoveryConsistent, IceTypeOK, HandleMeansPending, Thread, Place
<1> USE DEF HandleMeansPending, Goes, Place
<1>1. ASSUME NEW s \in State, onPCStateChange(s)
      PROVE  timer' \in Timer \cup {None} /\ doing' \in [Thread -> Place] /\ HandleMeansPending'
  BY <1>0, <1>1 DEF onPCStateChange
<1>2. CASE onICEStateChange \/ Unbind \/ TransportClose
  BY <1>0, <1>2 DEF onICEStateChange, Unbind, TransportClose
<1>3. CASE onConnectTimeout
  BY <1>0, <1>3 DEF onConnectTimeout
<1>4. CASE onConnected
  BY <1>0, <1>4, StopsTimer DEF onConnected
<1>5. CASE onDisconnected
  BY <1>0, <1>5 DEF onDisconnected
<1>6. ASSUME NEW t \in Timer, Delayed(t)
      PROVE  timer' \in Timer \cup {None} /\ doing' \in [Thread -> Place] /\ HandleMeansPending'
  BY <1>0, <1>6 DEF Delayed, TimerFires, TimerCallback
<1>7. ASSUME NEW t \in Thread, Recovery(t)
      PROVE  timer' \in Timer \cup {None} /\ doing' \in [Thread -> Place] /\ HandleMeansPending'
  <2>1. CASE connectionInfo(t)
    BY <1>0, <1>7, <2>1 DEF connectionInfo
  <2>2. CASE OnFailed(t) /\ onFailed(t)
    <3> DEFINE places == [doing EXCEPT ![t] = IF @ = "failedAfter" THEN "try" ELSE "escalate"]
    <3>1. places \in [Thread -> Place]
      BY <1>0
    <3>2. doing' \in [Thread -> Place] /\ timer' = None
      BY <1>0, <2>2, <3>1, StopsTimer DEF onFailed
    <3> QED
      BY <3>2
  <2>3. CASE OnFailed(t) /\ Goes(t, "escalate") /\ UNCHANGED timer
    BY <1>0, <1>7, <2>3 DEF OnFailed
  <2>4. CASE tryRestart(t)
    BY <1>0, <1>7, <2>4 DEF tryRestart
  <2>5. CASE restart(t) \/ escalate(t)
    BY <1>0, <1>7, <2>5 DEF restart, escalate
  <2> QED
    BY <1>7, <2>1, <2>2, <2>3, <2>4, <2>5 DEF Recovery, OnFailed
<1>8. CASE close
  BY <1>0, <1>8, StopsTimer DEF close
<1>9. CASE UNCHANGED iceVars
  BY <1>0, <1>9 DEF iceVars
<1> QED
  BY <1>1, <1>2, <1>3, <1>4, <1>5, <1>6, <1>7, <1>8, <1>9 DEF IceNext

\* The rest of the connection: its state, the budget of restarts, the changes left.
LEMMA ConnectionStep ==
    ASSUME IceTypeOK, [IceNext]_iceVars
    PROVE  /\ state' \in State /\ connectTimer' \in {"off", "armed", "over"}
           /\ attempts' \in 0 .. MaxRestartsWithoutRecovery /\ changes' \in 0 .. MaxChanges
<1>0. /\ state \in State /\ connectTimer \in {"off", "armed", "over"}
      /\ attempts \in 0 .. MaxRestartsWithoutRecovery /\ changes \in 0 .. MaxChanges
      /\ MaxRestartsWithoutRecovery \in Nat /\ MaxChanges \in Nat
  BY IceRecoveryAssumption DEF IceTypeOK
<1> USE DEF connVars, endVars
<1>1. CASE \E s \in State : onPCStateChange(s)
  BY <1>0, <1>1 DEF onPCStateChange
<1>2. CASE onICEStateChange \/ onConnectTimeout \/ onConnected \/ onDisconnected
  BY <1>0, <1>2 DEF onICEStateChange, onConnectTimeout, onConnected, onDisconnected
<1>3. ASSUME NEW t \in Thread, tryRestart(t)
      PROVE  /\ state' \in State /\ connectTimer' \in {"off", "armed", "over"}
             /\ attempts' \in 0 .. MaxRestartsWithoutRecovery /\ changes' \in 0 .. MaxChanges
  <2>1. attempts' = attempts \/ (~budgetSpent /\ attempts' = attempts + 1)
    BY <1>3 DEF tryRestart
  <2>2. attempts' \in 0 .. MaxRestartsWithoutRecovery
    BY <1>0, <2>1 DEF budgetSpent
  <2> QED
    BY <1>0, <1>3, <2>2 DEF tryRestart
<1>4. CASE (\E t \in Timer : Delayed(t)) \/ (\E t \in Thread : Recovery(t) /\ ~tryRestart(t))
  BY <1>0, <1>4 DEF Delayed, TimerFires, TimerCallback, Recovery, connectionInfo, OnFailed, restart, escalate
<1>5. CASE Unbind \/ close \/ TransportClose \/ UNCHANGED iceVars
  BY <1>0, <1>5 DEF Unbind, close, TransportClose, iceVars
<1> QED
  BY <1>1, <1>2, <1>3, <1>4, <1>5 DEF IceNext, Recovery

\* iceRecovery: with any number of timers, fired or not, r.timer is set only while
\* that timer has its callback to run, so that a disconnection which schedules
\* nothing has a restart coming; and the restarts stay within their budget.
THEOREM RecoveryConsistentCorrect == IceSpec => []RecoveryConsistent
<1>1. RecoveryConsistent /\ [IceNext]_iceVars => RecoveryConsistent'
  BY IceFlags, HandleStep, ConnectionStep DEF RecoveryConsistent, IceTypeOK, Place
<1> QED
  BY <1>1, RecoveryInit, PTL DEF IceSpec
(***************************************************************************)
(* EventStore.                                                             *)
(***************************************************************************)

Interceptor == [id : 1 .. MaxHandlers, kind : HandlerKind]
AwaiterState == {"none", "waiting", "timing", "event", "zero", "timeout"}

Reading == [event : Event \cup {NoEvent}, phase : {"idle", "interceptors", "stuck", "awaiters"},
            at : Nat \ {0}, remaining : Seq(AwaiterId)]

\* The store's lists, and the Intercept under way.
StoreTypeOK ==
    /\ holder \in {NoCaller, ReadLoop} /\ interceptors \in Seq(Interceptor)
    /\ nextID \in 0 .. MaxHandlers /\ removable \subseteq 1 .. MaxHandlers
    /\ eventAwaiters \in Seq(AwaiterId) /\ count \in 0 .. MaxEvents
    /\ reading \in Reading

\* The awaiters.
AwaiterTypeOK ==
    awaiter \in [AwaiterId -> [state : AwaiterState, chan : Seq(Event), closed : BOOLEAN,
                               timeout : BOOLEAN, got : Event \cup {NoEvent}, since : 0 .. MaxEvents]]

\* An event is handed out under the lock, and is the latest.
ReadingLocked ==
    reading.phase # "idle" =>
        holder = ReadLoop /\ reading.event \in Event /\ reading.event.number = count

\* An awaiter is registered before the event that is being handed out.
RegisteredBefore ==
    \A a \in AwaiterId : awaiter[a].since <= count /\ (reading.phase # "idle" => awaiter[a].since < count)

\* An awaiter that is not registered is untouched, and one is registered once.
ListedOnce ==
    /\ \A i, j \in 1 .. Len(eventAwaiters) : i # j => eventAwaiters[i] # eventAwaiters[j]
    /\ \A a \in AwaiterId : awaiter[a].state = "none" =>
         /\ awaiter[a].chan = <<>> /\ ~awaiter[a].closed
         /\ \A i \in 1 .. Len(eventAwaiters) : eventAwaiters[i] # a

\* No match has closed the channel of an awaiter the store has still to ask.
ListedOpen ==
    \A i \in 1 .. Len(eventAwaiters) :
        reading.phase # "awaiters" \/ i >= reading.at => ~awaiter[eventAwaiters[i]].closed

\* What Intercept keeps of the list are awaiters it has asked and that did not match.
RemainingOpen ==
    /\ reading.phase = "interceptors" => reading.remaining = <<>>
    /\ reading.phase = "awaiters" =>
         /\ \A i, j \in 1 .. Len(reading.remaining) :
              i # j => reading.remaining[i] # reading.remaining[j]
         /\ \A k \in 1 .. Len(reading.remaining) :
              /\ ~awaiter[reading.remaining[k]].closed
              /\ \E i \in 1 .. Len(eventAwaiters) :
                   i < reading.at /\ eventAwaiters[i] = reading.remaining[k]

\* A channel holds awaited events that came after the awaiter; a channel is closed
\* on one that waits only with its event in it.
ChannelHonest ==
    \A a \in AwaiterId :
        /\ \A k \in 1 .. Len(awaiter[a].chan) :
             awaiter[a].chan[k].payload \in Awaited /\ awaiter[a].chan[k].number > awaiter[a].since
        /\ awaiter[a].timeout => awaiter[a].state = "timeout"
        /\ awaiter[a].state = "waiting" /\ awaiter[a].closed => awaiter[a].chan # <<>>

EvInv ==
    /\ StoreTypeOK /\ AwaiterTypeOK /\ ReadingLocked /\ RegisteredBefore /\ ListedOnce /\ ListedOpen
    /\ RemainingOpen /\ ChannelHonest /\ AwaitHonest

LEMMA EvInvInit == EvInit => EvInv
<1> SUFFICES ASSUME EvInit PROVE EvInv
  OBVIOUS
<1> USE EventStoreAssumption
<1>1. StoreTypeOK
  BY EmptySeq DEF EvInit, StoreTypeOK, Reading, idleRead
<1>2. AwaiterTypeOK
  <2>1. newAwaiter \in [state : AwaiterState, chan : Seq(Event), closed : BOOLEAN,
                        timeout : BOOLEAN, got : Event \cup {NoEvent}, since : 0 .. MaxEvents]
    BY EmptySeq DEF newAwaiter, AwaiterState
  <2> QED
    BY <2>1 DEF EvInit, AwaiterTypeOK
<1>3. /\ \A a \in AwaiterId : awaiter[a] = newAwaiter
      /\ eventAwaiters = <<>> /\ reading.phase = "idle" /\ count = 0 /\ ~sendPanic
  BY DEF EvInit, idleRead
<1>4. \A a \in AwaiterId : /\ awaiter[a].state = "none" /\ awaiter[a].chan = <<>> /\ ~awaiter[a].closed
                           /\ ~awaiter[a].timeout /\ awaiter[a].since = 0
  BY <1>3 DEF newAwaiter
<1>5. ReadingLocked /\ RegisteredBefore /\ ListedOnce /\ ListedOpen /\ RemainingOpen
  BY <1>3, <1>4 DEF ReadingLocked, RegisteredBefore, ListedOnce, ListedOpen, RemainingOpen
<1>6. ChannelHonest /\ AwaitHonest
  BY <1>3, <1>4 DEF ChannelHonest, AwaitHonest
<1> QED
  BY <1>1, <1>2, <1>5, <1>6 DEF EvInv

\* The type the run checks follows.
LEMMA EvTypes == EvInv => EvTypeOK
<1> SUFFICES ASSUME EvInv PROVE EvTypeOK
  OBVIOUS
<1>1. StoreTypeOK /\ AwaiterTypeOK
  BY DEF EvInv
<1>2. /\ \A i \in 1 .. Len(interceptors) :
           interceptors[i] \in [id : 1 .. MaxHandlers, kind : HandlerKind]
      /\ \A i \in 1 .. Len(eventAwaiters) : eventAwaiters[i] \in AwaiterId
  <2>1. interceptors \in Seq(Interceptor) /\ eventAwaiters \in Seq(AwaiterId)
    BY <1>1 DEF StoreTypeOK
  <2>2. \A i \in 1 .. Len(interceptors) : interceptors[i] \in Interceptor
    BY <2>1
  <2> QED
    BY <2>1, <2>2 DEF Interceptor
<1>3. \A a \in AwaiterId :
         /\ awaiter[a].state \in {"none", "waiting", "timing", "event", "zero", "timeout"}
         /\ awaiter[a].got \in Event \cup {NoEvent} /\ awaiter[a].since \in 0 .. MaxEvents
  BY <1>1 DEF AwaiterTypeOK, AwaiterState
<1> QED
  BY <1>1, <1>2, <1>3 DEF StoreTypeOK, EvTypeOK
\* The application's handlers, which the awaiters know nothing of.
LEMMA HandlersStep ==
    ASSUME StoreTypeOK,
           (\E kind \in HandlerKind : AddInterceptor(kind)) \/ \E id \in 1 .. MaxHandlers : removeInterceptor(id)
    PROVE  StoreTypeOK'
<1>1. ASSUME NEW kind \in HandlerKind, AddInterceptor(kind) PROVE StoreTypeOK'
  <2>1. [id |-> nextID + 1, kind |-> kind] \in Interceptor
    BY <1>1, EventStoreAssumption DEF AddInterceptor, Interceptor, StoreTypeOK
  <2>2. interceptors' \in Seq(Interceptor)
    BY <1>1, <2>1, AppendProperties DEF AddInterceptor, StoreTypeOK
  <2> QED
    BY <1>1, <2>2, EventStoreAssumption DEF AddInterceptor, StoreTypeOK
<1>2. ASSUME NEW id \in 1 .. MaxHandlers, removeInterceptor(id) PROVE StoreTypeOK'
  <2>1. interceptors' \in Seq(Interceptor)
    <3>1. CASE UNCHANGED interceptors
      BY <3>1 DEF StoreTypeOK
    <3>2. ASSUME NEW i \in 1 .. Len(interceptors),
                 interceptors' = SubSeq(interceptors, 1, i - 1)
                                 \o SubSeq(interceptors, i + 1, Len(interceptors))
          PROVE  interceptors' \in Seq(Interceptor)
      <4>1. interceptors \in Seq(Interceptor) /\ Len(interceptors) \in Nat
        BY DEF StoreTypeOK
      <4>2. SubSeq(interceptors, 1, i - 1) \in Seq(Interceptor)
        BY <4>1
      <4>3. SubSeq(interceptors, i + 1, Len(interceptors)) \in Seq(Interceptor)
        BY <4>1
      <4> QED
        BY <3>2, <4>2, <4>3, ConcatProperties
    <3> QED
      BY <1>2, <3>1, <3>2 DEF removeInterceptor
  <2> QED
    BY <1>2, <2>1 DEF removeInterceptor, StoreTypeOK
<1> QED
  BY <1>1, <1>2

\* The lists hold awaiters.
LEMMA ListElements ==
    ASSUME StoreTypeOK
    PROVE  /\ eventAwaiters \in Seq(AwaiterId) /\ reading.remaining \in Seq(AwaiterId)
           /\ Len(eventAwaiters) \in Nat /\ Len(reading.remaining) \in Nat
           /\ \A i \in 1 .. Len(eventAwaiters) : eventAwaiters[i] \in AwaiterId
           /\ \A k \in 1 .. Len(reading.remaining) : reading.remaining[k] \in AwaiterId
           /\ reading.at \in Nat \ {0} /\ count \in 0 .. MaxEvents
<1>1. eventAwaiters \in Seq(AwaiterId) /\ reading.remaining \in Seq(AwaiterId)
  BY DEF StoreTypeOK, Reading
<1>2. reading.at \in Nat \ {0} /\ count \in 0 .. MaxEvents
  BY DEF StoreTypeOK, Reading
<1> QED
  BY <1>1, <1>2

\* An action that closes no channel leaves the lists open.
LEMMA ListsStayOpen ==
    ASSUME StoreTypeOK, ListedOpen, RemainingOpen, UNCHANGED <<eventAwaiters, reading>>,
           \A b \in AwaiterId : awaiter'[b].closed = awaiter[b].closed
    PROVE  ListedOpen' /\ RemainingOpen'
<1>1. ListedOpen'
  BY ListElements DEF ListedOpen
<1>2. RemainingOpen'
  <2>1. \A k \in 1 .. Len(reading.remaining) :
          awaiter'[reading.remaining[k]].closed = awaiter[reading.remaining[k]].closed
    BY ListElements
  <2> QED
    BY <2>1 DEF RemainingOpen
<1> QED
  BY <1>1, <1>2

\* NewEventAwaiter: the new awaiter is at the end of a list that did not have it.
LEMMA NewAwaiterStep == ASSUME EvInv, NEW a \in AwaiterId, NewEventAwaiter(a) PROVE EvInv'
<1>0. /\ StoreTypeOK /\ AwaiterTypeOK /\ awaiter[a].state = "none" /\ reading.phase = "idle"
      /\ awaiter[a].chan = <<>> /\ ~awaiter[a].closed /\ ~awaiter[a].timeout
  BY EventStoreAssumption DEF EvInv, NewEventAwaiter, ReadingLocked, ListedOnce, ChannelHonest
<1>1. /\ eventAwaiters' \in Seq(AwaiterId) /\ Len(eventAwaiters') = Len(eventAwaiters) + 1
      /\ Len(eventAwaiters) \in Nat /\ eventAwaiters'[Len(eventAwaiters) + 1] = a
      /\ \A i \in 1 .. Len(eventAwaiters) : eventAwaiters'[i] = eventAwaiters[i]
  BY <1>0, AppendProperties DEF NewEventAwaiter, StoreTypeOK
<1>2. /\ \A b \in AwaiterId \ {a} : awaiter'[b] = awaiter[b]
      /\ awaiter'[a].state = "waiting" /\ awaiter'[a].since = count /\ awaiter'[a].chan = awaiter[a].chan
      /\ awaiter'[a].closed = awaiter[a].closed /\ awaiter'[a].timeout = awaiter[a].timeout
  BY <1>0 DEF NewEventAwaiter, AwaiterTypeOK
<1>3. UNCHANGED <<holder, reading, count, sendPanic>>
  BY DEF NewEventAwaiter
<1>4. StoreTypeOK'
  BY <1>0, <1>1 DEF NewEventAwaiter, StoreTypeOK
<1>5. AwaiterTypeOK'
  <2>1. count \in 0 .. MaxEvents
    BY <1>0, ListElements
  <2> QED
    BY <1>0, <2>1, ZenonT(60) DEF NewEventAwaiter, AwaiterTypeOK, AwaiterState
<1>6. ReadingLocked' /\ RegisteredBefore'
  BY <1>0, <1>2, <1>3 DEF EvInv, ReadingLocked, RegisteredBefore, StoreTypeOK
<1>7. ListedOnce'
  BY <1>0, <1>1, <1>2 DEF EvInv, ListedOnce
<1>8. ListedOpen' /\ RemainingOpen'
  <2>1. /\ \A i \in 1 .. Len(eventAwaiters) : eventAwaiters[i] \in AwaiterId
        /\ \A b \in AwaiterId : awaiter'[b].closed = awaiter[b].closed
    BY <1>0, <1>2, ListElements
  <2>2. \A i \in 1 .. Len(eventAwaiters) : ~awaiter[eventAwaiters[i]].closed
    BY <1>0 DEF EvInv, ListedOpen
  <2> QED
    BY <1>0, <1>1, <1>3, <2>1, <2>2 DEF ListedOpen, RemainingOpen
<1>9. ChannelHonest' /\ AwaitHonest'
  BY <1>0, <1>2, <1>3 DEF EvInv, ChannelHonest, AwaitHonest
<1> QED
  BY <1>4, <1>5, <1>6, <1>7, <1>8, <1>9 DEF EvInv

\* Await: what it receives is in its channel, and a timer changes only the outcome.
LEMMA AwaitStep == ASSUME EvInv, NEW a \in AwaiterId, AwaitReceives(a) \/ AwaitTimer(a) PROVE EvInv'
<1>0. /\ StoreTypeOK /\ AwaiterTypeOK
      /\ UNCHANGED <<holder, interceptors, nextID, removable, eventAwaiters, reading, count, sendPanic>>
  BY DEF EvInv, AwaitReceives, AwaitTimer
<1>1. awaiter[a].state \in {"waiting", "timing"}
  BY DEF AwaitReceives, AwaitTimer
<1>2. /\ \A b \in AwaiterId \ {a} : awaiter'[b] = awaiter[b]
      /\ awaiter'[a].closed = awaiter[a].closed /\ awaiter'[a].since = awaiter[a].since
  BY <1>0 DEF AwaitReceives, AwaitTimer, AwaiterTypeOK
<1>3. CASE /\ awaiter[a].state = "waiting" /\ awaiter[a].chan # <<>>
           /\ awaiter' = [awaiter EXCEPT ![a].state = "event", ![a].got = Head(awaiter[a].chan),
                                         ![a].chan = <<>>]
  <2>1. /\ Head(awaiter[a].chan) \in Event /\ Head(awaiter[a].chan).payload \in Awaited
        /\ Head(awaiter[a].chan).number > awaiter[a].since
    <3>1. awaiter[a].chan \in Seq(Event) /\ awaiter[a].chan # <<>>
      BY <1>0, <1>3 DEF AwaiterTypeOK
    <3>2. Head(awaiter[a].chan) \in Event /\ Head(awaiter[a].chan) = awaiter[a].chan[1]
          /\ 1 \in 1 .. Len(awaiter[a].chan)
      BY <3>1, HeadTailProperties, EmptySeq
    <3> QED
      BY <3>2 DEF EvInv, ChannelHonest
  <2>2. /\ awaiter'[a].state = "event" /\ awaiter'[a].got = Head(awaiter[a].chan)
        /\ awaiter'[a].chan = <<>> /\ awaiter'[a].timeout = awaiter[a].timeout
    BY <1>0, <1>3 DEF AwaiterTypeOK
  <2>3. ~awaiter[a].timeout
    BY <1>3 DEF EvInv, ChannelHonest
  <2>4. AwaiterTypeOK'
    BY <1>0, <1>3, <2>1, EmptySeq DEF AwaiterTypeOK, AwaiterState
  <2>5. ChannelHonest' /\ AwaitHonest'
    BY <1>0, <1>2, <2>1, <2>2, <2>3 DEF EvInv, ChannelHonest, AwaitHonest
  <2>6. RegisteredBefore' /\ ListedOnce'
    BY <1>0, <1>2, <2>2 DEF EvInv, RegisteredBefore, ListedOnce
  <2>7. ListedOpen' /\ RemainingOpen'
    BY <1>0, <1>2, ListsStayOpen DEF EvInv
  <2> QED
    BY <1>0, <2>4, <2>5, <2>6, <2>7 DEF EvInv, StoreTypeOK, ReadingLocked
<1>4. CASE /\ awaiter[a].state = "waiting" /\ awaiter[a].chan = <<>> /\ awaiter[a].closed
  BY <1>4 DEF EvInv, ChannelHonest
<1>5. CASE AwaitTimer(a)
  <2>1. /\ awaiter'[a].state \in {"timing", "timeout"} /\ awaiter'[a].chan = awaiter[a].chan
        /\ awaiter'[a].timeout => awaiter'[a].state = "timeout"
    <3>1. CASE awaiter[a].state = "waiting" /\ awaiter' = [awaiter EXCEPT ![a].state = "timing"]
      <4>1. ~awaiter[a].timeout
        BY <3>1 DEF EvInv, ChannelHonest
      <4> QED
        BY <1>0, <3>1, <4>1 DEF AwaiterTypeOK
    <3>2. CASE awaiter' = [awaiter EXCEPT ![a].state = "timeout", ![a].timeout = TRUE]
      BY <1>0, <3>2 DEF AwaiterTypeOK
    <3> QED
      BY <1>5, <3>1, <3>2 DEF AwaitTimer
  <2>4. AwaiterTypeOK'
    <3>1. CASE awaiter' = [awaiter EXCEPT ![a].state = "timing"]
      BY <1>0, <3>1 DEF AwaiterTypeOK, AwaiterState
    <3>2. CASE awaiter' = [awaiter EXCEPT ![a].state = "timeout", ![a].timeout = TRUE]
      BY <1>0, <3>2, ZenonT(60) DEF AwaiterTypeOK, AwaiterState
    <3> QED
      BY <1>5, <3>1, <3>2 DEF AwaitTimer
  <2>5. ChannelHonest' /\ AwaitHonest'
    BY <1>0, <1>2, <2>1 DEF EvInv, ChannelHonest, AwaitHonest
  <2>6. RegisteredBefore' /\ ListedOnce'
    BY <1>0, <1>2, <2>1 DEF EvInv, RegisteredBefore, ListedOnce
  <2>7. ListedOpen' /\ RemainingOpen'
    BY <1>0, <1>2, ListsStayOpen DEF EvInv
  <2> QED
    BY <1>0, <2>4, <2>5, <2>6, <2>7 DEF EvInv, StoreTypeOK, ReadingLocked
<1> QED
  BY <1>3, <1>4, <1>5 DEF AwaitReceives
\* Intercept takes the lock with the latest event; its callbacks return, panic or
\* wait for ever. No awaiter changes.
LEMMA CallbacksStep ==
    ASSUME EvInv, (\E p \in Payload : Intercept(p)) \/ CallInterceptor \/ InterceptorsDone
    PROVE  EvInv'
<1>0. /\ StoreTypeOK /\ AwaiterTypeOK
      /\ UNCHANGED <<interceptors, nextID, removable, eventAwaiters, awaiter, sendPanic>>
  BY DEF EvInv, Intercept, CallInterceptor, InterceptorsDone
<1>1. AwaiterTypeOK' /\ ListedOnce' /\ ChannelHonest' /\ AwaitHonest'
  BY <1>0 DEF EvInv, AwaiterTypeOK, ListedOnce, ChannelHonest, AwaitHonest
<1>2. CASE \E p \in Payload : Intercept(p)
  <2>1. PICK p \in Payload : Intercept(p)
    BY <1>2
  <2> DEFINE ev == [payload |-> p, number |-> count + 1]
  <2>2. /\ count \in 0 .. MaxEvents /\ count < MaxEvents /\ count' = count + 1 /\ holder' = ReadLoop
        /\ reading.phase = "idle"
        /\ reading' = [event |-> ev, phase |-> "interceptors", at |-> 1, remaining |-> <<>>]
    BY <1>0, <2>1, ListElements DEF Intercept
  <2>3. ev \in Event
    BY <2>2, EventStoreAssumption DEF Event
  <2>4. StoreTypeOK'
    <3>1. reading' \in Reading /\ count' \in 0 .. MaxEvents
      BY <2>2, <2>3, EmptySeq, EventStoreAssumption DEF Reading
    <3> QED
      BY <1>0, <2>2, <3>1 DEF StoreTypeOK
  <2>5. ReadingLocked'
    BY <2>2, <2>3 DEF ReadingLocked
  <2>6. RegisteredBefore'
    <3>1. \A a \in AwaiterId : awaiter[a].since \in Nat /\ awaiter[a].since <= count
      BY <1>0, EventStoreAssumption DEF EvInv, RegisteredBefore, AwaiterTypeOK
    <3> QED
      BY <1>0, <2>2, <3>1 DEF RegisteredBefore
  <2>7. ListedOpen' /\ RemainingOpen'
    BY <1>0, <2>2 DEF EvInv, ListedOpen, RemainingOpen
  <2> QED
    BY <1>1, <2>4, <2>5, <2>6, <2>7 DEF EvInv
<1>3. CASE CallInterceptor
  <2>1. /\ count' = count /\ reading.phase = "interceptors"
        /\ \/ reading' = [reading EXCEPT !.at = @ + 1] /\ holder' = holder
           \/ reading' = idleRead /\ holder' = NoCaller
           \/ reading' = [reading EXCEPT !.phase = "stuck"] /\ holder' = holder
    BY <1>3 DEF CallInterceptor
  <2>2. /\ reading' \in Reading /\ holder' \in {NoCaller, ReadLoop} /\ reading'.phase # "awaiters"
        /\ reading'.phase = "interceptors" => reading'.remaining = reading.remaining
        /\ reading'.phase # "idle" => reading'.event = reading.event /\ holder' = holder
    <3>0. reading \in Reading /\ holder \in {NoCaller, ReadLoop}
      BY <1>0 DEF StoreTypeOK
    <3>1. CASE reading' = [reading EXCEPT !.at = @ + 1] /\ holder' = holder
      BY <2>1, <3>0, <3>1 DEF Reading
    <3>2. CASE reading' = idleRead /\ holder' = NoCaller
      BY <2>1, <3>0, <3>2, EmptySeq DEF Reading, idleRead
    <3>3. CASE reading' = [reading EXCEPT !.phase = "stuck"] /\ holder' = holder
      BY <2>1, <3>0, <3>3 DEF Reading
    <3> QED
      BY <2>1, <3>1, <3>2, <3>3
  <2>3. ReadingLocked' /\ RegisteredBefore'
    BY <1>0, <2>1, <2>2 DEF EvInv, ReadingLocked, RegisteredBefore
  <2>4. ListedOpen' /\ RemainingOpen'
    BY <1>0, <2>1, <2>2 DEF EvInv, ListedOpen, RemainingOpen
  <2>5. StoreTypeOK'
    BY <1>0, <2>1, <2>2 DEF StoreTypeOK
  <2> QED
    BY <1>1, <2>3, <2>4, <2>5 DEF EvInv
<1>4. CASE InterceptorsDone
  <2>1. /\ reading' = [reading EXCEPT !.phase = "awaiters", !.at = 1] /\ reading.phase = "interceptors"
        /\ UNCHANGED <<holder, count>>
    BY <1>4 DEF InterceptorsDone
  <2>2. StoreTypeOK'
    <3>1. reading \in Reading
      BY <1>0 DEF StoreTypeOK
    <3>2. reading' = [event |-> reading.event, phase |-> "awaiters", at |-> 1,
                      remaining |-> reading.remaining]
      BY <2>1, <3>1 DEF Reading
    <3>3. reading' \in Reading
      BY <3>1, <3>2 DEF Reading
    <3> QED
      BY <1>0, <2>1, <3>3 DEF StoreTypeOK
  <2>3. reading'.phase = "awaiters" /\ reading'.event = reading.event /\ reading'.remaining = reading.remaining
    BY <1>0, <2>1 DEF StoreTypeOK, Reading
  <2>4. ReadingLocked' /\ RegisteredBefore'
    BY <1>0, <2>1, <2>3 DEF EvInv, ReadingLocked, RegisteredBefore
  <2>5. ListedOpen'
    BY <1>0, <2>1, <2>3 DEF EvInv, ListedOpen
  <2>6. RemainingOpen'
    BY <1>0, <2>1, <2>3 DEF EvInv, RemainingOpen
  <2> QED
    BY <1>1, <2>2, <2>4, <2>5, <2>6 DEF EvInv
<1> QED
  BY <1>2, <1>3, <1>4
\* Match sends the event to an awaiter of the list whose channel is open, and
\* closes it: the event is awaited and newer than the awaiter.
LEMMA MatchStep == ASSUME EvInv, MatchAwaiter PROVE EvInv'
<1> DEFINE n == reading.at
           a == eventAwaiters[n]
           ev == reading.event
           sends1 == match(a) /\ ~awaiter[a].timeout
<1>0. /\ StoreTypeOK /\ AwaiterTypeOK /\ reading.phase = "awaiters" /\ n <= Len(eventAwaiters)
      /\ UNCHANGED <<holder, interceptors, nextID, removable, eventAwaiters, count>>
  BY DEF EvInv, MatchAwaiter
<1>1. /\ n \in 1 .. Len(eventAwaiters) /\ a \in AwaiterId /\ ev \in Event /\ ev.number = count
      /\ ~awaiter[a].closed
  <2>1. n \in 1 .. Len(eventAwaiters) /\ a \in AwaiterId
    BY <1>0, ListElements
  <2>2. ev \in Event /\ ev.number = count
    BY <1>0 DEF EvInv, ReadingLocked
  <2>3. ~awaiter[a].closed
    BY <1>0, <2>1, ListElements DEF EvInv, ListedOpen
  <2> QED
    BY <2>1, <2>2, <2>3
<1>2. ~sendPanic'
  BY <1>1, Zenon DEF MatchAwaiter, EvInv, AwaitHonest
<1>3. \A b \in AwaiterId \ {a} : awaiter'[b] = awaiter[b]
  BY <1>0, <1>1 DEF MatchAwaiter, Match, AwaiterTypeOK
<1>4. /\ awaiter'[a].state = awaiter[a].state /\ awaiter'[a].since = awaiter[a].since
      /\ awaiter'[a].got = awaiter[a].got /\ awaiter'[a].timeout = awaiter[a].timeout
      /\ awaiter'[a].chan = IF sends1 THEN Append(awaiter[a].chan, ev) ELSE awaiter[a].chan
      /\ awaiter'[a].closed = (awaiter[a].closed \/ match(a))
  BY <1>0, <1>1 DEF MatchAwaiter, Match, AwaiterTypeOK
<1>5. reading' = [reading EXCEPT !.at = n + 1, !.remaining = reading.remaining \o remains(a)]
  BY <1>1 DEF MatchAwaiter
<1>6. /\ reading'.phase = "awaiters" /\ reading'.at = n + 1 /\ reading'.event = ev
      /\ reading'.remaining = reading.remaining \o remains(a)
  BY <1>0, <1>5 DEF StoreTypeOK, Reading
<1>7. awaiter[a].chan \in Seq(Event) /\ awaiter[a].since \in Nat /\ awaiter[a].since < count
  BY <1>0, <1>1, EventStoreAssumption DEF AwaiterTypeOK, EvInv, RegisteredBefore
<1>8. /\ awaiter'[a].chan \in Seq(Event)
      /\ \A k \in 1 .. Len(awaiter'[a].chan) :
           awaiter'[a].chan[k].payload \in Awaited /\ awaiter'[a].chan[k].number > awaiter[a].since
      /\ sends1 => awaiter'[a].chan # <<>>
  <2>1. \A k \in 1 .. Len(awaiter[a].chan) :
          awaiter[a].chan[k].payload \in Awaited /\ awaiter[a].chan[k].number > awaiter[a].since
    BY <1>1 DEF EvInv, ChannelHonest
  <2>2. CASE ~sends1
    BY <1>4, <1>7, <2>1, <2>2
  <2>3. CASE sends1
    <3>1. awaiter'[a].chan = Append(awaiter[a].chan, ev)
      BY <1>4, <2>3
    <3>2. /\ awaiter'[a].chan \in Seq(Event) /\ Len(awaiter'[a].chan) = Len(awaiter[a].chan) + 1
          /\ Len(awaiter[a].chan) \in Nat /\ awaiter'[a].chan[Len(awaiter[a].chan) + 1] = ev
          /\ \A k \in 1 .. Len(awaiter[a].chan) : awaiter'[a].chan[k] = awaiter[a].chan[k]
      <4> DEFINE old == awaiter[a].chan
                 new == awaiter'[a].chan
      <4>1. old \in Seq(Event) /\ ev \in Event /\ new = Append(old, ev)
        BY <1>1, <1>7, <3>1
      <4> HIDE DEF old, new, ev
      <4>2. /\ new \in Seq(Event) /\ Len(new) = Len(old) + 1 /\ Len(old) \in Nat
            /\ new[Len(old) + 1] = ev /\ \A k \in 1 .. Len(old) : new[k] = old[k]
        BY <4>1, AppendProperties
      <4> QED
        BY <4>2 DEF old, new
    <3>3. ev.payload \in Awaited /\ ev.number > awaiter[a].since
      BY <1>0, <1>1, <1>7, <2>3, ListElements DEF match
    <3>4. awaiter'[a].chan # <<>>
      BY <3>2, EmptySeq
    <3>5. ASSUME NEW k \in 1 .. Len(awaiter'[a].chan)
          PROVE  awaiter'[a].chan[k].payload \in Awaited /\ awaiter'[a].chan[k].number > awaiter[a].since
      <4>1. CASE k \in 1 .. Len(awaiter[a].chan)
        BY <2>1, <3>2, <4>1
      <4>2. CASE k = Len(awaiter[a].chan) + 1
        BY <3>2, <3>3, <4>2
      <4>3. \A m \in Nat : k \in 1 .. m + 1 => k \in 1 .. m \/ k = m + 1
        OBVIOUS
      <4>4. k \in 1 .. Len(awaiter[a].chan) + 1 /\ Len(awaiter[a].chan) \in Nat
        BY <3>2
      <4> QED
        BY <4>1, <4>2, <4>3, <4>4
    <3> QED
      BY <3>2, <3>4, <3>5
  <2> QED
    BY <2>2, <2>3
<1>9. AwaiterTypeOK'
  <2> DEFINE chan == IF sends1 THEN Append(awaiter[a].chan, ev) ELSE awaiter[a].chan
             shut == awaiter[a].closed \/ match(a)
  <2>1. awaiter' = [awaiter EXCEPT ![a].chan = chan, ![a].closed = shut]
    BY DEF MatchAwaiter, Match
  <2>2. shut \in BOOLEAN
    OBVIOUS
  <2>3. chan \in Seq(Event)
    BY <1>4, <1>8
  <2> HIDE DEF chan, shut
  <2> QED
    BY <1>0, <1>1, <2>1, <2>2, <2>3, ZenonT(60) DEF AwaiterTypeOK
<1>10. StoreTypeOK'
  <2>1. reading.remaining \o remains(a) \in Seq(AwaiterId)
    <3>1. remains(a) = <<>> \/ remains(a) = <<a>>
      BY DEF remains
    <3>2. <<>> \in Seq(AwaiterId) /\ <<a>> \in Seq(AwaiterId) /\ reading.remaining \in Seq(AwaiterId)
      BY <1>0, <1>1, ListElements
    <3> HIDE DEF a
    <3> QED
      BY <3>1, <3>2, ConcatProperties
  <2>2. reading \in Reading /\ n + 1 \in Nat \ {0}
    BY <1>0, ListElements DEF StoreTypeOK
  <2>3. reading' \in Reading
    BY <1>5, <2>1, <2>2 DEF Reading
  <2> QED
    BY <1>0, <2>3 DEF StoreTypeOK
<1>11. ReadingLocked'
  BY <1>0, <1>1, <1>6 DEF EvInv, ReadingLocked
<1>12. RegisteredBefore'
  BY <1>0, <1>3, <1>4, <1>6 DEF EvInv, RegisteredBefore
<1>13. ListedOnce'
  <2>1. awaiter[a].state # "none"
    BY <1>1 DEF EvInv, ListedOnce
  <2> HIDE DEF a
  <2> QED
    BY <1>0, <1>3, <1>4, <2>1 DEF EvInv, ListedOnce
<1>14. ListedOpen'
  <2> SUFFICES ASSUME NEW i \in 1 .. Len(eventAwaiters), i >= n + 1
               PROVE  ~awaiter'[eventAwaiters[i]].closed
    BY <1>0, <1>6 DEF ListedOpen
  <2>1. i # n /\ i >= n
    BY <1>1
  <2>2. eventAwaiters[i] \in AwaiterId \ {a}
    BY <1>0, <1>1, <2>1, ListElements DEF EvInv, ListedOnce
  <2>3. ~awaiter[eventAwaiters[i]].closed
    BY <2>1 DEF EvInv, ListedOpen
  <2> QED
    BY <1>3, <2>2, <2>3
<1>15. RemainingOpen'
  <2> DEFINE kept == reading.remaining
  <2>1. /\ kept \in Seq(AwaiterId) /\ Len(kept) \in Nat
        /\ \A k \in 1 .. Len(kept) : kept[k] \in AwaiterId
    BY <1>0, ListElements
  <2>2. /\ \A i, j \in 1 .. Len(kept) : i # j => kept[i] # kept[j]
        /\ \A k \in 1 .. Len(kept) :
             /\ ~awaiter[kept[k]].closed
             /\ \E i \in 1 .. Len(eventAwaiters) : i < n /\ eventAwaiters[i] = kept[k]
    BY <1>0 DEF EvInv, RemainingOpen
  <2>3. ASSUME NEW k \in 1 .. Len(kept)
        PROVE  /\ kept[k] # a /\ ~awaiter'[kept[k]].closed
               /\ \E i \in 1 .. Len(eventAwaiters) : i < n + 1 /\ eventAwaiters[i] = kept[k]
    <3>1. PICK i \in 1 .. Len(eventAwaiters) : i < n /\ eventAwaiters[i] = kept[k]
      BY <2>2
    <3>2. kept[k] # a
      BY <1>1, <3>1 DEF EvInv, ListedOnce
    <3>3. ~awaiter'[kept[k]].closed
      BY <1>3, <2>1, <2>2, <3>2
    <3>4. i < n + 1
      BY <1>1, <3>1
    <3> QED
      BY <3>1, <3>2, <3>3, <3>4
  <2>4. CASE match(a)
    <3>1. reading'.remaining = kept
      BY <1>6, <2>1, <2>4 DEF remains
    <3>2. /\ \A i, j \in 1 .. Len(reading'.remaining) :
               i # j => reading'.remaining[i] # reading'.remaining[j]
          /\ \A k \in 1 .. Len(reading'.remaining) :
               /\ ~awaiter'[reading'.remaining[k]].closed
               /\ \E i \in 1 .. Len(eventAwaiters) : i < n + 1 /\ eventAwaiters[i] = reading'.remaining[k]
      BY <2>2, <2>3, <3>1
    <3> QED
      BY <1>0, <1>6, <3>2 DEF RemainingOpen
  <2>5. CASE ~match(a)
    <3>1. reading'.remaining = kept \o <<a>>
      BY <1>6, <2>5 DEF remains
    <3>2. /\ Len(reading'.remaining) = Len(kept) + 1 /\ reading'.remaining[Len(kept) + 1] = a
          /\ \A k \in 1 .. Len(kept) : reading'.remaining[k] = kept[k]
      BY <1>1, <2>1, <3>1, ConcatProperties
    <3>3. ~awaiter'[a].closed
      BY <1>1, <1>4, <2>5
    <3>4. n < n + 1
      BY <1>1
    <3>5. ASSUME NEW k \in 1 .. Len(reading'.remaining)
          PROVE  /\ ~awaiter'[reading'.remaining[k]].closed
                 /\ \E i \in 1 .. Len(eventAwaiters) : i < n + 1 /\ eventAwaiters[i] = reading'.remaining[k]
      <4>1. CASE k \in 1 .. Len(kept)
        BY <2>3, <3>2, <4>1
      <4>2. CASE k = Len(kept) + 1
        BY <1>1, <3>2, <3>3, <3>4, <4>2
      <4> QED
        BY <2>1, <3>2, <4>1, <4>2
    <3>6. ASSUME NEW i \in 1 .. Len(reading'.remaining), NEW j \in 1 .. Len(reading'.remaining), i # j
          PROVE  reading'.remaining[i] # reading'.remaining[j]
      <4>1. CASE i \in 1 .. Len(kept) /\ j \in 1 .. Len(kept)
        BY <2>2, <3>2, <3>6, <4>1
      <4>2. CASE i \in 1 .. Len(kept) /\ j = Len(kept) + 1
        BY <2>3, <3>2, <4>2
      <4>3. CASE i = Len(kept) + 1 /\ j \in 1 .. Len(kept)
        BY <2>3, <3>2, <4>3
      <4> QED
        BY <2>1, <3>2, <3>6, <4>1, <4>2, <4>3
    <3> QED
      BY <1>0, <1>6, <3>5, <3>6 DEF RemainingOpen
  <2> QED
    BY <2>4, <2>5
<1>16. ChannelHonest' /\ AwaitHonest'
  <2>1. ASSUME NEW b \in AwaiterId
        PROVE  /\ \A k \in 1 .. Len(awaiter'[b].chan) :
                    /\ awaiter'[b].chan[k].payload \in Awaited
                    /\ awaiter'[b].chan[k].number > awaiter'[b].since
               /\ awaiter'[b].timeout => awaiter'[b].state = "timeout"
               /\ awaiter'[b].state = "waiting" /\ awaiter'[b].closed => awaiter'[b].chan # <<>>
    <3>1. CASE b # a
      BY <1>3, <3>1 DEF EvInv, ChannelHonest
    <3>2. CASE b = a
      <4>1. awaiter[a].timeout => awaiter[a].state = "timeout"
        BY <1>1 DEF EvInv, ChannelHonest
      <4>2. awaiter'[a].state = "waiting" /\ awaiter'[a].closed => sends1
        BY <1>1, <1>4, <4>1
      <4> HIDE DEF a
      <4> QED
        BY <1>4, <1>8, <3>2, <4>1, <4>2
    <3> QED
      BY <3>1, <3>2
  <2>2. ASSUME NEW b \in AwaiterId
        PROVE  /\ awaiter'[b].state = awaiter[b].state /\ awaiter'[b].got = awaiter[b].got
               /\ awaiter'[b].since = awaiter[b].since
    BY <1>3, <1>4
  <2> QED
    BY <1>2, <2>1, <2>2 DEF EvInv, ChannelHonest, AwaitHonest
<1> QED
  BY <1>9, <1>10, <1>11, <1>12, <1>13, <1>14, <1>15, <1>16 DEF EvInv
\* Intercept returns: the list is what it kept.
LEMMA ReturnsStep == ASSUME EvInv, InterceptReturns PROVE EvInv'
<1> DEFINE kept == reading.remaining
<1>0. /\ StoreTypeOK /\ AwaiterTypeOK /\ reading.phase = "awaiters" /\ eventAwaiters' = kept
      /\ reading' = idleRead /\ holder' = NoCaller
      /\ UNCHANGED <<interceptors, nextID, removable, awaiter, count, sendPanic>>
  BY DEF EvInv, InterceptReturns
<1>1. reading'.phase = "idle" /\ reading' \in Reading
  BY <1>0, EmptySeq DEF idleRead, Reading
<1>2. kept \in Seq(AwaiterId) /\ \A k \in 1 .. Len(kept) : kept[k] \in AwaiterId
  BY <1>0, ListElements
<1>3. StoreTypeOK' /\ AwaiterTypeOK'
  BY <1>0, <1>1, <1>2 DEF StoreTypeOK, AwaiterTypeOK
<1>4. ReadingLocked' /\ RegisteredBefore' /\ ChannelHonest' /\ AwaitHonest'
  BY <1>0, <1>1 DEF EvInv, ReadingLocked, RegisteredBefore, ChannelHonest, AwaitHonest
<1>5. /\ \A i, j \in 1 .. Len(kept) : i # j => kept[i] # kept[j]
      /\ \A k \in 1 .. Len(kept) :
           /\ ~awaiter[kept[k]].closed
           /\ \E i \in 1 .. Len(eventAwaiters) : eventAwaiters[i] = kept[k]
  BY <1>0 DEF EvInv, RemainingOpen
<1>6. ListedOnce'
  BY <1>0, <1>5 DEF EvInv, ListedOnce
<1>7. ListedOpen' /\ RemainingOpen'
  BY <1>0, <1>1, <1>5 DEF ListedOpen, RemainingOpen
<1> QED
  BY <1>3, <1>4, <1>6, <1>7 DEF EvInv

\* Store.Intercept, EventAwaiter.Match and Await: whatever the callbacks, the
\* timeouts and the order of events, an Await that reports no error returns an
\* awaited event that came after it, and no match sends on a closed channel.
THEOREM EventsDeliveredCorrect == EvSpec => []EventsDelivered
<1>1. EvInv /\ [EvNext]_evVars => EvInv'
  <2> SUFFICES ASSUME EvInv, [EvNext]_evVars PROVE EvInv'
    OBVIOUS
  <2>1. CASE (\E kind \in HandlerKind : AddInterceptor(kind))
             \/ \E id \in 1 .. MaxHandlers : removeInterceptor(id)
    <3>1. UNCHANGED <<holder, eventAwaiters, awaiter, reading, count, sendPanic>>
      BY <2>1 DEF AddInterceptor, removeInterceptor
    <3>2. StoreTypeOK'
      BY <2>1, HandlersStep DEF EvInv
    <3>3. AwaiterTypeOK' /\ ReadingLocked' /\ RegisteredBefore' /\ ListedOnce'
      BY <3>1 DEF EvInv, AwaiterTypeOK, ReadingLocked, RegisteredBefore, ListedOnce
    <3>4. ListedOpen' /\ RemainingOpen' /\ ChannelHonest' /\ AwaitHonest'
      BY <3>1 DEF EvInv, ListedOpen, RemainingOpen, ChannelHonest, AwaitHonest
    <3> QED
      BY <3>2, <3>3, <3>4 DEF EvInv
  <2>2. ASSUME NEW a \in AwaiterId, NewEventAwaiter(a) \/ AwaitReceives(a) \/ AwaitTimer(a) PROVE EvInv'
    BY <2>2, NewAwaiterStep, AwaitStep
  <2>3. CASE (\E p \in Payload : Intercept(p)) \/ CallInterceptor \/ InterceptorsDone
    BY <2>3, CallbacksStep
  <2>4. CASE MatchAwaiter \/ InterceptReturns
    BY <2>4, MatchStep, ReturnsStep
  <2>5. CASE UNCHANGED evVars
    BY <2>5 DEF evVars, EvInv, StoreTypeOK, AwaiterTypeOK, ReadingLocked, RegisteredBefore, ListedOnce,
                ListedOpen, RemainingOpen, ChannelHonest, AwaitHonest
  <2> QED
    BY <2>1, <2>2, <2>3, <2>4, <2>5 DEF EvNext, ReadStep
<1>2. EvInv => EventsDelivered
  BY EvTypes DEF EvInv, EventsDelivered
<1> QED
  BY <1>1, <1>2, EvInvInit, PTL DEF EvSpec

(***************************************************************************)
(* SlidingWindow: its ceiling and its justification of refusals, for every *)
(* limit and window.  What is remembered is the tail of what was allowed,  *)
(* and everything forgotten had left the window when it was.               *)
(***************************************************************************)

\* History and memory run in the order of the clock.
Ordered ==
    \A i, j \in 1 .. Len(allowed) : i <= j => allowed[i] <= allowed[j] /\ allowed[j] <= now

\* events is the tail of allowed, at most Limit long.
Remembered ==
    /\ Len(events) <= Limit
    /\ Len(events) <= Len(allowed)
    /\ \A i \in 1 .. Len(events) : events[i] = allowed[Len(allowed) - Len(events) + i]

\* What has been evicted is a Window old.
Forgotten ==
    \A i \in 1 .. Len(allowed) - Len(events) : allowed[i] <= now - Window

LimiterInv == TypeOK /\ Ordered /\ Remembered /\ Forgotten /\ AtMostLimitPerWindow /\ RefusalJustified

\* evictLocked as arithmetic on indices: a suffix whose predecessors expired and
\* whose first element has not.
LEMMA Evicted ==
    ASSUME TypeOK, NEW kept, evictLocked(kept)
    PROVE  \E keep \in 0 .. Len(events) :
             /\ kept \in Seq(Nat) /\ Len(kept) = Len(events) - keep
             /\ \A i \in 1 .. Len(kept) : kept[i] = events[keep + i]
             /\ \A i \in 1 .. keep : events[i] <= now - Window
             /\ Len(kept) > 0 => kept[1] > now - Window
<1>1. PICK keep \in 0 .. Len(events) :
        /\ \A i \in 1 .. keep : expired(events[i], now - Window)
        /\ keep < Len(events) => ~expired(events[keep + 1], now - Window)
        /\ kept = SubSeq(events, keep + 1, Len(events))
  BY DEF evictLocked
<1>2. keep + 1 \in 1 .. Len(events) + 1 /\ Len(events) \in Nat /\ events \in Seq(Nat)
  BY DEF TypeOK
<1>3. kept \in Seq(Nat) /\ Len(kept) = Len(events) - keep
  BY <1>1, <1>2
<1>4. \A i \in 1 .. Len(kept) : kept[i] = events[keep + i]
  BY <1>1, <1>2, <1>3
<1>5. \A i \in 1 .. keep : events[i] <= now - Window
  BY <1>1 DEF expired
<1>6. Len(kept) > 0 => kept[1] > now - Window
  <2> SUFFICES ASSUME Len(kept) > 0 PROVE kept[1] > now - Window
    OBVIOUS
  <2>1. keep < Len(events) /\ kept[1] = events[keep + 1]
    BY <1>2, <1>3, <1>4
  <2>2. events[keep + 1] \in Nat
    BY <2>1, <1>2
  <2>3. ~(events[keep + 1] <= now - Window)
    BY <1>1, <2>1 DEF expired
  <2> QED
    BY <2>1, <2>2, <2>3, WindowAssumption DEF TypeOK
<1> QED
  BY <1>3, <1>4, <1>5, <1>6

\* The eviction preserves what ties memory to history.
LEMMA EvictedTail ==
    ASSUME LimiterInv, NEW kept, evictLocked(kept)
    PROVE  /\ kept \in Seq(Nat) /\ Len(kept) <= Len(events)
           /\ \A i \in 1 .. Len(kept) : kept[i] = allowed[Len(allowed) - Len(kept) + i]
           /\ \A i \in 1 .. Len(allowed) - Len(kept) : allowed[i] <= now - Window
           /\ Len(kept) > 0 => kept[1] > now - Window
<1>1. PICK keep \in 0 .. Len(events) :
        /\ kept \in Seq(Nat) /\ Len(kept) = Len(events) - keep
        /\ \A i \in 1 .. Len(kept) : kept[i] = events[keep + i]
        /\ \A i \in 1 .. keep : events[i] <= now - Window
        /\ Len(kept) > 0 => kept[1] > now - Window
  BY Evicted DEF LimiterInv
<1>2. Len(events) \in Nat /\ Len(allowed) \in Nat /\ Len(events) <= Len(allowed)
  BY DEF LimiterInv, TypeOK, Remembered
<1>3. \A i \in 1 .. Len(kept) : kept[i] = allowed[Len(allowed) - Len(kept) + i]
  <2> SUFFICES ASSUME NEW i \in 1 .. Len(kept)
               PROVE  kept[i] = allowed[Len(allowed) - Len(kept) + i]
    OBVIOUS
  <2>1. keep + i \in 1 .. Len(events)
    BY <1>1, <1>2
  <2>2. events[keep + i] = allowed[Len(allowed) - Len(events) + (keep + i)]
    BY <2>1 DEF LimiterInv, Remembered
  <2>3. Len(allowed) - Len(events) + (keep + i) = Len(allowed) - Len(kept) + i
    BY <1>1, <1>2
  <2> QED
    BY <1>1, <2>2, <2>3
<1>4. \A i \in 1 .. Len(allowed) - Len(kept) : allowed[i] <= now - Window
  <2> SUFFICES ASSUME NEW i \in 1 .. Len(allowed) - Len(kept)
               PROVE  allowed[i] <= now - Window
    OBVIOUS
  <2>1. CASE i <= Len(allowed) - Len(events)
    BY <2>1, <1>2 DEF LimiterInv, Forgotten
  <2>2. CASE i > Len(allowed) - Len(events)
    <3> DEFINE j == i - (Len(allowed) - Len(events))
    <3>1. j \in 1 .. keep /\ j \in 1 .. Len(events)
      BY <2>2, <1>1, <1>2
    <3>2. Len(allowed) - Len(events) + j = i
      BY <1>2
    <3>3. events[j] = allowed[i]
      BY <3>1, <3>2 DEF LimiterInv, Remembered
    <3> QED
      BY <3>1, <3>3, <1>1
  <2> QED
    BY <2>1, <2>2, <1>2
<1> QED
  BY <1>1, <1>2, <1>3, <1>4

\* ratelimit.New leaves an empty window.
LEMMA LimiterInvInit == Init => LimiterInv
<1> SUFFICES ASSUME Init PROVE LimiterInv
  OBVIOUS
<1>1. /\ Len(events) = 0 /\ Len(allowed) = 0 /\ DOMAIN allowed = {} /\ verdict # "no"
      /\ Limit \in Nat /\ now = 0
  BY WindowAssumption DEF Init
<1>2. TypeOK
  BY DEF Init, TypeOK
<1> QED
  BY <1>1, <1>2
     DEF LimiterInv, Ordered, Remembered, Forgotten, AtMostLimitPerWindow, RefusalJustified

\* A step that only evicts, by the clock it read, and lets the clock move on.
LEMMA EvictStep ==
    ASSUME LimiterInv, NEW kept, evictLocked(kept), events' = kept, allowed' = allowed,
           now' \in Nat, now <= now', verdict' \in {"none", "yes", "no"},
           verdict' = "no" => Len(kept) >= Limit /\ now' = now
    PROVE  LimiterInv'
<1>1. /\ kept \in Seq(Nat) /\ Len(kept) <= Len(events)
      /\ \A i \in 1 .. Len(kept) : kept[i] = allowed[Len(allowed) - Len(kept) + i]
      /\ \A i \in 1 .. Len(allowed) - Len(kept) : allowed[i] <= now - Window
      /\ Len(kept) > 0 => kept[1] > now - Window
  BY EvictedTail
<1>2. /\ Len(kept) \in Nat /\ Len(allowed) \in Nat /\ Len(events) \in Nat
      /\ Len(events) <= Len(allowed) /\ Len(events) <= Limit /\ now \in Nat
      /\ \A i \in 1 .. Len(allowed) : allowed[i] \in Nat
      /\ Limit \in Nat \ {0} /\ Window \in Nat
  BY <1>1, WindowAssumption, SMTT(30) DEF LimiterInv, TypeOK, Remembered
<1>3. TypeOK'
  BY <1>1 DEF LimiterInv, TypeOK
<1>4. Ordered'
  BY <1>2 DEF LimiterInv, Ordered
<1>5. Remembered'
  BY <1>1, <1>2 DEF Remembered
<1>6. Forgotten'
  <2> SUFFICES ASSUME NEW i \in 1 .. Len(allowed) - Len(kept)
               PROVE  allowed[i] <= now' - Window
    BY DEF Forgotten
  <2>1. i \in 1 .. Len(allowed)
    BY <1>2
  <2> QED
    BY <1>1, <1>2, <2>1
<1>7. AtMostLimitPerWindow'
  BY DEF LimiterInv, AtMostLimitPerWindow
<1>8. RefusalJustified'
  <2> SUFFICES ASSUME verdict' = "no"
               PROVE  Len(allowed) >= Limit /\ allowed[Len(allowed) - Limit + 1] > now - Window
    BY DEF RefusalJustified
  <2>1. Len(kept) = Limit
    BY <1>1, <1>2
  <2> QED
    BY <1>1, <1>2, <2>1
<1> QED
  BY <1>3, <1>4, <1>5, <1>6, <1>7, <1>8 DEF LimiterInv

\* An Allow that says yes.
LEMMA AllowedStep ==
    ASSUME LimiterInv, NEW kept, evictLocked(kept), Len(kept) < Limit,
           now' \in Nat, now <= now', events' = Append(kept, now'),
           allowed' = Append(allowed, now'), verdict' = "yes"
    PROVE  LimiterInv'
<1>1. /\ kept \in Seq(Nat) /\ Len(kept) <= Len(events)
      /\ \A i \in 1 .. Len(kept) : kept[i] = allowed[Len(allowed) - Len(kept) + i]
      /\ \A i \in 1 .. Len(allowed) - Len(kept) : allowed[i] <= now - Window
  BY EvictedTail
<1>2. /\ Len(kept) \in Nat /\ Len(allowed) \in Nat /\ Len(events) \in Nat
      /\ Len(events) <= Len(allowed) /\ now \in Nat /\ allowed \in Seq(Nat)
      /\ \A i \in 1 .. Len(allowed) : allowed[i] \in Nat
      /\ Limit \in Nat \ {0} /\ Window \in Nat
  BY <1>1, WindowAssumption DEF LimiterInv, TypeOK, Remembered
<1>3. /\ Len(allowed') = Len(allowed) + 1 /\ Len(events') = Len(kept) + 1
      /\ \A i \in 1 .. Len(allowed) : allowed'[i] = allowed[i]
      /\ allowed'[Len(allowed) + 1] = now'
      /\ \A i \in 1 .. Len(kept) : events'[i] = kept[i]
      /\ events'[Len(kept) + 1] = now'
  BY <1>1, <1>2
<1>4. TypeOK'
  <2>1. Append(kept, now') \in Seq(Nat) /\ Append(allowed, now') \in Seq(Nat)
    BY <1>1, <1>2
  <2> QED
    BY <2>1 DEF TypeOK
<1>5. Ordered'
  <2> SUFFICES ASSUME NEW i \in 1 .. Len(allowed'), NEW j \in 1 .. Len(allowed'), i <= j
               PROVE  allowed'[i] <= allowed'[j] /\ allowed'[j] <= now'
    BY DEF Ordered
  <2>1. CASE j <= Len(allowed)
    <3>1. i \in 1 .. Len(allowed) /\ j \in 1 .. Len(allowed)
      BY <2>1, <1>2, <1>3
    <3> QED
      BY <3>1, <1>2, <1>3, SMTT(30) DEF LimiterInv, Ordered
  <2>2. CASE j = Len(allowed) + 1
    <3>1. CASE i = j
      BY <3>1, <2>2, <1>3
    <3>2. CASE i # j
      <4>1. i \in 1 .. Len(allowed)
        BY <3>2, <2>2, <1>2, <1>3
      <4> QED
        BY <4>1, <2>2, <1>2, <1>3 DEF LimiterInv, Ordered
    <3> QED
      BY <3>1, <3>2
  <2>3. j <= Len(allowed) \/ j = Len(allowed) + 1
    BY <1>2, <1>3
  <2> QED
    BY <2>1, <2>2, <2>3
<1>6. Remembered'
  <2>1. Len(events') <= Limit /\ Len(events') <= Len(allowed')
    BY <1>1, <1>2, <1>3
  <2>2. ASSUME NEW i \in 1 .. Len(events')
        PROVE  events'[i] = allowed'[Len(allowed') - Len(events') + i]
    <3>1. CASE i = Len(kept) + 1
      BY <3>1, <1>2, <1>3
    <3>2. CASE i # Len(kept) + 1
      <4>1. i \in 1 .. Len(kept) /\ Len(allowed) - Len(kept) + i \in 1 .. Len(allowed)
        BY <3>2, <1>1, <1>2, <1>3, SMTT(30)
      <4>2. Len(allowed') - Len(events') + i = Len(allowed) - Len(kept) + i
        BY <1>2, <1>3
      <4> QED
        BY <4>1, <4>2, <1>1, <1>3
    <3> QED
      BY <3>1, <3>2
  <2> QED
    BY <2>1, <2>2 DEF Remembered
<1>7. Forgotten'
  <2> SUFFICES ASSUME NEW i \in 1 .. Len(allowed') - Len(events')
               PROVE  allowed'[i] <= now' - Window
    BY DEF Forgotten
  <2>1. i \in 1 .. Len(allowed) - Len(kept) /\ i \in 1 .. Len(allowed)
    BY <1>2, <1>3
  <2>2. allowed[i] <= now - Window
    BY <2>1, <1>1
  <2>3. allowed'[i] = allowed[i] /\ allowed[i] \in Nat
    BY <2>1, <1>2, <1>3
  <2>4. now \in Int /\ now' \in Int /\ Window \in Int /\ allowed[i] \in Int
    BY <2>3, <1>2
  <2> QED
    BY <2>2, <2>3, <2>4
<1>8. AtMostLimitPerWindow'
  <2> SUFFICES ASSUME NEW i \in DOMAIN allowed', i + Limit \in DOMAIN allowed'
               PROVE  allowed'[i + Limit] - allowed'[i] >= Window
    BY DEF AtMostLimitPerWindow
  <2>1. i \in 1 .. Len(allowed) + 1 /\ i + Limit \in 1 .. Len(allowed) + 1
    BY <1>3, <1>4 DEF TypeOK
  <2>2. CASE i + Limit <= Len(allowed)
    <3>1. i \in DOMAIN allowed /\ i + Limit \in DOMAIN allowed
      BY <2>1, <2>2, <1>2, SMTT(30)
    <3>2. allowed[i + Limit] - allowed[i] >= Window
      BY <3>1 DEF LimiterInv, AtMostLimitPerWindow
    <3> QED
      BY <3>1, <3>2, <1>2, <1>3
  <2>3. CASE i + Limit = Len(allowed) + 1
    <3>1. i \in 1 .. Len(allowed) - Len(kept) /\ i \in 1 .. Len(allowed)
      BY <2>1, <2>3, <1>2
    <3>2. allowed[i] <= now - Window
      BY <3>1, <1>1
    <3> QED
      BY <3>1, <3>2, <2>3, <1>2, <1>3, SMTT(30)
  <2> QED
    BY <2>1, <2>2, <2>3, <1>2
<1>9. RefusalJustified'
  BY DEF RefusalJustified
<1> QED
  BY <1>4, <1>5, <1>6, <1>7, <1>8, <1>9 DEF LimiterInv

\* Allow, Remaining, Reset and the clock keep memory and history together.
LEMMA LimiterInvStep == LimiterInv /\ [Next]_vars => LimiterInv'
<1> SUFFICES ASSUME LimiterInv, [Next]_vars PROVE LimiterInv'
  OBVIOUS
<1>1. CASE Allow
  <2>1. PICK kept \in Suffixes(events), later \in now .. MaxTime :
          /\ evictLocked(kept)
          /\ now' = later
          /\ IF Len(kept) >= Limit
             THEN /\ events' = kept
                  /\ verdict' = IF later = now THEN "no" ELSE "none"
                  /\ UNCHANGED allowed
             ELSE /\ events' = Append(kept, later)
                  /\ allowed' = Append(allowed, later)
                  /\ verdict' = "yes"
    BY <1>1 DEF Allow
  <2>2. now' \in Nat /\ now <= now' /\ Limit \in Nat
    BY <2>1, WindowAssumption DEF LimiterInv, TypeOK
  <2>3. Len(kept) \in Nat
    BY <2>1, EvictedTail
  <2>4. CASE Len(kept) >= Limit
    <3>1. events' = kept /\ allowed' = allowed
      BY <2>1, <2>4
    <3>2. verdict' \in {"none", "yes", "no"} /\ (verdict' = "no" => Len(kept) >= Limit /\ now' = now)
      BY <2>1, <2>4
    <3> QED
      BY <2>1, <2>2, <3>1, <3>2, EvictStep
  <2>5. CASE Len(kept) < Limit
    <3>1. /\ events' = Append(kept, now') /\ allowed' = Append(allowed, now')
          /\ verdict' = "yes" /\ evictLocked(kept)
      BY <2>1, <2>2, <2>3, <2>5
    <3> QED
      BY <2>2, <2>5, <3>1, AllowedStep
  <2> QED
    BY <2>2, <2>3, <2>4, <2>5
<1>2. CASE Remaining
  <2>1. PICK kept \in Suffixes(events) :
          evictLocked(kept) /\ events' = kept /\ verdict' = "none" /\ UNCHANGED <<now, allowed>>
    BY <1>2 DEF Remaining
  <2>2. now' \in Nat /\ now <= now'
    BY <2>1 DEF LimiterInv, TypeOK
  <2> QED
    BY <2>1, <2>2, EvictStep
<1>3. CASE Reset
  <2>1. /\ Len(events') = 0 /\ Len(allowed') = 0 /\ DOMAIN allowed' = {} /\ verdict' # "no"
        /\ Limit \in Nat
    BY <1>3, WindowAssumption DEF Reset
  <2>2. TypeOK'
    BY <1>3 DEF Reset, LimiterInv, TypeOK
  <2> QED
    BY <2>1, <2>2
     DEF LimiterInv, Ordered, Remembered, Forgotten, AtMostLimitPerWindow, RefusalJustified
<1>4. CASE Tick
  <2>1. /\ now' = now + 1 /\ verdict' = "none" /\ events' = events /\ allowed' = allowed
        /\ now \in Nat /\ Window \in Nat
    BY <1>4, WindowAssumption DEF Tick, LimiterInv, TypeOK
  <2>2. \A i \in 1 .. Len(allowed) : allowed[i] \in Nat
    BY DEF LimiterInv, TypeOK
  <2>3. Len(allowed) \in Nat /\ Len(events) \in Nat
    BY DEF LimiterInv, TypeOK
  <2>4. Ordered'
    BY <2>1, <2>2, <2>3 DEF LimiterInv, Ordered
  <2>5. Forgotten'
    <3> SUFFICES ASSUME NEW i \in 1 .. Len(allowed) - Len(events)
                 PROVE  allowed[i] <= now + 1 - Window
      BY <2>1 DEF Forgotten
    <3>1. i \in 1 .. Len(allowed) /\ allowed[i] <= now - Window
      BY <2>3 DEF LimiterInv, Forgotten
    <3> QED
      BY <2>1, <2>2, <3>1
  <2>6. RefusalJustified' /\ TypeOK'
    BY <2>1 DEF LimiterInv, RefusalJustified, TypeOK
  <2> QED
    BY <2>1, <2>4, <2>5, <2>6 DEF LimiterInv, Remembered, AtMostLimitPerWindow
<1>5. CASE UNCHANGED vars
  BY <1>5 DEF vars, LimiterInv, TypeOK, Ordered, Remembered, Forgotten, AtMostLimitPerWindow, RefusalJustified
<1> QED
  BY <1>1, <1>2, <1>3, <1>4, <1>5 DEF Next

\* LimiterInv holds of every reachable state of the limiter.
LEMMA LimiterInductive == Spec => []LimiterInv
  BY LimiterInvInit, LimiterInvStep, PTL DEF Spec

\* However SlidingWindow.Allow, Remaining and Reset are interleaved with the
\* clock, at most Limit events are allowed in any Window.
THEOREM AtMostLimitPerWindowCorrect == Spec => []AtMostLimitPerWindow
  BY LimiterInductive, PTL DEF LimiterInv

\* SlidingWindow.Allow refuses only when Limit events weigh on the present Window.
THEOREM RefusalJustifiedCorrect == Spec => []RefusalJustified
  BY LimiterInductive, PTL DEF LimiterInv

\* The two together: the limiter of rejoins is exact.
THEOREM LimiterExactCorrect == Spec => []LimiterExact
<1>1. LimiterInv => LimiterExact
  BY DEF LimiterInv, LimiterExact
<1>2. QED
  BY LimiterInductive, <1>1, PTL

(***************************************************************************)
(* The refinement: the events still in the window are a RejoinBudget.      *)
(***************************************************************************)

\* A set of numbers that a shift takes into a finite set is no larger.
LEMMA ShiftedCount ==
    ASSUME NEW S, NEW T, IsFiniteSet(T), NEW k \in Int, \A i \in S : i \in Int /\ i + k \in T
    PROVE  IsFiniteSet(S) /\ Cardinality(S) <= Cardinality(T)
<1> DEFINE f == [i \in S |-> i + k]
<1>1. f \in [S -> T]
  OBVIOUS
<1>2. ASSUME NEW i \in S, NEW j \in S, f[i] = f[j] PROVE i = j
  <2>1. i \in Int /\ j \in Int
    OBVIOUS
  <2>2. i + k = j + k
    BY <1>2
  <2> QED
    BY <2>1, <2>2
<1>3. f \in Injection(S, T)
  BY <1>1, <1>2 DEF Injection, IsInjective
<1> QED
  BY <1>3, FS_Injection

\* The live events are among the remembered ones.
LEMMA LiveCounted ==
    ASSUME NEW es \in Seq(Nat), NEW t \in Nat,
           NEW L, L = {i \in DOMAIN es : ~expired(es[i], t - Window)}
    PROVE  /\ IsFiniteSet(L) /\ Cardinality(L) \in Nat
           /\ L = {i \in 1 .. Len(es) : es[i] > t - Window}
<1>1. DOMAIN es = 1 .. Len(es) /\ Len(es) \in Nat /\ Window \in Nat
      /\ \A i \in 1 .. Len(es) : es[i] \in Nat
  BY WindowAssumption
<1>2. L = {i \in 1 .. Len(es) : es[i] > t - Window}
  BY <1>1 DEF expired
<1>3. IsFiniteSet(1 .. Len(es))
  BY <1>1, FS_Interval
<1>4. IsFiniteSet(L)
  BY <1>2, <1>3, FS_Subset
<1> QED
  BY <1>2, <1>4, FS_CardinalityType

LEMMA LiveNow ==
    ASSUME TypeOK
    PROVE  /\ IsFiniteSet(live) /\ Cardinality(live) \in Nat
           /\ live = {i \in 1 .. Len(events) : events[i] > now - Window}
<1>1. events \in Seq(Nat) /\ now \in Nat
  BY DEF TypeOK
<1>2. live = {i \in DOMAIN events : ~expired(events[i], now - Window)}
  BY DEF live
<1> QED
  BY ONLY <1>1, <1>2, LiveCounted

\* A step that forgets some of the oldest events, or none, and lets the clock move
\* on: evictions, Reset and time.
LEMMA ForgettingRecovers ==
    ASSUME TypeOK, NEW kept \in Seq(Nat), events' = kept, now' \in Nat, now <= now',
           NEW keep \in 0 .. Len(events), Len(kept) = Len(events) - keep,
           \A i \in 1 .. Len(kept) : kept[i] = events[keep + i]
    PROVE  Budget!Recover
<1>1. PICK L : L = live'
  OBVIOUS
<1>2. /\ IsFiniteSet(live) /\ Cardinality(live) \in Nat
      /\ live = {i \in 1 .. Len(events) : events[i] > now - Window}
  BY LiveNow
<1>3. /\ IsFiniteSet(L) /\ Cardinality(L) \in Nat
      /\ L = {i \in 1 .. Len(kept) : kept[i] > now' - Window}
  <2>1. L = {i \in DOMAIN kept : ~expired(kept[i], now' - Window)}
    BY <1>1 DEF live, expired
  <2>2. kept \in Seq(Nat) /\ now' \in Nat
    OBVIOUS
  <2> QED
    BY ONLY <2>1, <2>2, LiveCounted
<1>4. ASSUME NEW i \in L PROVE i \in Int /\ i + keep \in live
  <2>1. i \in 1 .. Len(kept) /\ kept[i] > now' - Window
    BY <1>3
  <2>2. Len(events) \in Nat /\ now \in Nat /\ Window \in Nat
    BY WindowAssumption DEF TypeOK
  <2>3. i + keep \in 1 .. Len(events) /\ kept[i] = events[i + keep] /\ kept[i] \in Nat
    BY <2>1, <2>2
  <2>4. events[i + keep] > now - Window
    BY <2>1, <2>2, <2>3
  <2> QED
    BY <1>2, <2>1, <2>3, <2>4
<1>5. Cardinality(L) <= Cardinality(live)
  <2>1. keep \in Int /\ IsFiniteSet(live) /\ \A i \in L : i \in Int /\ i + keep \in live
    BY <1>2, <1>4
  <2> QED
    BY ONLY <2>1, ShiftedCount
<1>6. Cardinality(L) \in 0 .. Cardinality(live)
  BY <1>2, <1>3, <1>5
<1> QED
  BY <1>1, <1>6 DEF Budget!Recover

\* An Allow that says yes spends, or recovers when the clock moved meanwhile.
LEMMA AllowedSpends ==
    ASSUME TypeOK, NEW kept, evictLocked(kept), Len(kept) < Limit,
           now' \in Nat, now <= now', events' = Append(kept, now')
    PROVE  Budget!Next
<1>1. PICK keep \in 0 .. Len(events) :
        /\ kept \in Seq(Nat) /\ Len(kept) = Len(events) - keep
        /\ \A i \in 1 .. Len(kept) : kept[i] = events[keep + i]
        /\ \A i \in 1 .. keep : events[i] <= now - Window
  BY Evicted
<1>2. PICK es \in Seq(Nat), t \in Nat : es = events' /\ t = now'
  <2>1. events' \in Seq(Nat)
    BY <1>1
  <2> QED
    BY <2>1
<1>3. PICK L : L = live'
  OBVIOUS
<1>4. /\ IsFiniteSet(live) /\ Cardinality(live) \in Nat
      /\ live = {i \in 1 .. Len(events) : events[i] > now - Window}
  BY LiveNow
<1>5. /\ IsFiniteSet(L) /\ Cardinality(L) \in Nat
      /\ L = {i \in 1 .. Len(es) : es[i] > t - Window}
  <2>1. L = {i \in DOMAIN es : ~expired(es[i], t - Window)}
    BY <1>2, <1>3 DEF live, expired
  <2> QED
    BY <2>1, LiveCounted
<1>6. /\ Len(events) \in Nat /\ Len(kept) \in Nat /\ now \in Nat /\ now <= t
      /\ Window \in Nat /\ Limit \in Nat /\ Len(es) = Len(kept) + 1
      /\ \A i \in 1 .. Len(kept) : es[i] = kept[i] /\ kept[i] \in Nat
      /\ \A i \in 1 .. Len(events) : events[i] \in Nat
  <2>1. /\ Len(events) \in Nat /\ Len(kept) \in Nat /\ now \in Nat
        /\ \A i \in 1 .. Len(events) : events[i] \in Nat
        /\ \A i \in 1 .. Len(kept) : kept[i] \in Nat
    <3>1. kept \in Seq(Nat) /\ events \in Seq(Nat) /\ now \in Nat
      BY <1>1 DEF TypeOK
    <3> QED
      BY ONLY <3>1
  <2>2. es = Append(kept, t) /\ now <= t
    BY <1>2
  <2>3. Len(es) = Len(kept) + 1 /\ \A i \in 1 .. Len(kept) : es[i] = kept[i]
    <3>1. kept \in Seq(Nat) /\ t \in Nat
      BY <1>1
    <3> QED
      BY ONLY <2>2, <3>1
  <2>4. Window \in Nat /\ Limit \in Nat
    BY WindowAssumption
  <2> QED
    BY <2>1, <2>2, <2>3, <2>4
<1> DEFINE K == L \ {Len(kept) + 1}
<1>7. ASSUME NEW i \in K PROVE i \in Int /\ i + keep \in live
  <2>1. i \in 1 .. Len(kept) /\ es[i] > t - Window
    BY <1>5, <1>6
  <2>2. i + keep \in 1 .. Len(events) /\ es[i] = events[i + keep] /\ es[i] \in Nat
    <3>1. i + keep \in 1 .. Len(events) /\ keep + i = i + keep
      BY <1>1, <1>6, <2>1
    <3>2. es[i] = kept[i] /\ kept[i] \in Nat /\ kept[i] = events[keep + i]
      BY <1>1, <1>6, <2>1
    <3> QED
      BY <3>1, <3>2
  <2>3. events[i + keep] > now - Window
    <3>1. PICK e \in Nat : e = es[i] /\ e = events[i + keep]
      BY ONLY <2>2
    <3>2. e > t - Window /\ now <= t /\ now \in Nat /\ t \in Nat /\ Window \in Nat
      BY ONLY <1>6, <2>1, <3>1, t \in Nat
    <3> QED
      BY ONLY <3>1, <3>2
  <2> QED
    BY <1>4, <2>1, <2>2, <2>3
<1>8. Cardinality(L) <= Cardinality(live) + 1
  <2>1. IsFiniteSet(K) /\ Cardinality(K) <= Cardinality(live)
    BY <1>4, <1>7, ShiftedCount
  <2>2. Cardinality(K) = IF Len(kept) + 1 \in L THEN Cardinality(L) - 1 ELSE Cardinality(L)
    BY <1>5, FS_RemoveElement
  <2>3. Cardinality(K) = Cardinality(L) - 1 \/ Cardinality(K) = Cardinality(L)
    BY <2>2
  <2> QED
    BY <1>4, <1>5, <2>1, <2>3
<1>9. Cardinality(live) < Limit
  <2>1. ASSUME NEW i \in live PROVE i \in Int /\ i + (-keep) \in 1 .. Len(kept)
    <3>1. i \in 1 .. Len(events) /\ events[i] > now - Window
      BY <1>4
    <3>2. ~(i \in 1 .. keep)
      BY <1>1, <1>6, <3>1, SMTT(30)
    <3> QED
      BY <1>1, <1>6, <3>1, <3>2
  <2>2. IsFiniteSet(1 .. Len(kept)) /\ Cardinality(1 .. Len(kept)) = Len(kept)
    <3>1. 1 \in Int /\ Len(kept) \in Int
      BY <1>6
    <3>2. /\ IsFiniteSet(1 .. Len(kept))
          /\ Cardinality(1 .. Len(kept)) = IF 1 > Len(kept) THEN 0 ELSE Len(kept) - 1 + 1
      BY <3>1, FS_Interval
    <3> QED
      BY <1>6, <3>2
  <2>3. -keep \in Int
    OBVIOUS
  <2>4. Cardinality(live) <= Cardinality(1 .. Len(kept))
    BY <2>1, <2>2, <2>3, ShiftedCount
  <2> QED
    BY <1>4, <1>6, <2>2, <2>4
<1>10. CASE Cardinality(L) <= Cardinality(live)
  <2>1. Cardinality(L) \in 0 .. Cardinality(live)
    BY <1>4, <1>5, <1>10
  <2> QED
    BY <1>3, <2>1 DEF Budget!Next, Budget!Recover
<1>11. CASE Cardinality(L) > Cardinality(live)
  <2>1. Cardinality(L) = Cardinality(live) + 1
    BY <1>4, <1>5, <1>8, <1>11
  <2> QED
    BY <1>3, <1>9, <2>1 DEF Budget!Next, Budget!Spend
<1> QED
  BY <1>4, <1>5, <1>10, <1>11

\* Each step of the limiter is a step of the counter.
LEMMA StepsRefine == TypeOK /\ [Next]_vars => [Budget!Next]_(Cardinality(live))
<1> SUFFICES ASSUME TypeOK, [Next]_vars PROVE Budget!Next
  OBVIOUS
<1>0. events \in Seq(Nat) /\ Len(events) \in Nat /\ now \in Nat
  BY DEF TypeOK
<1>1. ASSUME NEW kept, evictLocked(kept), events' = kept, now' \in Nat, now <= now'
      PROVE  Budget!Recover
  <2>1. PICK keep \in 0 .. Len(events) :
          /\ kept \in Seq(Nat) /\ Len(kept) = Len(events) - keep
          /\ \A i \in 1 .. Len(kept) : kept[i] = events[keep + i]
    BY <1>1, Evicted
  <2> QED
    BY <1>1, <2>1, ForgettingRecovers
<1>2. CASE Allow
  <2>1. PICK kept \in Suffixes(events), later \in now .. MaxTime :
          /\ evictLocked(kept) /\ now' = later
          /\ IF Len(kept) >= Limit THEN events' = kept ELSE events' = Append(kept, later)
    BY <1>2 DEF Allow
  <2>2. now' \in Nat /\ now <= now' /\ Limit \in Nat
    BY <1>0, <2>1, WindowAssumption
  <2>3. Len(kept) \in Nat
    BY <2>1, Evicted
  <2>4. CASE Len(kept) >= Limit
    BY <1>1, <2>1, <2>2, <2>4 DEF Budget!Next
  <2>5. CASE Len(kept) < Limit
    <3>1. events' = Append(kept, now') /\ evictLocked(kept)
      BY <2>1, <2>2, <2>3, <2>5
    <3> QED
      BY <2>2, <2>5, <3>1, AllowedSpends
  <2> QED
    BY <2>2, <2>3, <2>4, <2>5
<1>3. CASE Remaining
  <2>1. PICK kept \in Suffixes(events) : evictLocked(kept) /\ events' = kept /\ now' = now
    BY <1>3 DEF Remaining
  <2> QED
    BY <1>0, <1>1, <2>1 DEF Budget!Next
<1>4. CASE Reset
  <2>1. events' = <<>> /\ now' = now
    BY <1>4 DEF Reset
  <2>2. PICK kept : kept = <<>>
    OBVIOUS
  <2>3. PICK keep : keep = Len(events)
    OBVIOUS
  <2>4. kept \in Seq(Nat) /\ Len(kept) = 0
    BY <2>2
  <2>5. /\ keep \in 0 .. Len(events) /\ Len(kept) = Len(events) - keep
        /\ \A i \in 1 .. Len(kept) : kept[i] = events[keep + i]
    BY <1>0, <2>3, <2>4
  <2>6. events' = kept /\ now' \in Nat /\ now <= now'
    BY <1>0, <2>1, <2>2
  <2>7. Budget!Recover
    BY <2>4, <2>5, <2>6, ForgettingRecovers
  <2> QED
    BY <2>7 DEF Budget!Next
<1>5. CASE Tick \/ UNCHANGED vars
  <2>1. events' = events /\ now' \in Nat /\ now <= now'
    BY <1>0, <1>5 DEF Tick, vars
  <2>2. 0 \in 0 .. Len(events) /\ Len(events) = Len(events) - 0
        /\ \A i \in 1 .. Len(events) : events[i] = events[0 + i]
    BY <1>0
  <2> QED
    BY <1>0, <2>1, <2>2, ForgettingRecovers DEF Budget!Next
<1> QED
  BY <1>2, <1>3, <1>4, <1>5 DEF Next

\* The rejoin limiter, with its two clock readings and its lazy eviction, is the
\* counter CallReconnect's AllowRejoin and WindowSlides take it for.
THEOREM RefinesBudgetCorrect == Spec => RefinesBudget
<1>1. Init => Budget!Init
  <2> SUFFICES ASSUME Init PROVE Cardinality(live) = 0
    BY DEF Budget!Init
  <2>1. live = {}
    BY DEF Init, live
  <2> QED
    BY <2>1, FS_EmptySet
<1>2. LimiterInv => TypeOK
  BY DEF LimiterInv
<1> QED
  BY <1>1, <1>2, LimiterInductive, StepsRefine, PTL DEF Spec, RefinesBudget, Budget!Spec
=============================================================================
