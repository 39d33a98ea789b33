------------------------ MODULE CallReconnectProofs ------------------------
(***************************************************************************)
(* Proofs about CallReconnect, for every number of websockets, signal      *)
(* clients and peers, every budget and every number of events.             *)
(***************************************************************************)
EXTENDS CallReconnect, TLAPS

-----------------------------------------------------------------------------
(* The inductive invariant. *)

\* The places at which monitorHealth runs a strategy after having seen a nil
\* connection, up to storing a new one.
BeforeStore == {"down", "choose", "abandon", "attempt", "init", "connect",
                "reply", "handle", "store"}

\* Only the monitor installs connections, so nil stays nil until it does.
NilUntilStored == pc \in BeforeStore => ptr[sig] = None

\* migrate is the only code that runs while there is a previous peer.
MigrationScope ==
    /\ prevSig = None => prevPeer = None
    /\ prevSig # None => /\ strat = MIGRATE
                         /\ prevSig # sig
                         /\ pc \in {"init", "connect", "reply", "handle", "store",
                                    "joined", "await", "release"}
    /\ pc \in {"await", "release"} => prevSig # None
    /\ pc = "init" /\ strat = MIGRATE => prevSig # None /\ peer = None
    /\ prevPeer # None => prevPeer # peer

\* What the monitor holds in its local variable.
LocalConn ==
    /\ pc \in {"up", "wait", "store"} => mconn \in Conn
    /\ pc = "store" => owner[mconn] = sig

\* The outage clock, at every place.
OutageClock ==
    /\ pc \in {"load", "down", "up", "wait"} => (outage # {} <=> connState # "CONNECTED")
    /\ pc \in {"choose", "attempt", "init", "connect", "reply", "handle",
               "store", "joined", "await", "release", "failed"} =>
           outage # {} /\ connState # "CONNECTED"

IInv ==
    /\ TypeOK
    /\ NilUntilStored
    /\ MigrationScope
    /\ LocalConn
    /\ OutageClock
    /\ ConnectionsAccounted
    /\ PeersAccounted

-----------------------------------------------------------------------------
(* Type correctness. *)

\* Every action keeps the types.
LEMMA TypeStep == TypeOK /\ [Next]_vars => TypeOK'
<1> SUFFICES ASSUME TypeOK, [Next]_vars PROVE TypeOK'
  OBVIOUS
<1> USE ReconnectAssumption
    DEF TypeOK, PCs, budget, peerVars, migVars, sockVars, readVars, Goto
<1>1. CASE MonitorStart
  BY <1>1 DEF MonitorStart, markConnected, ConnState
<1>2. CASE MonitorLoad
  BY <1>2 DEF MonitorLoad
<1>3. CASE MonitorDown
  BY <1>3 DEF MonitorDown, markDisconnected, Deadlines, ConnState
<1>4. CASE MonitorChoose
  BY <1>4 DEF MonitorChoose, selectReconnectStrategy, Strategy, UNSPECIFIED, DISCONNECT,
              FAST, REJOIN, MIGRATE
<1>5. CASE abandonCall \/ MonitorUp
  BY <1>5 DEF abandonCall, MonitorUp, Strategy, UNSPECIFIED, DISCONNECT, FAST, MIGRATE
<1>6. CASE MonitorExit
  BY <1>6 DEF MonitorExit, ConnState
<1>7. CASE MonitorWait
  BY <1>7, ZenonT(60) DEF MonitorWait, markDisconnected, Deadlines, ConnState
<1>8. CASE MonitorFailed
  BY <1>8 DEF MonitorFailed, escalateReconnectStrategy, Strategy, UNSPECIFIED, DISCONNECT,
              REJOIN, MIGRATE
<1>9. CASE MonitorSuccess
  BY <1>9 DEF MonitorSuccess, markConnected, ConnState
<1>10. CASE fastReconnect \/ rejoinReconnect
  BY <1>10 DEF fastReconnect, rejoinReconnect
<1>11. CASE migrateReconnect
  BY <1>11, ZenonT(60) DEF migrateReconnect, ConnState
<1>12. CASE initPubAndSub
  BY <1>12 DEF initPubAndSub, keptPeers, Fail
<1>13. CASE Connect
  <2>1. /\ reply' \in Strategy /\ events' \in 0 .. MaxEvents
        /\ pc' \in PCs /\ strat' \in Strategy
    BY <1>13 DEF Connect, Fail
  <2>2. /\ mconn' \in Conn \cup {None} /\ sock' \in [Conn -> {"open", "closed"}]
        /\ owner' \in [Conn -> Sig] /\ unclosed' \in SUBSET Conn
    BY <1>13 DEF Connect
  <2>3. /\ reader' \in [Conn -> {"none", "reading", "handling", "leaving"}]
        /\ request' \in [Conn -> Strategy] /\ asked' \in SUBSET Conn
    BY <1>13 DEF Connect
  <2>4. QED
    BY <1>13, <2>1, <2>2, <2>3 DEF Connect
<1>14. CASE ConnectOnError
  BY <1>14 DEF ConnectOnError, setReconnectStrategyAndDisconnect, Disconnect, Close
<1>15. CASE ConnectHandle
  BY <1>15 DEF ConnectHandle, Fail, setReconnectStrategyAndDisconnect, Disconnect, Close
<1>16. CASE ConnectStore
  BY <1>16 DEF ConnectStore
<1>17. CASE Restore \/ MigrationTimeout
  BY <1>17 DEF Restore, Fail, MigrationTimeout
<1>18. CASE MigrationConfirmed
  BY <1>18 DEF MigrationConfirmed, Close, ConnState
<1>19. CASE MigrateRelease
  BY <1>19 DEF MigrateRelease, Close
<1>20. ASSUME NEW c \in Conn, ReadEvent(c)
       PROVE  TypeOK'
  BY <1>20 DEF ReadEvent, monVars
<1>21. ASSUME NEW c \in Conn, OnCallEnded(c) \/ ReaderExit(c)
       PROVE  TypeOK'
  BY <1>21 DEF OnCallEnded, ReaderExit, monVars, Strategy, UNSPECIFIED, DISCONNECT, MIGRATE
<1>22. ASSUME NEW c \in Conn, HandleEvent(c)
       PROVE  TypeOK'
  <2>1. request' \in [Conn -> Strategy] /\ request[c] \in Strategy
    BY <1>22 DEF HandleEvent, Strategy, UNSPECIFIED, MIGRATE
  <2>2. QED
    BY <1>22, <2>1 DEF HandleEvent, monVars, setReconnectStrategyAndDisconnect, Disconnect, Close
<1>23. ASSUME NEW c \in Conn, ParticipantMigrationComplete(c) \/ ConnDies(c)
       PROVE  TypeOK'
  <2>1. CASE ParticipantMigrationComplete(c)
    BY <2>1 DEF ParticipantMigrationComplete, monVars
  <2>2. CASE ConnDies(c)
    BY <2>2 DEF ConnDies, Close, monVars
  <2>3. QED
    BY <1>23, <2>1, <2>2
<1>24. CASE LeaveSend
  BY <1>24 DEF LeaveSend, monVars
<1>25. CASE LeaveDisconnect
  BY <1>25 DEF LeaveDisconnect, monVars, setReconnectStrategyAndDisconnect, Disconnect, Close,
               Strategy, UNSPECIFIED, DISCONNECT, MIGRATE
<1>26. CASE IceEscalate
  BY <1>26 DEF IceEscalate, monVars, setReconnectStrategyAndDisconnect, Disconnect, Close,
               Strategy, UNSPECIFIED, REJOIN, DISCONNECT, MIGRATE
<1>27. CASE WindowSlides
  BY <1>27 DEF WindowSlides, monVars
<1>28. ASSUME NEW d \in Deadlines, DeadlinePasses(d)
       PROVE  TypeOK'
  BY <1>28 DEF DeadlinePasses, monVars
<1>29. CASE UNCHANGED vars
  BY <1>29 DEF vars, monVars
<1>30. QED
  BY <1>1, <1>2, <1>3, <1>4, <1>5, <1>6, <1>7, <1>8, <1>9, <1>10, <1>11, <1>12, <1>13,
     <1>14, <1>15, <1>16, <1>17, <1>18, <1>19, <1>20, <1>21, <1>22, <1>23, <1>24, <1>25,
     <1>26, <1>27, <1>28, <1>29 DEF Next, Monitor, ReadLoop, Environment

\* The first Join leaves well-typed state.
LEMMA TypeInit == Init => TypeOK
<1> SUFFICES ASSUME Init PROVE TypeOK
  OBVIOUS
<1> DEFINE c == CHOOSE x \in Conn : TRUE
           s == CHOOSE x \in Sig : TRUE
           p == CHOOSE x \in Peer : TRUE
<1>1. c \in Conn /\ s \in Sig /\ p \in Peer
  BY ReconnectAssumption
<1> HIDE DEF c, s, p
<1>2. /\ sig = s /\ peer = p /\ openPeers = {p}
      /\ ptr = [x \in Sig |-> IF x = s THEN c ELSE None]
      /\ sock = [x \in Conn |-> IF x = c THEN "open" ELSE "closed"]
      /\ owner = [x \in Conn |-> s]
      /\ reader = [x \in Conn |-> IF x = c THEN "reading" ELSE "none"]
  BY DEF Init, c, s, p
<1>3. /\ next \in Strategy /\ strat \in Strategy /\ reply \in Strategy
      /\ request \in [Conn -> Strategy] /\ events \in 0 .. MaxEvents
  BY ReconnectAssumption DEF Init, Strategy, UNSPECIFIED, REJOIN, MIGRATE
<1>4. /\ connState \in ConnState /\ outage \in SUBSET Deadlines /\ fastAttempts \in Nat
      /\ rejoins \in Nat /\ prevSig = None /\ prevPeer = None /\ confirmed = FALSE /\ stray = {}
      /\ detached = {} /\ unclosed = {} /\ asked = {} /\ pc \in PCs /\ mconn = None /\ leave = "no"
  BY DEF Init, ConnState, PCs
<1>5. QED
  BY <1>1, <1>2, <1>3, <1>4 DEF TypeOK

\* Every reachable state of the reconnect machinery is well typed: the budgets
\* stay natural, the pointers point to something that exists or are nil.
THEOREM TypeCorrect == Spec => []TypeOK
  BY TypeInit, TypeStep, PTL DEF Spec
-----------------------------------------------------------------------------
(* The parts of the inductive invariant, one lemma each. *)

\* No goroutine but the monitor installs a connection.
LEMMA NilStep ==
    TypeOK /\ NilUntilStored /\ [Next]_vars => NilUntilStored'
<1> SUFFICES ASSUME TypeOK, NilUntilStored, [Next]_vars
             PROVE  NilUntilStored'
  OBVIOUS
<1> USE ReconnectAssumption DEF budget, peerVars, migVars, sockVars, readVars, Goto, TypeOK,
        NilUntilStored, BeforeStore
<1>1. CASE MonitorStart \/ MonitorLoad \/ MonitorDown \/ MonitorChoose \/ abandonCall
  BY <1>1 DEF MonitorStart, MonitorLoad, MonitorDown, MonitorChoose, abandonCall
<1>2. CASE MonitorExit \/ MonitorUp \/ MonitorWait \/ MonitorFailed \/ MonitorSuccess
  BY <1>2 DEF MonitorExit, MonitorUp, MonitorWait, MonitorFailed, MonitorSuccess
<1>3. CASE fastReconnect \/ rejoinReconnect \/ Restore \/ MigrationTimeout
  BY <1>3 DEF fastReconnect, rejoinReconnect, Restore, Fail, MigrationTimeout
<1>4. CASE migrateReconnect
  BY <1>4 DEF migrateReconnect
<1>5. CASE initPubAndSub
  BY <1>5 DEF initPubAndSub, keptPeers, Fail
<1>6. CASE Connect \/ ConnectStore
  BY <1>6 DEF Connect, Fail, ConnectStore
<1>7. CASE ConnectOnError \/ ConnectHandle
  BY <1>7 DEF ConnectOnError, setReconnectStrategyAndDisconnect, Disconnect, Close,
        ConnectHandle, Fail
<1>8. CASE MigrationConfirmed \/ MigrateRelease
  BY <1>8 DEF MigrationConfirmed, Close, MigrateRelease
<1>9. CASE LeaveSend \/ WindowSlides
  BY <1>9 DEF LeaveSend, monVars, WindowSlides
<1>10. CASE LeaveDisconnect \/ IceEscalate
  BY <1>10 DEF LeaveDisconnect, monVars, setReconnectStrategyAndDisconnect, Disconnect, Close,
        IceEscalate
<1>11. ASSUME NEW c \in Conn, ReadEvent(c) \/ OnCallEnded(c) \/ ReaderExit(c)
      PROVE  NilUntilStored'
  BY <1>11 DEF ReadEvent, monVars, OnCallEnded, ReaderExit
<1>12. ASSUME NEW c \in Conn, HandleEvent(c)
      PROVE  NilUntilStored'
  BY <1>12 DEF HandleEvent, monVars, setReconnectStrategyAndDisconnect, Disconnect, Close
<1>13. ASSUME NEW c \in Conn, ParticipantMigrationComplete(c) \/ ConnDies(c)
      PROVE  NilUntilStored'
  BY <1>13 DEF ParticipantMigrationComplete, monVars, ConnDies, Close
<1>14. ASSUME NEW d \in Deadlines, DeadlinePasses(d)
      PROVE  NilUntilStored'
  BY <1>14 DEF DeadlinePasses, monVars
<1>15. CASE UNCHANGED vars
  BY <1>15 DEF vars, monVars
<1>16. QED
  BY <1>1, <1>2, <1>3, <1>4, <1>5, <1>6, <1>7, <1>8, <1>9, <1>10, <1>11, <1>12, <1>13, <1>14,
     <1>15
     DEF Next, Monitor, ReadLoop, Environment

\* A previous peer exists only inside migrate.
LEMMA ScopeStep ==
    TypeOK /\ MigrationScope /\ [Next]_vars => MigrationScope'
<1> SUFFICES ASSUME TypeOK, MigrationScope, [Next]_vars
             PROVE  MigrationScope'
  OBVIOUS
<1> USE ReconnectAssumption DEF budget, peerVars, migVars, sockVars, readVars, Goto, TypeOK,
        MigrationScope, FreePeer, FreeSig
<1>1. CASE MonitorStart \/ MonitorLoad \/ MonitorDown \/ MonitorChoose \/ abandonCall
  BY <1>1 DEF MonitorStart, MonitorLoad, MonitorDown, MonitorChoose, abandonCall
<1>2. CASE MonitorExit \/ MonitorUp \/ MonitorWait \/ MonitorFailed \/ MonitorSuccess
  BY <1>2 DEF MonitorExit, MonitorUp, MonitorWait, MonitorFailed, MonitorSuccess
<1>3. CASE fastReconnect \/ rejoinReconnect \/ Restore \/ MigrationTimeout
  BY <1>3 DEF fastReconnect, rejoinReconnect, Restore, Fail, MigrationTimeout, REJOIN, MIGRATE
<1>4. CASE migrateReconnect
  BY <1>4 DEF migrateReconnect
<1>5. CASE initPubAndSub
  BY <1>5 DEF initPubAndSub, keptPeers, Fail
<1>6. CASE Connect \/ ConnectStore
  BY <1>6 DEF Connect, Fail, ConnectStore
<1>7. CASE ConnectOnError \/ ConnectHandle
  BY <1>7 DEF ConnectOnError, setReconnectStrategyAndDisconnect, Disconnect, Close,
        ConnectHandle, Fail
<1>8. CASE MigrationConfirmed \/ MigrateRelease
  BY <1>8 DEF MigrationConfirmed, Close, MigrateRelease
<1>9. CASE LeaveSend \/ WindowSlides
  BY <1>9 DEF LeaveSend, monVars, WindowSlides
<1>10. CASE LeaveDisconnect \/ IceEscalate
  BY <1>10 DEF LeaveDisconnect, monVars, setReconnectStrategyAndDisconnect, Disconnect, Close,
        IceEscalate
<1>11. ASSUME NEW c \in Conn, ReadEvent(c) \/ OnCallEnded(c) \/ ReaderExit(c)
      PROVE  MigrationScope'
  BY <1>11 DEF ReadEvent, monVars, OnCallEnded, ReaderExit
<1>12. ASSUME NEW c \in Conn, HandleEvent(c)
      PROVE  MigrationScope'
  BY <1>12 DEF HandleEvent, monVars, setReconnectStrategyAndDisconnect, Disconnect, Close
<1>13. ASSUME NEW c \in Conn, ParticipantMigrationComplete(c) \/ ConnDies(c)
      PROVE  MigrationScope'
  BY <1>13 DEF ParticipantMigrationComplete, monVars, ConnDies, Close
<1>14. ASSUME NEW d \in Deadlines, DeadlinePasses(d)
      PROVE  MigrationScope'
  BY <1>14 DEF DeadlinePasses, monVars
<1>15. CASE UNCHANGED vars
  BY <1>15 DEF vars, monVars
<1>16. QED
  BY <1>1, <1>2, <1>3, <1>4, <1>5, <1>6, <1>7, <1>8, <1>9, <1>10, <1>11, <1>12, <1>13, <1>14,
     <1>15
     DEF Next, Monitor, ReadLoop, Environment

\* The monitor's local connection is the one its place needs.
LEMMA LocalStep ==
    TypeOK /\ LocalConn /\ [Next]_vars => LocalConn'
<1> SUFFICES ASSUME TypeOK, LocalConn, [Next]_vars
             PROVE  LocalConn'
  OBVIOUS
<1> USE ReconnectAssumption DEF budget, peerVars, migVars, sockVars, readVars, Goto, TypeOK,
        LocalConn
<1>1. CASE MonitorStart \/ MonitorLoad \/ MonitorDown \/ MonitorChoose \/ abandonCall
  BY <1>1 DEF MonitorStart, MonitorLoad, MonitorDown, MonitorChoose, abandonCall
<1>2. CASE MonitorExit \/ MonitorUp \/ MonitorWait \/ MonitorFailed \/ MonitorSuccess
  BY <1>2 DEF MonitorExit, MonitorUp, MonitorWait, MonitorFailed, MonitorSuccess
<1>3. CASE fastReconnect \/ rejoinReconnect \/ Restore \/ MigrationTimeout
  BY <1>3 DEF fastReconnect, rejoinReconnect, Restore, Fail, MigrationTimeout
<1>4. CASE migrateReconnect
  BY <1>4 DEF migrateReconnect
<1>5. CASE initPubAndSub
  BY <1>5 DEF initPubAndSub, keptPeers, Fail
<1>6. CASE Connect \/ ConnectStore
  BY <1>6 DEF Connect, Fail, ConnectStore
<1>7. CASE ConnectOnError \/ ConnectHandle
  BY <1>7 DEF ConnectOnError, setReconnectStrategyAndDisconnect, Disconnect, Close,
        ConnectHandle, Fail
<1>8. CASE MigrationConfirmed \/ MigrateRelease
  BY <1>8 DEF MigrationConfirmed, Close, MigrateRelease
<1>9. CASE LeaveSend \/ WindowSlides
  BY <1>9 DEF LeaveSend, monVars, WindowSlides
<1>10. CASE LeaveDisconnect \/ IceEscalate
  BY <1>10 DEF LeaveDisconnect, monVars, setReconnectStrategyAndDisconnect, Disconnect, Close,
        IceEscalate
<1>11. ASSUME NEW c \in Conn, ReadEvent(c) \/ OnCallEnded(c) \/ ReaderExit(c)
      PROVE  LocalConn'
  BY <1>11 DEF ReadEvent, monVars, OnCallEnded, ReaderExit
<1>12. ASSUME NEW c \in Conn, HandleEvent(c)
      PROVE  LocalConn'
  BY <1>12 DEF HandleEvent, monVars, setReconnectStrategyAndDisconnect, Disconnect, Close
<1>13. ASSUME NEW c \in Conn, ParticipantMigrationComplete(c) \/ ConnDies(c)
      PROVE  LocalConn'
  BY <1>13 DEF ParticipantMigrationComplete, monVars, ConnDies, Close
<1>14. ASSUME NEW d \in Deadlines, DeadlinePasses(d)
      PROVE  LocalConn'
  BY <1>14 DEF DeadlinePasses, monVars
<1>15. CASE UNCHANGED vars
  BY <1>15 DEF vars, monVars
<1>16. QED
  BY <1>1, <1>2, <1>3, <1>4, <1>5, <1>6, <1>7, <1>8, <1>9, <1>10, <1>11, <1>12, <1>13, <1>14,
     <1>15
     DEF Next, Monitor, ReadLoop, Environment

\* The outage clock starts and stops with the connection state.
LEMMA ClockStep ==
    TypeOK /\ OutageClock /\ [Next]_vars => OutageClock'
<1> SUFFICES ASSUME TypeOK, OutageClock, [Next]_vars
             PROVE  OutageClock'
  OBVIOUS
<1> USE ReconnectAssumption DEF budget, peerVars, migVars, sockVars, readVars, Goto, TypeOK,
        OutageClock, markConnected, markDisconnected
<1>1. CASE MonitorStart \/ MonitorLoad \/ MonitorDown \/ MonitorChoose \/ abandonCall
  BY <1>1 DEF MonitorStart, MonitorLoad, MonitorDown, MonitorChoose, abandonCall
<1>2. CASE MonitorExit \/ MonitorUp \/ MonitorWait \/ MonitorFailed \/ MonitorSuccess
  BY <1>2 DEF MonitorExit, MonitorUp, MonitorWait, MonitorFailed, MonitorSuccess
<1>3. CASE fastReconnect \/ rejoinReconnect \/ Restore \/ MigrationTimeout
  BY <1>3 DEF fastReconnect, rejoinReconnect, Restore, Fail, MigrationTimeout
<1>4. CASE migrateReconnect
  BY <1>4 DEF migrateReconnect
<1>5. CASE initPubAndSub
  BY <1>5 DEF initPubAndSub, keptPeers, Fail
<1>6. CASE Connect \/ ConnectStore
  BY <1>6 DEF Connect, Fail, ConnectStore
<1>7. CASE ConnectOnError \/ ConnectHandle
  BY <1>7 DEF ConnectOnError, setReconnectStrategyAndDisconnect, Disconnect, Close,
        ConnectHandle, Fail
<1>8. CASE MigrationConfirmed \/ MigrateRelease
  BY <1>8 DEF MigrationConfirmed, Close, MigrateRelease
<1>9. CASE LeaveSend \/ WindowSlides
  BY <1>9 DEF LeaveSend, monVars, WindowSlides
<1>10. CASE LeaveDisconnect \/ IceEscalate
  BY <1>10 DEF LeaveDisconnect, monVars, setReconnectStrategyAndDisconnect, Disconnect, Close,
        IceEscalate
<1>11. ASSUME NEW c \in Conn, ReadEvent(c) \/ OnCallEnded(c) \/ ReaderExit(c)
      PROVE  OutageClock'
  BY <1>11 DEF ReadEvent, monVars, OnCallEnded, ReaderExit
<1>12. ASSUME NEW c \in Conn, HandleEvent(c)
      PROVE  OutageClock'
  BY <1>12 DEF HandleEvent, monVars, setReconnectStrategyAndDisconnect, Disconnect, Close
<1>13. ASSUME NEW c \in Conn, ParticipantMigrationComplete(c) \/ ConnDies(c)
      PROVE  OutageClock'
  BY <1>13 DEF ParticipantMigrationComplete, monVars, ConnDies, Close
<1>14. ASSUME NEW d \in Deadlines, DeadlinePasses(d)
      PROVE  OutageClock'
  BY <1>14 DEF DeadlinePasses, monVars
<1>15. CASE UNCHANGED vars
  BY <1>15 DEF vars, monVars
<1>16. QED
  BY <1>1, <1>2, <1>3, <1>4, <1>5, <1>6, <1>7, <1>8, <1>9, <1>10, <1>11, <1>12, <1>13, <1>14,
     <1>15
     DEF Next, Monitor, ReadLoop, Environment

\* No step loses track of an open websocket.
LEMMA ConnStep ==
    TypeOK /\ NilUntilStored /\ MigrationScope /\ LocalConn /\ ConnectionsAccounted /\ [Next]_vars => ConnectionsAccounted'
<1> SUFFICES ASSUME TypeOK, NilUntilStored, MigrationScope, LocalConn, ConnectionsAccounted, [Next]_vars
             PROVE  ConnectionsAccounted'
  OBVIOUS
<1> USE ReconnectAssumption DEF budget, peerVars, migVars, sockVars, readVars, Goto, TypeOK,
        NilUntilStored, BeforeStore, MigrationScope, LocalConn, ConnectionsAccounted, FreeConn,
        FreeSig
<1>1. CASE MonitorStart \/ MonitorLoad \/ MonitorDown \/ MonitorChoose \/ abandonCall
            \/ MonitorExit \/ MonitorUp \/ MonitorWait \/ MonitorFailed \/ MonitorSuccess
  BY <1>1 DEF MonitorStart, MonitorLoad, MonitorDown, MonitorChoose, abandonCall, MonitorExit,
        MonitorUp, MonitorWait, MonitorFailed, MonitorSuccess
<1>2. CASE fastReconnect \/ rejoinReconnect \/ Restore \/ MigrationTimeout
  BY <1>2 DEF fastReconnect, rejoinReconnect, Restore, Fail, MigrationTimeout
<1>3. CASE migrateReconnect
  BY <1>3 DEF migrateReconnect
<1>4. CASE initPubAndSub
  BY <1>4 DEF initPubAndSub, keptPeers, Fail
<1>5. CASE Connect
  BY <1>5 DEF Connect, Fail
<1>6. CASE ConnectStore
  BY <1>6 DEF ConnectStore
<1>7. CASE ConnectOnError
  BY <1>7 DEF ConnectOnError, setReconnectStrategyAndDisconnect, Disconnect, Close
<1>8. CASE ConnectHandle
  BY <1>8 DEF ConnectHandle, Fail, setReconnectStrategyAndDisconnect, Disconnect, Close
<1>9. CASE MigrationConfirmed
  BY <1>9 DEF MigrationConfirmed, Close
<1>10. CASE MigrateRelease
  BY <1>10 DEF MigrateRelease, Close
<1>11. CASE LeaveSend \/ WindowSlides
  BY <1>11 DEF LeaveSend, monVars, WindowSlides
<1>12. CASE LeaveDisconnect
  BY <1>12 DEF LeaveDisconnect, monVars, setReconnectStrategyAndDisconnect, Disconnect, Close
<1>13. CASE IceEscalate
  BY <1>13 DEF IceEscalate, monVars, setReconnectStrategyAndDisconnect, Disconnect, Close
<1>14. ASSUME NEW c \in Conn, ReadEvent(c) \/ OnCallEnded(c)
      PROVE  ConnectionsAccounted'
  BY <1>14 DEF ReadEvent, monVars, OnCallEnded
<1>15. ASSUME NEW c \in Conn, HandleEvent(c)
      PROVE  ConnectionsAccounted'
  BY <1>15 DEF HandleEvent, monVars, setReconnectStrategyAndDisconnect, Disconnect, Close
<1>16. ASSUME NEW c \in Conn, ReaderExit(c)
      PROVE  ConnectionsAccounted'
  BY <1>16 DEF ReaderExit, monVars
<1>17. ASSUME NEW c \in Conn, ParticipantMigrationComplete(c)
      PROVE  ConnectionsAccounted'
  BY <1>17 DEF ParticipantMigrationComplete, monVars
<1>18. ASSUME NEW c \in Conn, ConnDies(c)
      PROVE  ConnectionsAccounted'
  BY <1>18 DEF ConnDies, monVars, Close
<1>19. ASSUME NEW d \in Deadlines, DeadlinePasses(d)
      PROVE  ConnectionsAccounted'
  BY <1>19 DEF DeadlinePasses, monVars
<1>20. CASE UNCHANGED vars
  BY <1>20 DEF vars, monVars
<1>21. QED
  BY <1>1, <1>2, <1>3, <1>4, <1>5, <1>6, <1>7, <1>8, <1>9, <1>10, <1>11, <1>12, <1>13, <1>14,
     <1>15, <1>16, <1>17, <1>18, <1>19, <1>20
     DEF Next, Monitor, ReadLoop, Environment

\* No step loses track of an open peer connection.
LEMMA PeerStep ==
    TypeOK /\ MigrationScope /\ PeersAccounted /\ [Next]_vars => PeersAccounted'
<1> SUFFICES ASSUME TypeOK, MigrationScope, PeersAccounted, [Next]_vars
             PROVE  PeersAccounted'
  OBVIOUS
<1> USE ReconnectAssumption DEF budget, peerVars, migVars, sockVars, readVars, Goto, TypeOK,
        MigrationScope, PeersAccounted, FreePeer
<1>1. CASE MonitorStart \/ MonitorLoad \/ MonitorDown \/ MonitorChoose \/ abandonCall
            \/ MonitorExit \/ MonitorUp \/ MonitorWait \/ MonitorFailed \/ MonitorSuccess
  BY <1>1 DEF MonitorStart, MonitorLoad, MonitorDown, MonitorChoose, abandonCall, MonitorExit,
        MonitorUp, MonitorWait, MonitorFailed, MonitorSuccess
<1>2. CASE fastReconnect \/ rejoinReconnect \/ Restore \/ MigrationTimeout
  BY <1>2 DEF fastReconnect, rejoinReconnect, Restore, Fail, MigrationTimeout
<1>3. CASE migrateReconnect
  BY <1>3 DEF migrateReconnect
<1>4. CASE initPubAndSub
  BY <1>4 DEF initPubAndSub, keptPeers, Fail
<1>5. CASE Connect
  BY <1>5 DEF Connect, Fail
<1>6. CASE ConnectStore
  BY <1>6 DEF ConnectStore
<1>7. CASE ConnectOnError
  BY <1>7 DEF ConnectOnError, setReconnectStrategyAndDisconnect, Disconnect, Close
<1>8. CASE ConnectHandle
  BY <1>8 DEF ConnectHandle, Fail, setReconnectStrategyAndDisconnect, Disconnect, Close
<1>9. CASE MigrationConfirmed
  BY <1>9 DEF MigrationConfirmed, Close
<1>10. CASE MigrateRelease
  BY <1>10 DEF MigrateRelease, Close
<1>11. CASE LeaveSend \/ WindowSlides
  BY <1>11 DEF LeaveSend, monVars, WindowSlides
<1>12. CASE LeaveDisconnect
  BY <1>12 DEF LeaveDisconnect, monVars, setReconnectStrategyAndDisconnect, Disconnect, Close
<1>13. CASE IceEscalate
  BY <1>13 DEF IceEscalate, monVars, setReconnectStrategyAndDisconnect, Disconnect, Close
<1>14. ASSUME NEW c \in Conn, ReadEvent(c) \/ OnCallEnded(c)
      PROVE  PeersAccounted'
  BY <1>14 DEF ReadEvent, monVars, OnCallEnded
<1>15. ASSUME NEW c \in Conn, HandleEvent(c)
      PROVE  PeersAccounted'
  BY <1>15 DEF HandleEvent, monVars, setReconnectStrategyAndDisconnect, Disconnect, Close
<1>16. ASSUME NEW c \in Conn, ReaderExit(c)
      PROVE  PeersAccounted'
  BY <1>16 DEF ReaderExit, monVars
<1>17. ASSUME NEW c \in Conn, ParticipantMigrationComplete(c)
      PROVE  PeersAccounted'
  BY <1>17 DEF ParticipantMigrationComplete, monVars
<1>18. ASSUME NEW c \in Conn, ConnDies(c)
      PROVE  PeersAccounted'
  BY <1>18 DEF ConnDies, monVars, Close
<1>19. ASSUME NEW d \in Deadlines, DeadlinePasses(d)
      PROVE  PeersAccounted'
  BY <1>19 DEF DeadlinePasses, monVars
<1>20. CASE UNCHANGED vars
  BY <1>20 DEF vars, monVars
<1>21. QED
  BY <1>1, <1>2, <1>3, <1>4, <1>5, <1>6, <1>7, <1>8, <1>9, <1>10, <1>11, <1>12, <1>13, <1>14,
     <1>15, <1>16, <1>17, <1>18, <1>19, <1>20
     DEF Next, Monitor, ReadLoop, Environment

\* Which steps may replace DISCONNECT.
LEMMA DisconnectStep ==
    TypeOK /\ Next => KeepsDisconnect
<1> SUFFICES ASSUME TypeOK, Next
             PROVE  KeepsDisconnect
  OBVIOUS
<1> USE ReconnectAssumption DEF budget, peerVars, migVars, sockVars, readVars, Goto, TypeOK,
        KeepsDisconnect
<1>1. CASE MonitorStart \/ MonitorLoad \/ MonitorDown \/ MonitorChoose \/ abandonCall
  BY <1>1 DEF MonitorStart, MonitorLoad, MonitorDown, MonitorChoose, abandonCall
<1>2. CASE MonitorExit \/ MonitorUp \/ MonitorWait \/ MonitorFailed \/ MonitorSuccess
  BY <1>2 DEF MonitorExit, MonitorUp, MonitorWait, MonitorFailed, MonitorSuccess,
        escalateReconnectStrategy, DISCONNECT
<1>3. CASE fastReconnect \/ rejoinReconnect \/ Restore \/ MigrationTimeout
  BY <1>3 DEF fastReconnect, rejoinReconnect, Restore, Fail, MigrationTimeout
<1>4. CASE migrateReconnect \/ initPubAndSub
  BY <1>4 DEF migrateReconnect, initPubAndSub, keptPeers, Fail
<1>5. CASE Connect \/ ConnectStore
  BY <1>5 DEF Connect, Fail, ConnectStore
<1>6. CASE ConnectOnError \/ ConnectHandle
  BY <1>6 DEF ConnectOnError, setReconnectStrategyAndDisconnect, Disconnect, Close,
        ConnectHandle, Fail
<1>7. CASE MigrationConfirmed \/ MigrateRelease
  BY <1>7 DEF MigrationConfirmed, Close, MigrateRelease
<1>8. CASE LeaveSend \/ WindowSlides
  BY <1>8 DEF LeaveSend, monVars, WindowSlides
<1>9. CASE LeaveDisconnect \/ IceEscalate
  BY <1>9 DEF LeaveDisconnect, monVars, setReconnectStrategyAndDisconnect, Disconnect, Close,
        IceEscalate
<1>10. ASSUME NEW c \in Conn, ReadEvent(c) \/ OnCallEnded(c) \/ ReaderExit(c)
      PROVE  KeepsDisconnect
  BY <1>10 DEF ReadEvent, monVars, OnCallEnded, ReaderExit
<1>11. ASSUME NEW c \in Conn, HandleEvent(c)
      PROVE  KeepsDisconnect
  BY <1>11 DEF HandleEvent, monVars, setReconnectStrategyAndDisconnect, Disconnect, Close
<1>12. ASSUME NEW c \in Conn, ParticipantMigrationComplete(c) \/ ConnDies(c)
      PROVE  KeepsDisconnect
  BY <1>12 DEF ParticipantMigrationComplete, monVars, ConnDies, Close
<1>13. ASSUME NEW d \in Deadlines, DeadlinePasses(d)
      PROVE  KeepsDisconnect
  BY <1>13 DEF DeadlinePasses, monVars
<1>14. QED
  BY <1>1, <1>2, <1>3, <1>4, <1>5, <1>6, <1>7, <1>8, <1>9, <1>10, <1>11, <1>12, <1>13
     DEF Next, Monitor, ReadLoop, Environment

\* Which steps may close the pair being migrated away from.
LEMMA OldPeerStep ==
    TypeOK /\ MigrationScope /\ Next => KeepsOldPeer
<1> SUFFICES ASSUME TypeOK, MigrationScope, Next
             PROVE  KeepsOldPeer
  OBVIOUS
<1> USE ReconnectAssumption DEF budget, peerVars, migVars, sockVars, readVars, Goto, TypeOK,
        MigrationScope, KeepsOldPeer
<1>1. CASE MonitorStart \/ MonitorLoad \/ MonitorDown \/ MonitorChoose \/ abandonCall
            \/ MonitorExit \/ MonitorUp \/ MonitorWait \/ MonitorFailed \/ MonitorSuccess
  BY <1>1 DEF MonitorStart, MonitorLoad, MonitorDown, MonitorChoose, abandonCall, MonitorExit,
        MonitorUp, MonitorWait, MonitorFailed, MonitorSuccess
<1>2. CASE fastReconnect \/ rejoinReconnect \/ Restore \/ MigrationTimeout
  BY <1>2 DEF fastReconnect, rejoinReconnect, Restore, Fail, MigrationTimeout
<1>3. CASE migrateReconnect
  BY <1>3 DEF migrateReconnect
<1>4. CASE initPubAndSub
  BY <1>4 DEF initPubAndSub, keptPeers, Fail
<1>5. CASE Connect
  BY <1>5 DEF Connect, Fail
<1>6. CASE ConnectStore
  BY <1>6 DEF ConnectStore
<1>7. CASE ConnectOnError
  BY <1>7 DEF ConnectOnError, setReconnectStrategyAndDisconnect, Disconnect, Close
<1>8. CASE ConnectHandle
  BY <1>8 DEF ConnectHandle, Fail, setReconnectStrategyAndDisconnect, Disconnect, Close
<1>9. CASE MigrationConfirmed
  BY <1>9 DEF MigrationConfirmed, Close
<1>10. CASE MigrateRelease
  BY <1>10 DEF MigrateRelease, Close
<1>11. CASE LeaveSend \/ WindowSlides
  BY <1>11 DEF LeaveSend, monVars, WindowSlides
<1>12. CASE LeaveDisconnect
  BY <1>12 DEF LeaveDisconnect, monVars, setReconnectStrategyAndDisconnect, Disconnect, Close
<1>13. CASE IceEscalate
  BY <1>13 DEF IceEscalate, monVars, setReconnectStrategyAndDisconnect, Disconnect, Close
<1>14. ASSUME NEW c \in Conn, ReadEvent(c) \/ OnCallEnded(c)
      PROVE  KeepsOldPeer
  BY <1>14 DEF ReadEvent, monVars, OnCallEnded
<1>15. ASSUME NEW c \in Conn, HandleEvent(c)
      PROVE  KeepsOldPeer
  BY <1>15 DEF HandleEvent, monVars, setReconnectStrategyAndDisconnect, Disconnect, Close
<1>16. ASSUME NEW c \in Conn, ReaderExit(c)
      PROVE  KeepsOldPeer
  BY <1>16 DEF ReaderExit, monVars
<1>17. ASSUME NEW c \in Conn, ParticipantMigrationComplete(c)
      PROVE  KeepsOldPeer
  BY <1>17 DEF ParticipantMigrationComplete, monVars
<1>18. ASSUME NEW c \in Conn, ConnDies(c)
      PROVE  KeepsOldPeer
  BY <1>18 DEF ConnDies, monVars, Close
<1>19. ASSUME NEW d \in Deadlines, DeadlinePasses(d)
      PROVE  KeepsOldPeer
  BY <1>19 DEF DeadlinePasses, monVars
<1>20. QED
  BY <1>1, <1>2, <1>3, <1>4, <1>5, <1>6, <1>7, <1>8, <1>9, <1>10, <1>11, <1>12, <1>13, <1>14,
     <1>15, <1>16, <1>17, <1>18, <1>19
     DEF Next, Monitor, ReadLoop, Environment

-----------------------------------------------------------------------------
(* The theorems. *)

\* The first Join leaves one connection and one pair, both current.
LEMMA IInvInit == Init => IInv
<1> SUFFICES ASSUME Init PROVE IInv
  OBVIOUS
<1>1. TypeOK
  BY TypeInit
<1>2. ConnectionsAccounted
  <2> SUFFICES ASSUME NEW c \in Conn, sock[c] = "open"
               PROVE  owner[c] = sig /\ ptr[sig] = c
    BY <1>1, ReconnectAssumption DEF ConnectionsAccounted, TypeOK
  <2> QED
    BY <1>1 DEF Init, TypeOK
<1>3. PeersAccounted
  BY DEF Init, PeersAccounted
<1>4. NilUntilStored /\ LocalConn /\ OutageClock
  BY DEF Init, NilUntilStored, BeforeStore, LocalConn, OutageClock
<1>5. MigrationScope
  BY DEF Init, MigrationScope
<1>6. QED
  BY <1>1, <1>2, <1>3, <1>4, <1>5 DEF IInv

\* IInv is inductive.
THEOREM Inductive == Spec => []IInv
<1>1. IInv /\ [Next]_vars => IInv'
  BY TypeStep, NilStep, ScopeStep, LocalStep, ClockStep, ConnStep, PeerStep DEF IInv
<1>2. QED
  BY IInvInit, <1>1, PTL DEF Spec

\* No websocket is ever leaked by a reconnect, a migration, a failed join or a
\* Leave that could write its close frame (Client.Connect's deferred close,
\* peer.release, Client.Disconnect).
THEOREM ConnectionsAccountedCorrect == Spec => []ConnectionsAccounted
<1>1. IInv => ConnectionsAccounted
  BY DEF IInv
<1>2. QED
  BY Inductive, <1>1, PTL

\* Connect never overwrites a connection (signal/client.go "todo what to do
\* with prev connection").
THEOREM NoConnectionOverwrittenCorrect == Spec => []NoConnectionOverwritten
<1>1. IInv => NoConnectionOverwritten
  BY DEF IInv, NilUntilStored, BeforeStore, NoConnectionOverwritten
<1>2. QED
  BY Inductive, <1>1, PTL

\* No pair of peer connections is leaked while the call lives.
THEOREM PeersAccountedCorrect == Spec => []PeersAccounted
<1>1. IInv => PeersAccounted
  BY DEF IInv
<1>2. QED
  BY Inductive, <1>1, PTL

\* The outage clock agrees with the reported state at the head of the loop.
THEOREM OutageClockCorrect == Spec => []OutageClockMatchesState
<1>1. IInv => OutageClockMatchesState
  BY DEF IInv, OutageClock, OutageClockMatchesState
<1>2. QED
  BY Inductive, <1>1, PTL

\* The monitor itself never turns a finished call back into a live one.
THEOREM DisconnectKeptCorrect == Spec => DisconnectKept
<1>1. IInv /\ [Next]_vars => [KeepsDisconnect]_vars
  BY DisconnectStep DEF IInv
<1>2. QED
  BY Inductive, <1>1, PTL DEF Spec, DisconnectKept

\* A migration keeps the old pair open until it releases it.
THEOREM OldPeerKeptCorrect == Spec => OldPeerKept
<1>1. IInv /\ [Next]_vars => [KeepsOldPeer]_vars
  BY OldPeerStep DEF IInv
<1>2. QED
  BY Inductive, <1>1, PTL DEF Spec, OldPeerKept

\* No attempt of the monitor loses a connection, the old pair or a DISCONNECT.
THEOREM MonitorKeepsCorrect == Spec => MonitorKeeps
<1>1. Spec => [](TypeOK /\ NoConnectionOverwritten)
  BY TypeCorrect, NoConnectionOverwrittenCorrect, PTL
<1>2. QED
  BY <1>1, OldPeerKeptCorrect, DisconnectKeptCorrect DEF MonitorKeeps
=============================================================================
