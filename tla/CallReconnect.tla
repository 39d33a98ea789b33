--------------------------- MODULE CallReconnect ---------------------------
(***************************************************************************)
(* How a joined Call survives outages: the goroutine monitorHealth, the    *)
(* reconnect strategies it runs (FAST, REJOIN, MIGRATE), and everything    *)
(* that races it: the websocket read loops delivering SFU events, sockets  *)
(* dying, Leave, the ICE recovery escalating, and time passing.            *)
(*                                                                         *)
(* Granularity.  Each critical section of c.mu is one action; between two  *)
(* of them, and around every blocking call (dial, join read, RPC, sleep),  *)
(* every other goroutine may run.  pc is monitorHealth's place in its loop *)
(* and, inside it, in the strategy it is running.                          *)
(*                                                                         *)
(* Identities.  A Conn is one websocket, a Sig one signal.Client, a Peer   *)
(* one publisher/subscriber pair.  An identity nothing refers to any more  *)
(* is used again, so the number of outages is not bounded.                 *)
(***************************************************************************)
EXTENDS Integers, FiniteSets

CONSTANTS
    Conn,               \* websocket connections
    Sig,                \* signal.Client instances
    Peer,               \* publisher/subscriber pairs
    None,               \* the nil pointer
    MaxFastAttempts,    \* ReconnectConfig.MaxFastAttempts
    RejoinLimit,        \* ReconnectConfig.RejoinLimit, 0 = unlimited
    GivesUp,            \* whether ReconnectConfig.DisconnectionTimeout > 0
    MaxEvents           \* bound on the steps of the SFU, ICE and the clock

ASSUME ReconnectAssumption ==
    /\ None \notin Conn \cup Sig \cup Peer
    /\ Sig # {} /\ Conn # {} /\ Peer # {}
    /\ MaxFastAttempts \in Nat
    /\ RejoinLimit \in Nat
    /\ GivesUp \in BOOLEAN
    /\ MaxEvents \in Nat

(* WebsocketReconnectStrategy, with the numbers the code compares. *)
UNSPECIFIED == 0
DISCONNECT  == 1
FAST        == 2
REJOIN      == 3
MIGRATE     == 4
Strategy    == UNSPECIFIED .. MIGRATE

ConnState == {"CONNECTING", "CONNECTED", "MIGRATING", "DISCONNECTED"}

VARIABLES
    next,         \* c.nextReconnectStrategy
    connState,    \* c.connState
    outage,       \* disconnectedSince: {} is zero, else which deadlines passed
    fastAttempts, \* c.fastReconnectAttempts
    rejoins,      \* events in the rejoin limiter's window
    sig,          \* the signal client of c.peer
    peer,         \* the publisher/subscriber pair of c.peer
    prevSig,      \* migrate's previous.client, None outside a migration
    prevPeer,     \* migrate's previous pair
    confirmed,    \* the awaiter of ParticipantMigrationComplete has fired
    openPeers,    \* pairs that have been built and not closed
    stray,        \* pairs half built by a failed initPubAndSub
    ptr,          \* Client.conn of each signal client
    detached,     \* the signal clients whose detached flag is set
    sock,         \* whether each websocket is open
    owner,        \* the signal client that dialled it
    unclosed,     \* sockets whose close frame could not be written
    reader,       \* readLoop of each websocket
    request,      \* the strategy a handler on that read loop is about to set
    asked,        \* history: connections whose SFU asked for REJOIN or MIGRATE
    pc,           \* monitorHealth's place
    mconn,        \* monitorHealth's conn / Connect's conn
    strat,        \* monitorHealth's strategy
    reply,        \* the strategy in an error reply to a join
    leave,        \* the application's Leave
    events        \* environment steps left

monVars  == <<pc, mconn, strat, reply>>
budget   == <<outage, fastAttempts, rejoins>>
peerVars == <<peer, openPeers, stray>>
migVars  == <<sig, prevSig, prevPeer, confirmed>>
sockVars == <<ptr, detached, sock, owner, unclosed>>
readVars == <<reader, request, asked>>
vars == <<next, connState, budget, migVars, peerVars, sockVars, readVars,
          monVars, leave, events>>

PCs == {"start", "load", "down", "choose", "abandon", "exit", "done",
        "attempt", "init", "connect", "reply", "handle", "store", "joined",
        "await", "release", "failed", "success", "up", "wait"}

Deadlines == {"started", "fastDeadline", "disconnectionTimeout"}

TypeOK ==
    /\ next \in Strategy
    /\ connState \in ConnState
    /\ outage \in SUBSET Deadlines
    /\ fastAttempts \in Nat
    /\ rejoins \in Nat
    /\ sig \in Sig
    /\ peer \in Peer \cup {None}
    /\ prevSig \in Sig \cup {None}
    /\ prevPeer \in Peer \cup {None}
    /\ confirmed \in BOOLEAN
    /\ openPeers \in SUBSET Peer
    /\ stray \in SUBSET Peer
    /\ ptr \in [Sig -> Conn \cup {None}]
    /\ detached \in SUBSET Sig
    /\ sock \in [Conn -> {"open", "closed"}]
    /\ owner \in [Conn -> Sig]
    /\ unclosed \in SUBSET Conn
    /\ reader \in [Conn -> {"none", "reading", "handling", "leaving"}]
    /\ request \in [Conn -> Strategy]
    /\ asked \in SUBSET Conn
    /\ pc \in PCs
    /\ mconn \in Conn \cup {None}
    /\ strat \in Strategy
    /\ reply \in Strategy
    /\ leave \in {"no", "sent", "left"}
    /\ events \in 0 .. MaxEvents

(***************************************************************************)
(* The state a successful first Join leaves: one signal client with a live *)
(* websocket, one pair of peer connections, and monitorHealth just         *)
(* started.  newCall seeded the next strategy with REJOIN.                 *)
(***************************************************************************)
Init ==
    LET c == CHOOSE x \in Conn : TRUE
        s == CHOOSE x \in Sig : TRUE
        p == CHOOSE x \in Peer : TRUE
    IN
    /\ next = REJOIN /\ connState = "CONNECTING"
    /\ outage = {} /\ fastAttempts = 0 /\ rejoins = 0
    /\ sig = s /\ peer = p
    /\ prevSig = None /\ prevPeer = None /\ confirmed = FALSE
    /\ openPeers = {p} /\ stray = {}
    /\ ptr = [x \in Sig |-> IF x = s THEN c ELSE None]
    /\ detached = {}
    /\ sock = [x \in Conn |-> IF x = c THEN "open" ELSE "closed"]
    /\ owner = [x \in Conn |-> s]
    /\ unclosed = {}
    /\ reader = [x \in Conn |-> IF x = c THEN "reading" ELSE "none"]
    /\ request = [x \in Conn |-> UNSPECIFIED]
    /\ asked = {}
    /\ pc = "start" /\ mconn = None
    /\ strat = UNSPECIFIED /\ reply = UNSPECIFIED
    /\ leave = "no" /\ events = MaxEvents

-----------------------------------------------------------------------------
(* Pure helpers of reconnect.go and call.go. *)

\* The strategy to try after the current one failed.
escalateReconnectStrategy(current) ==
    IF current = DISCONNECT THEN current
    ELSE IF current = MIGRATE THEN REJOIN
    ELSE IF current < REJOIN THEN current + 1 ELSE current

\* Mutant: rejoins are free.
consumesOnMigrate(s) == s = MIGRATE

consumesRejoinBudget(s) == s \in {REJOIN, MIGRATE}

\* A FAST reconnect is viable while its own budget, the SFU's deadline and both
\* peer connections last.  healthy is what the peer connections report.
canFastReconnect(healthy) ==
    /\ fastAttempts < MaxFastAttempts
    /\ "fastDeadline" \notin outage
    /\ peer \in openPeers
    /\ healthy

selectReconnectStrategy(requested, healthy) ==
    IF requested = FAST /\ ~canFastReconnect(healthy) THEN REJOIN ELSE requested

\* rejoinLimiter.Allow; the window itself is module SlidingWindow.
AllowRejoin == RejoinLimit = 0 \/ rejoins < RejoinLimit

markConnected == outage' = {} /\ fastAttempts' = 0 /\ rejoins' = 0

markDisconnected ==
    /\ outage' = outage \cup {"started"}
    /\ UNCHANGED <<fastAttempts, rejoins>>

-----------------------------------------------------------------------------
(* signal.Client and websocket.Connection. *)

\* Connection.Close of a set of sockets.
Close(cs) == sock' = [c \in Conn |-> IF c \in cs THEN "closed" ELSE sock[c]]

\* Client.Disconnect: the handle is dropped, then the socket is closed.  For
\* good, a close frame goes first, and when it cannot be written the socket is
\* left as it is.
Disconnect(forGood) ==
    /\ ptr' = [ptr EXCEPT ![sig] = None]
    /\ \/ Close({ptr[sig]}) /\ UNCHANGED unclosed
       \/ /\ forGood /\ ptr[sig] # None
          /\ sock[ptr[sig]] = "open"
          /\ unclosed' = unclosed \cup {ptr[sig]}
          /\ UNCHANGED sock

\* One critical section of c.mu.
setReconnectStrategyAndDisconnect(s) ==
    IF s = UNSPECIFIED
    THEN UNCHANGED <<next, openPeers, ptr, sock, unclosed>>
    ELSE /\ next' = s
         /\ openPeers' = IF s = DISCONNECT THEN openPeers \ {peer} ELSE openPeers
         /\ Disconnect(s = DISCONNECT)

\* SendLeaveCallRequest succeeds without a connection; with one, the write
\* needs the socket.
LeaveRequestSent == ptr[sig] # None => sock[ptr[sig]] = "open"
LeaveRequestFails == ptr[sig] # None

\* An identity no goroutine or pointer of the call refers to.
FreeConn(c) ==
    /\ sock[c] = "closed" /\ reader[c] = "none" /\ c # mconn
    /\ ptr[sig] # c /\ (prevSig # None => ptr[prevSig] # c)
FreeSig(s) ==
    /\ s \notin {sig, prevSig}
    /\ \A c \in Conn : owner[c] = s => sock[c] = "closed" /\ reader[c] = "none"
FreePeer(p) == p \notin openPeers \cup {peer, prevPeer}

-----------------------------------------------------------------------------
(* monitorHealth. *)

Goto(place) == pc' = place /\ UNCHANGED <<strat, reply>>

MonitorStart ==
    /\ pc = "start" /\ Goto("load")
    /\ connState' = "CONNECTED" /\ markConnected
    /\ UNCHANGED <<next, migVars, peerVars, sockVars, readVars, mconn, leave, events>>

\* conn := c.Client().GetConnection(), without c.mu.
MonitorLoad ==
    /\ pc = "load"
    /\ mconn' = ptr[sig]
    /\ Goto(IF ptr[sig] = None THEN "down" ELSE "up")
    /\ UNCHANGED <<next, connState, budget, migVars, peerVars, sockVars, readVars, leave, events>>

MonitorDown ==
    /\ pc = "down"
    /\ connState' = "CONNECTING" /\ markDisconnected
    /\ Goto(IF GivesUp /\ "disconnectionTimeout" \in outage THEN "abandon" ELSE "choose")
    /\ UNCHANGED <<next, migVars, peerVars, sockVars, readVars, mconn, leave, events>>

\* Read the strategy under c.mu, resolve it, and pay for it.
MonitorChoose ==
    /\ pc = "choose"
    /\ \E healthy \in BOOLEAN :
         LET requested == IF next < FAST THEN REJOIN ELSE next
             chosen    == selectReconnectStrategy(requested, healthy)
             expensive == consumesRejoinBudget(chosen)
         IN IF next = DISCONNECT
            THEN Goto("exit") /\ UNCHANGED budget
            ELSE IF expensive /\ ~AllowRejoin
            THEN Goto("abandon") /\ UNCHANGED budget
            ELSE /\ pc' = "attempt" /\ strat' = chosen /\ UNCHANGED reply
                 /\ rejoins' = IF expensive /\ RejoinLimit > 0 THEN rejoins + 1 ELSE rejoins
                 /\ fastAttempts' = IF chosen = FAST THEN fastAttempts + 1 ELSE fastAttempts
                 /\ UNCHANGED outage
    /\ UNCHANGED <<next, connState, migVars, peerVars, sockVars, readVars, mconn, leave, events>>

abandonCall ==
    /\ pc = "abandon" /\ Goto("exit")
    /\ next' = DISCONNECT
    /\ UNCHANGED <<connState, budget, migVars, peerVars, sockVars, readVars, mconn, leave, events>>

\* The deferred function: callCancel and the terminal state.
MonitorExit ==
    /\ pc = "exit" /\ Goto("done")
    /\ connState' = "DISCONNECTED" /\ mconn' = None
    /\ UNCHANGED <<next, budget, migVars, peerVars, sockVars, readVars, leave, events>>

\* Mutant: the strategy is forgotten even when the call is over.
MonitorUpForgets ==
    /\ pc = "up" /\ Goto("wait") /\ next' = FAST
    /\ UNCHANGED <<connState, budget, migVars, peerVars, sockVars, readVars, mconn, leave, events>>

\* Mutant: a call that is over keeps watching its connection.
MonitorUpStays ==
    /\ pc = "up" /\ Goto("wait")
    /\ next' = IF next = DISCONNECT THEN next ELSE FAST
    /\ UNCHANGED <<connState, budget, migVars, peerVars, sockVars, readVars, mconn, leave, events>>

\* The connection is there: forget the last strategy, unless the call is over.
MonitorUp ==
    /\ pc = "up"
    /\ IF next = DISCONNECT
       THEN Goto("exit") /\ UNCHANGED next
       ELSE Goto("wait") /\ next' = FAST
    /\ UNCHANGED <<connState, budget, migVars, peerVars, sockVars, readVars, mconn, leave, events>>

\* select: Liveness, or the poll interval.
MonitorWait ==
    /\ pc = "wait" /\ Goto("load") /\ mconn' = None
    /\ \/ /\ sock[mconn] = "closed"
          /\ connState' = "CONNECTING" /\ markDisconnected
       \/ UNCHANGED <<connState, budget>>
    /\ UNCHANGED <<next, migVars, peerVars, sockVars, readVars, leave, events>>

\* Sleep, then escalate whatever the next strategy is by now.
MonitorFailed ==
    /\ pc = "failed" /\ Goto("load")
    /\ next' = escalateReconnectStrategy(next)
    /\ UNCHANGED <<connState, budget, migVars, peerVars, sockVars, readVars, mconn, leave, events>>

\* Mutant: the outage is not declared over.
MonitorSuccessKeepsClock ==
    /\ pc = "success" /\ Goto("load")
    /\ connState' = "CONNECTED"
    /\ UNCHANGED <<next, budget, migVars, peerVars, sockVars, readVars, mconn, leave, events>>

MonitorSuccess ==
    /\ pc = "success" /\ Goto("load")
    /\ connState' = "CONNECTED" /\ markConnected
    /\ UNCHANGED <<next, migVars, peerVars, sockVars, readVars, mconn, leave, events>>

-----------------------------------------------------------------------------
(* The strategies: reconnect, fastReconnect, rejoinReconnect, migrate. *)

\* Where a failing strategy goes: migrate cleans up before it returns.
Fail == Goto(IF prevSig # None THEN "release" ELSE "failed")

fastReconnect ==
    /\ pc = "attempt" /\ strat = FAST /\ Goto("connect")
    /\ UNCHANGED <<next, connState, budget, migVars, peerVars, sockVars, readVars, mconn, leave, events>>

\* GetCred, then Join with a new session.
rejoinReconnect ==
    /\ pc = "attempt" /\ strat = REJOIN
    /\ Goto("init") \/ Goto("failed")
    /\ UNCHANGED <<next, connState, budget, migVars, peerVars, sockVars, readVars, mconn, leave, events>>

\* GetCred, then the first half of migrate: await the old SFU's confirmation,
\* detach the old peer, install an empty one with a signal client of its own.
migrateReconnect ==
    /\ pc = "attempt" /\ strat = MIGRATE
    /\ \/ /\ Goto("failed")
          /\ UNCHANGED <<connState, migVars, peer, ptr, detached>>
       \/ \E s \in Sig :
            /\ FreeSig(s) /\ Goto("init")
            /\ prevSig' = sig /\ prevPeer' = peer /\ confirmed' = FALSE
            /\ sig' = s /\ peer' = None
            /\ ptr' = [ptr EXCEPT ![s] = None]
            /\ detached' = (detached \cup {sig}) \ {s}
            /\ connState' = "MIGRATING"
    /\ UNCHANGED <<next, budget, openPeers, stray, sock, owner, unclosed, readVars,
                   mconn, leave, events>>

\* Mutant: the old pair is never released.
keepAllPeers == openPeers

\* releaseOldPubSub: a migration keeps the old pair, every other path releases
\* it before it builds the new one.
keptPeers == IF strat = MIGRATE THEN openPeers ELSE openPeers \ {peer}

\* The subscriber is built before the publisher, and either may fail.
initPubAndSub ==
    /\ pc = "init"
    /\ \/ \E p \in Peer :
            /\ FreePeer(p) /\ Goto("connect")
            /\ peer' = p /\ openPeers' = keptPeers \cup {p} /\ stray' = stray \ {p}
       \/ Fail /\ openPeers' = keptPeers /\ UNCHANGED <<peer, stray>>
       \/ \E p \in Peer :
            /\ FreePeer(p) /\ Fail
            /\ openPeers' = keptPeers \cup {p} /\ stray' = stray \cup {p}
            /\ UNCHANGED peer
    /\ UNCHANGED <<next, connState, budget, migVars, sockVars, readVars, mconn, leave, events>>

\* Client.Connect up to the SFU's answer.  A failure and an error reply close
\* the socket they dialled; a JoinResponse starts its read loop.
Connect ==
    /\ pc = "connect"
    /\ \/ /\ Fail
          /\ UNCHANGED <<mconn, sock, owner, unclosed, readVars, events>>
       \/ /\ events > 0 /\ events' = events - 1
          /\ pc' = "reply" /\ reply' \in Strategy /\ UNCHANGED strat
          /\ UNCHANGED <<mconn, sock, owner, unclosed, readVars>>
       \/ \E c \in Conn :
            /\ FreeConn(c) /\ Goto("store")
            /\ mconn' = c
            /\ sock' = [sock EXCEPT ![c] = "open"]
            /\ owner' = [owner EXCEPT ![c] = sig]
            /\ unclosed' = unclosed \ {c}
            /\ reader' = [reader EXCEPT ![c] = "reading"]
            /\ asked' = asked \ {c}
            /\ UNCHANGED <<request, events>>
    /\ UNCHANGED <<next, connState, budget, migVars, peerVars, ptr, detached, leave>>

\* handler.OnError called by Connect itself, detached or not ...
ConnectOnError ==
    /\ pc = "reply" /\ Goto("handle")
    /\ setReconnectStrategyAndDisconnect(reply)
    /\ UNCHANGED <<connState, budget, migVars, peer, stray, detached, owner, readVars,
                   mconn, leave, events>>

\* ... and a second time through handle, which a detached client drops.
ConnectHandle ==
    /\ pc = "handle" /\ Fail
    /\ IF sig \in detached
       THEN UNCHANGED <<next, openPeers, ptr, sock, unclosed>>
       ELSE setReconnectStrategyAndDisconnect(reply)
    /\ UNCHANGED <<connState, budget, migVars, peer, stray, detached, owner, readVars,
                   mconn, leave, events>>

\* c.conn.Store(conn), after its read loop has been started.
ConnectStore ==
    /\ pc = "store" /\ Goto("joined")
    /\ ptr' = [ptr EXCEPT ![sig] = mconn] /\ mconn' = None
    /\ UNCHANGED <<next, connState, budget, migVars, peerVars, detached, sock, owner,
                   unclosed, readVars, leave, events>>

\* restoreICE or restorePublishedAndSubscribedTracks: RPCs that may fail.
Restore ==
    /\ pc = "joined"
    /\ Fail \/ Goto(IF prevSig # None THEN "await" ELSE "success")
    /\ UNCHANGED <<next, connState, budget, migVars, peerVars, sockVars, readVars, mconn, leave, events>>

\* The old SFU confirmed: release the previous peer.
MigrationConfirmed ==
    /\ pc = "await" /\ confirmed /\ Goto("success")
    /\ openPeers' = openPeers \ {prevPeer}
    /\ Close({ptr[prevSig]})
    /\ connState' = "CONNECTED"
    /\ prevSig' = None /\ prevPeer' = None
    /\ UNCHANGED <<next, budget, sig, confirmed, peer, stray, ptr, detached, owner, unclosed,
                   readVars, mconn, leave, events>>

MigrationTimeout ==
    /\ pc = "await" /\ Goto("release")
    /\ UNCHANGED <<next, connState, budget, migVars, peerVars, sockVars, readVars, mconn, leave, events>>

\* A failed migration releases the current peer and the previous one.
MigrateRelease ==
    /\ pc = "release" /\ Goto("failed")
    /\ detached' = detached \cup {sig}
    /\ openPeers' = openPeers \ {peer, prevPeer}
    /\ Close({ptr[sig], ptr[prevSig]})
    /\ prevSig' = None /\ prevPeer' = None
    /\ UNCHANGED <<next, connState, budget, sig, confirmed, peer, stray, ptr, owner, unclosed,
                   readVars, mconn, leave, events>>

-----------------------------------------------------------------------------
(* readLoop and the handlers it runs. *)

\* A message whose handler changes the strategy; a detached client drops it.
ReadEvent(c) ==
    /\ reader[c] = "reading" /\ sock[c] = "open" /\ owner[c] \notin detached
    /\ events > 0 /\ events' = events - 1
    /\ \/ /\ reader' = [reader EXCEPT ![c] = "handling"]     \* Error, GoAway
          /\ \E s \in Strategy : request' = [request EXCEPT ![c] = s]
       \/ /\ reader' = [reader EXCEPT ![c] = "leaving"]      \* CallEnded
          /\ UNCHANGED request
    /\ UNCHANGED <<next, connState, budget, migVars, peerVars, sockVars, asked, monVars, leave>>

\* OnError, OnGoAway, and the second half of OnCallEnded.
HandleEvent(c) ==
    /\ reader[c] = "handling"
    /\ reader' = [reader EXCEPT ![c] = "reading"]
    /\ asked' = IF request[c] > FAST THEN asked \cup {c} ELSE asked
    /\ request' = [request EXCEPT ![c] = UNSPECIFIED]
    /\ setReconnectStrategyAndDisconnect(request[c])
    /\ UNCHANGED <<connState, budget, migVars, peer, stray, detached, owner, monVars, leave, events>>

\* OnCallEnded runs Leave: when the leave request cannot be written, it stops.
OnCallEnded(c) ==
    /\ reader[c] = "leaving"
    /\ \/ /\ LeaveRequestSent
          /\ reader' = [reader EXCEPT ![c] = "handling"]
          /\ request' = [request EXCEPT ![c] = DISCONNECT]
       \/ /\ LeaveRequestFails
          /\ reader' = [reader EXCEPT ![c] = "reading"]
          /\ UNCHANGED request
    /\ UNCHANGED <<next, connState, budget, migVars, peerVars, sockVars, asked, monVars, leave, events>>

\* Mutant: the loop drops the client's connection whichever it is.
ReaderExitDropsAny(c) ==
    /\ reader[c] = "reading" /\ sock[c] = "closed"
    /\ reader' = [reader EXCEPT ![c] = "none"]
    /\ ptr' = [ptr EXCEPT ![owner[c]] = None]
    /\ UNCHANGED <<next, connState, budget, migVars, peerVars, detached, sock, owner, unclosed,
                   request, asked, monVars, leave, events>>

\* A read error ends the loop, which forgets the connection if it is still the
\* client's.
ReaderExit(c) ==
    /\ reader[c] = "reading" /\ sock[c] = "closed"
    /\ reader' = [reader EXCEPT ![c] = "none"]
    /\ ptr' = [ptr EXCEPT ![owner[c]] = IF @ = c THEN None ELSE @]
    /\ UNCHANGED <<next, connState, budget, migVars, peerVars, detached, sock, owner, unclosed,
                   request, asked, monVars, leave, events>>

\* The event store of a detached client still sees the confirmation.
ParticipantMigrationComplete(c) ==
    /\ reader[c] = "reading" /\ sock[c] = "open" /\ owner[c] = prevSig
    /\ confirmed' = TRUE
    /\ UNCHANGED <<next, connState, budget, sig, prevSig, prevPeer, peerVars, sockVars, readVars,
                   monVars, leave, events>>

\* The network, the SFU, or pingHandler's health check ends a connection.
ConnDies(c) ==
    /\ sock[c] = "open" /\ Close({c})
    /\ UNCHANGED <<next, connState, budget, migVars, peerVars, ptr, detached, owner, unclosed,
                   readVars, monVars, leave, events>>

-----------------------------------------------------------------------------
(* The application, ICE recovery and the clock. *)

\* Leave: the leave request, then disconnect().
LeaveSend ==
    /\ leave = "no" /\ leave' = "sent"
    /\ LeaveRequestSent
    /\ UNCHANGED <<next, connState, budget, migVars, peerVars, sockVars, readVars, monVars, events>>

LeaveDisconnect ==
    /\ leave = "sent" /\ leave' = "left"
    /\ setReconnectStrategyAndDisconnect(DISCONNECT)
    /\ UNCHANGED <<connState, budget, migVars, peer, stray, detached, owner, readVars, monVars, events>>

\* publisher and subscriber give up on ICE restarts.
IceEscalate ==
    /\ events > 0 /\ events' = events - 1
    /\ setReconnectStrategyAndDisconnect(REJOIN)
    /\ UNCHANGED <<connState, budget, migVars, peer, stray, detached, owner, readVars, monVars, leave>>

\* The outage outlives the SFU's fast deadline or the disconnection timeout.
DeadlinePasses(d) ==
    /\ outage # {} /\ d \notin outage
    /\ outage' = outage \cup {d}
    /\ UNCHANGED <<next, connState, fastAttempts, rejoins, migVars, peerVars, sockVars, readVars,
                   monVars, leave, events>>

\* The oldest rejoin falls out of the limiter's window.
WindowSlides ==
    /\ rejoins > 0 /\ rejoins' = rejoins - 1
    /\ events > 0 /\ events' = events - 1
    /\ UNCHANGED <<next, connState, outage, fastAttempts, migVars, peerVars, sockVars, readVars,
                   monVars, leave>>

-----------------------------------------------------------------------------
Monitor ==
    \/ MonitorStart \/ MonitorLoad \/ MonitorDown \/ MonitorChoose \/ abandonCall
    \/ MonitorExit \/ MonitorUp \/ MonitorWait \/ MonitorFailed \/ MonitorSuccess
    \/ fastReconnect \/ rejoinReconnect \/ migrateReconnect \/ initPubAndSub
    \/ Connect \/ ConnectOnError \/ ConnectHandle \/ ConnectStore \/ Restore
    \/ MigrationConfirmed \/ MigrationTimeout \/ MigrateRelease

ReadLoop(c) == HandleEvent(c) \/ OnCallEnded(c) \/ ReaderExit(c)

Environment ==
    \/ \E c \in Conn : ReadEvent(c) \/ ParticipantMigrationComplete(c) \/ ConnDies(c)
    \/ LeaveSend \/ IceEscalate \/ WindowSlides
    \/ \E d \in Deadlines \ {"started"} : DeadlinePasses(d)

Next ==
    \/ Monitor
    \/ \E c \in Conn : ReadLoop(c)
    \/ LeaveDisconnect
    \/ Environment

Spec == Init /\ [][Next]_vars

(***************************************************************************)
(* Fairness: goroutines that can run do run, and every blocking call of    *)
(* the monitor returns.  The SFU, the network, ICE, the clock and the      *)
(* application owe nothing.                                                *)
(***************************************************************************)
FairSpec ==
    /\ Spec
    /\ WF_vars(Monitor)
    /\ \A c \in Conn : WF_vars(ReadLoop(c))
    /\ WF_vars(LeaveDisconnect)

-----------------------------------------------------------------------------
(* What holds. *)

\* No websocket leaks: an open one is the connection of the current or the
\* migrating signal client, or Connect is about to install it, or its close
\* frame could not be written (Client.Disconnect).
ConnectionsAccounted ==
    \A c \in Conn : sock[c] = "open" =>
        \/ \E s \in {sig, prevSig} \ {None} : owner[c] = s /\ ptr[s] = c
        \/ pc = "store" /\ mconn = c
        \/ c \in unclosed

\* Connect never replaces a connection it would then lose track of: the
\* handle is nil whenever it stores one (the question its "todo" leaves open).
NoConnectionOverwritten == pc = "store" => ptr[sig] = None

\* No peer connection leaks while the call lives: an open pair is the current
\* one or the one being migrated away from, or initPubAndSub failed half way.
PeersAccounted == openPeers \subseteq {peer, prevPeer} \cup stray

\* The monitor never forgets that the call is over: resetting the strategy on
\* a live connection, escalating and abandoning keep DISCONNECT.  Only a
\* request from outside, an error reply to a join included, replaces it.
KeepsDisconnect ==
    next = DISCONNECT /\ next' # DISCONNECT => pc' = pc \/ pc \in {"reply", "handle"}
DisconnectKept == [][KeepsDisconnect]_vars

\* At the head of the loop the outage clock runs exactly while the call does
\* not report CONNECTED, so neither deadline is measured from a past outage.
OutageClockMatchesState ==
    pc \in {"load", "up", "wait"} => (outage # {} <=> connState # "CONNECTED")

\* Make before break: a migration never closes the pair it is moving away
\* from before it has released it.
KeepsOldPeer ==
    prevPeer \in openPeers /\ prevPeer' = prevPeer => prevPeer \in openPeers'
OldPeerKept == [][KeepsOldPeer]_vars

\* What an attempt must not lose on its way: variables keep their types, Connect
\* stores over no other connection, a migration keeps the pair it moves away from
\* and the monitor keeps DISCONNECT.
MonitorKeeps == [](TypeOK /\ NoConnectionOverwritten) /\ OldPeerKept /\ DisconnectKept

\* A call that is over stops its monitor, unless somebody revives it.
LeaveCompletes == (next = DISCONNECT) ~> (pc = "done" \/ next # DISCONNECT)

\* An outage the monitor has seen ends: an attempt succeeds, or one that failed
\* half way has left a connection to watch, or the call is given up.
OutageResolved == (pc = "choose") ~> (pc \in {"success", "wait", "done"})

-----------------------------------------------------------------------------
(* What the comments and tests say, and the code does not guarantee. *)

\* A request of the SFU the monitor is connected to is never forgotten: the
\* monitor resets the strategy to FAST for connections that asked for nothing.
RequestNotLost ==
    [][pc = "up" /\ pc' = "wait" => mconn \notin asked]_vars

\* Once Leave has disconnected the call, the monitor starts no reconnect.
NoReconnectAfterLeave ==
    [][leave = "left" /\ pc = "choose" => pc' # "attempt"]_vars

\* A connected call receives the SFU's events.
ConnectedClientDelivers ==
    pc = "wait" /\ connState = "CONNECTED" => sig \notin detached

\* A connection that died is noticed: the monitor reconnects or gives up.
LostConnectionNoticed ==
    (pc = "wait" /\ sock[mconn] = "closed") ~> (pc \in {"down", "done"})
=============================================================================
