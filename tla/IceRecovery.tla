----------------------------- MODULE IceRecovery -----------------------------
(***************************************************************************)
(* One peer connection's iceRecovery and what drives it: the transport's   *)
(* connection-state callbacks and its post-ICE connect timer, the delayed  *)
(* restart timers, and the peer being closed by the call.                  *)
(*                                                                         *)
(* A critical section of r.mu or t.mu is one action; restart() and         *)
(* escalate() run with no lock held.  A timer that has fired can no longer *)
(* be stopped: its goroutine is on its way to the lock.  Connection-state  *)
(* callbacks are taken to run one after the other, in order.               *)
(*                                                                         *)
(* The module has the subscriber's freedom: its restart is an RPC, and its *)
(* OnFailed looks at the websocket first.  A publisher's behaviours are    *)
(* among those of a subscriber.                                            *)
(***************************************************************************)
EXTENDS Integers

CONSTANTS
    Timer,          \* delayed-restart timers
    None,           \* the nil pointer
    Callback,       \* the goroutine of the connection-state callbacks
    Connect,        \* the goroutine of the post-ICE connect timer
    MaxRestartsWithoutRecovery,
    MaxChanges      \* bound on the connection-state changes

ASSUME IceRecoveryAssumption ==
    /\ None \notin Timer /\ Callback \notin Timer /\ Connect \notin Timer
    /\ Callback # Connect
    /\ MaxRestartsWithoutRecovery \in Nat \ {0}
    /\ MaxChanges \in Nat

VARIABLES
    state,          \* the state pion reported last
    connectedAt,    \* whether the connection has ever been connected
    connectTimer,   \* the post-ICE connect timer
    timer,          \* r.timer
    attempts,       \* r.attempts
    closed,         \* r.closed
    bound,          \* the transport's callbacks still reach the peer
    pcClosed,       \* Transport.Close has run
    doing,             \* where each goroutine is
    answered,       \* history: the present trouble was met by a restart or escalated
    changes         \* connection-state changes left

Thread == Timer \cup {Callback, Connect}
connVars == <<state, connectedAt, connectTimer, changes>>
endVars == <<closed, bound, pcClosed>>
iceVars == <<connVars, timer, attempts, endVars, doing, answered>>

State == {"new", "connecting", "connected", "disconnected", "failed"}

\* A Timer is armed, then fired; then like Callback and Connect it may try a
\* restart, perform it, and escalate.
IceTypeOK ==
    /\ state \in State
    /\ connectedAt \in BOOLEAN
    /\ connectTimer \in {"off", "armed", "over"}
    /\ timer \in Timer \cup {None}
    /\ attempts \in 0 .. MaxRestartsWithoutRecovery
    /\ closed \in BOOLEAN /\ bound \in BOOLEAN /\ pcClosed \in BOOLEAN
    /\ doing \in [Thread -> {"idle", "armed", "fired", "handler", "info", "failedBefore",
                          "failedAfter", "try", "restart", "escalate"}]
    /\ answered \in BOOLEAN
    /\ changes \in 0 .. MaxChanges

IceInit ==
    /\ state = "new" /\ connectedAt = FALSE /\ connectTimer = "off"
    /\ timer = None /\ attempts = 0
    /\ closed = FALSE /\ bound = TRUE /\ pcClosed = FALSE
    /\ doing = [t \in Thread |-> "idle"]
    /\ answered = FALSE
    /\ changes = MaxChanges

Goes(t, place) == doing' = [doing EXCEPT ![t] = place]

-----------------------------------------------------------------------------
(* The transport: pion's callbacks and the connect timer. *)

\* pion reports a new state; onPCStateChange records it and stops the connect
\* timer.  The handler it calls runs next.
onPCStateChange(s) ==
    /\ doing[Callback] = "idle" /\ bound /\ ~pcClosed
    /\ changes > 0 /\ changes' = changes - 1
    /\ \/ s = "connecting" /\ state # "connecting"
       \/ s = "connected" /\ state \in {"connecting", "disconnected"}
       \/ s = "disconnected" /\ state = "connected"
       \/ s = "failed" /\ state \in {"connecting", "disconnected"}
    /\ state' = s /\ answered' = FALSE
    /\ connectedAt' = (connectedAt \/ s = "connected")
    /\ connectTimer' = IF s \in {"connected", "failed"} /\ connectTimer = "armed"
                       THEN "over" ELSE connectTimer
    /\ Goes(Callback, IF s = "connecting" THEN "idle" ELSE IF s = "failed" THEN "info" ELSE "handler")
    /\ UNCHANGED <<timer, attempts, endVars>>

\* ICE connected for the first time: DTLS gets a deadline.
onICEStateChange ==
    /\ connectTimer = "off" /\ bound /\ ~pcClosed /\ state = "connecting"
    /\ connectTimer' = "armed"
    /\ UNCHANGED <<state, connectedAt, changes, timer, attempts, endVars, doing, answered>>

\* The deadline passes on a connection that has not connected by now.
onConnectTimeout ==
    /\ connectTimer = "armed" /\ connectTimer' = "over"
    /\ Goes(Connect, "info")
    /\ ~pcClosed /\ ~connectedAt /\ state # "failed"
    /\ UNCHANGED <<state, connectedAt, changes, timer, attempts, endVars, answered>>

\* connectionInfo, the argument of OnFailed: has it connected by the time it is read?
connectionInfo(t) ==
    /\ doing[t] = "info"
    /\ Goes(t, IF connectedAt THEN "failedAfter" ELSE "failedBefore")
    /\ UNCHANGED <<connVars, timer, attempts, endVars, answered>>

-----------------------------------------------------------------------------
(* iceRecovery. *)

stopTimerLocked(places) ==
    IF timer # None /\ doing[timer] = "armed"
    THEN [places EXCEPT ![timer] = "idle"] ELSE places

\* The handler of "connected"; the first time it runs twice, OnInitialConnected
\* calling it too.
onConnected ==
    /\ doing[Callback] = "handler" /\ state = "connected"
    /\ doing' = stopTimerLocked([doing EXCEPT ![Callback] = "idle"])
    /\ timer' = None /\ attempts' = 0
    /\ UNCHANGED <<connVars, endVars, answered>>

onDisconnected ==
    /\ doing[Callback] = "handler" /\ state = "disconnected"
    /\ IF closed \/ timer # None
       THEN Goes(Callback, "idle") /\ UNCHANGED timer
       ELSE \E t \in Timer :
              /\ doing[t] = "idle"
              /\ doing' = [doing EXCEPT ![Callback] = "idle", ![t] = "armed"]
              /\ timer' = t
    /\ UNCHANGED <<connVars, attempts, endVars, answered>>

\* The grace period is over.
TimerFires(t) ==
    /\ doing[t] = "armed" /\ Goes(t, "fired")
    /\ UNCHANGED <<connVars, timer, attempts, endVars, answered>>

\* Mutant: the handle keeps pointing at the timer that has fired.
TimerCallbackKeepsHandle(t) ==
    /\ doing[t] = "fired" /\ Goes(t, "try")
    /\ UNCHANGED <<connVars, timer, attempts, endVars, answered>>

\* r.timer = nil, whichever timer it is by now.
TimerCallback(t) ==
    /\ doing[t] = "fired" /\ Goes(t, "try")
    /\ timer' = None
    /\ UNCHANGED <<connVars, attempts, endVars, answered>>

\* onFailed stops the timer, and restarts what has once worked.
onFailed(t) ==
    /\ doing' = stopTimerLocked([doing EXCEPT ![t] = IF @ = "failedAfter" THEN "try" ELSE "escalate"])
    /\ timer' = None

\* The peer's OnFailed.  A subscriber whose websocket is gone leaves iceRecovery
\* alone and asks for a rejoin.
OnFailed(t) ==
    /\ doing[t] \in {"failedBefore", "failedAfter"}
    /\ \/ onFailed(t)
       \/ Goes(t, "escalate") /\ UNCHANGED timer
    /\ UNCHANGED <<connVars, attempts, endVars, answered>>

budgetSpent == attempts >= MaxRestartsWithoutRecovery

\* The critical section of tryRestart.
tryRestart(t) ==
    /\ doing[t] = "try"
    /\ \/ /\ closed /\ Goes(t, "idle") /\ UNCHANGED attempts
       \/ /\ ~closed /\ budgetSpent /\ Goes(t, "escalate") /\ UNCHANGED attempts
       \/ /\ ~closed /\ ~budgetSpent /\ Goes(t, "restart") /\ attempts' = attempts + 1
    /\ UNCHANGED <<connVars, timer, endVars, answered>>

\* Mutant: a failed restart is let go.
restartNeverEscalates(t) ==
    /\ doing[t] = "restart" /\ Goes(t, "idle")
    /\ answered' = TRUE \/ UNCHANGED answered
    /\ UNCHANGED <<connVars, timer, attempts, endVars>>

\* restart(): the subscriber's request to the SFU may fail at any time, the
\* publisher's ICERestart fails exactly when the peer connection is closed.
restart(t) ==
    /\ doing[t] = "restart"
    /\ \/ Goes(t, "idle") /\ answered' = TRUE
       \/ Goes(t, "escalate") /\ UNCHANGED answered
    /\ UNCHANGED <<connVars, timer, attempts, endVars>>

\* escalate(): setReconnectStrategyAndDisconnect(REJOIN).
escalate(t) ==
    /\ doing[t] = "escalate" /\ Goes(t, "idle")
    /\ answered' = TRUE
    /\ UNCHANGED <<connVars, timer, attempts, endVars>>

-----------------------------------------------------------------------------
(* A migration detaches the peer; its Close runs iceRecovery.close, then
   Transport.Close. *)

Unbind ==
    /\ bound /\ bound' = FALSE
    /\ UNCHANGED <<connVars, timer, attempts, closed, pcClosed, doing, answered>>

close ==
    /\ ~closed /\ closed' = TRUE
    /\ doing' = stopTimerLocked(doing) /\ timer' = None
    /\ UNCHANGED <<connVars, attempts, bound, pcClosed, answered>>

TransportClose ==
    /\ closed /\ ~pcClosed /\ pcClosed' = TRUE
    /\ connectTimer' = IF connectTimer = "armed" THEN "over" ELSE connectTimer
    /\ UNCHANGED <<state, connectedAt, changes, timer, attempts, closed, bound, doing, answered>>

-----------------------------------------------------------------------------
Recovery(t) == connectionInfo(t) \/ OnFailed(t) \/ tryRestart(t) \/ restart(t) \/ escalate(t)
Delayed(t) == TimerFires(t) \/ TimerCallback(t)

IceNext ==
    \/ \E s \in State : onPCStateChange(s)
    \/ onICEStateChange \/ onConnectTimeout
    \/ onConnected \/ onDisconnected
    \/ \E t \in Timer : Delayed(t)
    \/ \E t \in Thread : Recovery(t)
    \/ Unbind \/ close \/ TransportClose

IceSpec == IceInit /\ [][IceNext]_iceVars

\* Goroutines run, timers fire, RPCs return; pion and the call owe nothing.
IceFairness ==
    /\ WF_iceVars(onConnected \/ onDisconnected)
    /\ \A t \in Timer : WF_iceVars(Delayed(t))
    /\ \A t \in Thread : WF_iceVars(Recovery(t))

IceFairSpec == IceSpec /\ IceFairness

-----------------------------------------------------------------------------
\* The handle is honest: while r.timer is set, that timer still has its callback
\* to run.  onDisconnected relies on it when it schedules nothing.
HandleMeansPending == timer # None => doing[timer] \in {"armed", "fired"}

\* The handle is honest and the restart budget kept.
RecoveryConsistent == IceTypeOK /\ HandleMeansPending

\* Trouble is met: a connection that stays disconnected or failed gets an ICE
\* restart or a rejoin, unless its peer is closed or detached.
TroubleAnswered ==
    state \in {"disconnected", "failed"} ~> (answered \/ closed \/ ~bound \/ state \in {"connecting", "connected"})

=============================================================================
