---- MODULE SocketHealth ----
(* How a websocket is found dead: pingHandler and readLoop of the signalling
   client (signal/client.go) and of the coordinator client
   (coordinator/websocket.go), over one connection (websocket/wsconn.go). Both
   goroutines write the connection's one read deadline; events are handled on
   the read loop. Time is counted in ticks, and does not pass while a timer or
   deadline that is due has not had its effect. *)
EXTENDS Naturals

CONSTANTS Intervals,      \* what healthCheckInterval, pingInterval may be
          HealthTimeout,  \* healthCheckTimeout, twice pingInterval
          PingWait,       \* the deadline a ping sets on the read under way
          ReadTimeout     \* readTimeout, readDeadline

(* The read timeout is the last resort, 30 and 60 seconds against a PingWait of 3. *)
ASSUME SocketHealthAssumption ==
    /\ Intervals \subseteq Nat \ {0} /\ PingWait \in Nat \ {0}
    /\ HealthTimeout \in Nat /\ ReadTimeout \in Nat /\ ReadTimeout >= PingWait

Forever == ReadTimeout + PingWait + 1   \* no deadline

VARIABLES socketKind,        \* "signal" or "coordinator"
          interval,
          open,
          pinger,      \* pingHandler runs
          reader,      \* readLoop: "arming" a deadline, "reading", "handling", "done"
          deadline,    \* ticks until the read deadline; Forever when none is set
          nextPing,    \* ticks until the ticker's next tick
          healthAge,   \* ticks since lastHealthCheckNanos was stored
          quiet        \* ticks the read under way has waited for a frame

healthVars == <<socketKind, interval, open, pinger, reader, deadline, nextPing, healthAge, quiet>>

MaxAge == Forever + HealthTimeout   \* ages are told apart up to here
cap(n) == IF n > MaxAge THEN MaxAge ELSE n

HealthTypeOK ==
    /\ socketKind \in {"signal", "coordinator"} /\ open \in BOOLEAN /\ pinger \in BOOLEAN
    /\ reader \in {"arming", "reading", "handling", "done"}
    /\ interval \in Intervals
    /\ deadline \in 0 .. Forever /\ nextPing \in 0 .. interval
    /\ healthAge \in 0 .. MaxAge /\ quiet \in 0 .. MaxAge

(* Connect has its answer and starts the two goroutines. *)
HealthInit ==
    /\ socketKind \in {"signal", "coordinator"} /\ interval \in Intervals
    /\ socketKind = "coordinator" => interval > PingWait   \* constants of that client
    /\ open = TRUE /\ pinger = TRUE
    /\ reader = "arming" /\ deadline = Forever /\ nextPing = interval
    /\ healthAge = 0 /\ quiet = 0

(* readLoop sets its own deadline before each read, over whatever a ping set. *)
ReadArm ==
    /\ reader = "arming" /\ open
    /\ reader' = "reading" /\ deadline' = ReadTimeout /\ quiet' = 0
    /\ UNCHANGED <<socketKind, interval, open, pinger, nextPing, healthAge>>

(* A frame is read: a health check answer, an event, or one that cannot be
   decoded, which the loop skips. *)
ReadFrame(frame) ==
    /\ reader = "reading" /\ open
    /\ reader' = IF frame = "undecodable" THEN "arming" ELSE "handling"
    /\ healthAge' = IF frame = "health" THEN 0 ELSE healthAge
    /\ UNCHANGED <<socketKind, interval, open, pinger, deadline, nextPing, quiet>>

HandlerReturns ==
    /\ reader = "handling"
    /\ reader' = "arming"
    /\ UNCHANGED <<socketKind, interval, open, pinger, deadline, nextPing, healthAge, quiet>>

(* The deadline passes, or the connection is closed under the read or before
   the deadline can be set: the loop ends and closes the connection. *)
ReadFails ==
    /\ \/ reader = "reading" /\ (deadline = 0 \/ ~open)
       \/ reader = "arming" /\ ~open
    /\ reader' = "done" /\ open' = FALSE
    /\ UNCHANGED <<socketKind, interval, pinger, deadline, nextPing, healthAge, quiet>>

(* The server, or Close, ends the connection. *)
Closed ==
    /\ open /\ open' = FALSE
    /\ UNCHANGED <<socketKind, interval, pinger, reader, deadline, nextPing, healthAge, quiet>>

(* Mutant: a ping leaves the deadline alone *)
PingOnly ==
    /\ pinger /\ nextPing = 0 /\ healthAge <= HealthTimeout /\ open
    /\ nextPing' = interval
    /\ UNCHANGED <<socketKind, interval, open, pinger, reader, deadline, healthAge, quiet>>

pingDue == pinger /\ nextPing = 0

(* pingHandler finds the health check too old: the signalling client closes the
   connection, the coordinator client only stops pinging. *)
PingGivesUp ==
    /\ pingDue /\ healthAge > HealthTimeout
    /\ pinger' = FALSE
    /\ open' = IF socketKind = "signal" THEN FALSE ELSE open
    /\ UNCHANGED <<socketKind, interval, reader, deadline, nextPing, healthAge, quiet>>

PingEnds ==
    /\ pingDue /\ healthAge <= HealthTimeout /\ ~open
    /\ pinger' = FALSE
    /\ UNCHANGED <<socketKind, interval, open, reader, deadline, nextPing, healthAge, quiet>>

(* A ping shortens, or lengthens, the deadline of the read under way. *)
Ping ==
    /\ pingDue /\ healthAge <= HealthTimeout /\ open
    /\ deadline' = PingWait /\ nextPing' = interval
    /\ UNCHANGED <<socketKind, interval, open, pinger, reader, healthAge, quiet>>

HealthTick ==
    /\ open \/ pinger
    /\ ~pingDue /\ reader # "arming"
    /\ ~(reader = "reading" /\ (deadline = 0 \/ ~open))
    /\ deadline' = IF deadline \in {0, Forever} THEN deadline ELSE deadline - 1
    /\ nextPing' = IF pinger THEN nextPing - 1 ELSE nextPing
    /\ healthAge' = cap(healthAge + 1)
    /\ quiet' = IF reader = "reading" THEN cap(quiet + 1) ELSE quiet
    /\ UNCHANGED <<socketKind, interval, open, pinger, reader>>

HealthNext ==
    \/ ReadArm \/ HandlerReturns \/ ReadFails \/ Closed
    \/ \E frame \in {"health", "event", "undecodable"} : ReadFrame(frame)
    \/ PingGivesUp \/ PingEnds \/ Ping \/ HealthTick

HealthSpec == HealthInit /\ [][HealthNext]_healthVars

-----------------------------------------------------------------------------
(* A peer that has fallen silent is noticed: no read waits longer than to the
   next ping and its deadline, whichever of the two goroutines wrote the
   deadline last. A ping interval below PingWait keeps pushing the deadline
   ahead, and then the age of the last health check is what remains; once the
   coordinator client has stopped pinging, the loop's own timeout. *)
NoticeWithin ==
    IF interval <= PingWait THEN HealthTimeout + interval
    ELSE IF pinger THEN interval + PingWait ELSE ReadTimeout

SilenceNoticed == (open /\ reader = "reading") => quiet <= NoticeWithin

(* A read fails on an open connection only after a silence of PingWait: a
   deadline a ping set while an event was being handled never ends a later
   read. *)
NoFalseAlarm ==
    [][(open /\ reader = "reading" /\ reader' = "done") => quiet >= PingWait]_healthVars

(* A silent peer is noticed in time, and only a silent one. *)
HealthSound == [](HealthTypeOK /\ SilenceNoticed) /\ NoFalseAlarm
====
