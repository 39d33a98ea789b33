---- MODULE MCSession ----
(***************************************************************************)
(* One TLC run for what keeps a client connected, components modelled      *)
(* apart from each other. A behaviour picks one component, runs it, and    *)
(* leaves the others where they start: the states of the run are the sum   *)
(* of the components' states and not their product.                        *)
(***************************************************************************)
EXTENDS IceRecovery, SlidingWindow, EventStore, FirstJoin, SocketHealth, RetryRequest

VARIABLE sessionFocus    \* the component this behaviour runs

SessionComponent == {"ice", "limiter", "events", "join", "health", "retry"}

sessionVars == <<sessionFocus, iceVars, vars, evVars, joinVars, healthVars, retryVars>>

(* A component with several initial states takes one of them when it only waits. *)
SessionInit ==
    /\ sessionFocus \in SessionComponent
    /\ IceInit /\ Init /\ EvInit
    /\ JoinInit /\ (sessionFocus = "join"
                     \/ (withWS /\ detect /\ ctxKind = "cancel" /\ edge = CHOOSE s \in Sfu : TRUE))
    /\ HealthInit /\ (sessionFocus = "health"
                       \/ (socketKind = "signal" /\ interval = CHOOSE n \in Intervals : TRUE))
    /\ RetryInit /\ (sessionFocus = "retry" \/ (marked /\ body = "none"))

SessionNext ==
    /\ UNCHANGED sessionFocus
    /\ \/ /\ sessionFocus = "ice" /\ IceNext
          /\ UNCHANGED <<vars, evVars, joinVars, healthVars, retryVars>>
       \/ /\ sessionFocus = "limiter" /\ Next
          /\ UNCHANGED <<iceVars, evVars, joinVars, healthVars, retryVars>>
       \/ /\ sessionFocus = "events" /\ EvNext
          /\ UNCHANGED <<iceVars, vars, joinVars, healthVars, retryVars>>
       \/ /\ sessionFocus = "join" /\ JoinNext
          /\ UNCHANGED <<iceVars, vars, evVars, healthVars, retryVars>>
       \/ /\ sessionFocus = "health" /\ HealthNext
          /\ UNCHANGED <<iceVars, vars, evVars, joinVars, retryVars>>
       \/ /\ sessionFocus = "retry" /\ RetryNext
          /\ UNCHANGED <<iceVars, vars, evVars, joinVars, healthVars>>

(* The fairness of each component. A first join has a step to take from the
   start, which it owes only when it is the component that runs. *)
SessionFairness == IceFairness /\ EvFairness /\ (sessionFocus = "join" => JoinFairness)

SessionSpec == SessionInit /\ [][SessionNext]_sessionVars /\ SessionFairness

====
