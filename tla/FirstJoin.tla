---- MODULE FirstJoin ----
(* From NewClient to a joined call: the coordinator websocket (newClient,
   connectWsWithRetries of client.go), the location (location.go), the
   coordinator half of Join, the SFU connection, and retryFirstJoin (call.go),
   which re-enters Join with a strategy an error reply may have chosen. *)
EXTENDS Naturals, FiniteSets

CONSTANTS RetryLimit,    \* attempts of retryFirstJoin (20)
          HintLimit,     \* attempts of the location lookup (3)
          Sfu            \* edges the coordinator may assign

ASSUME FirstJoinAssumption == RetryLimit \in Nat /\ HintLimit \in Nat \ {0}

Strategy == {"UNSPECIFIED", "REJOIN", "MIGRATE"}

(* Errors of the SFU half of a join, told apart as isJoinErrorRetryable does *)
JoinError == {"deadline", "canceled", "network", "handshake500", "handshake503",
              "coordRetry", "coordFinal", "signal", "other"}
NoError == "none"

VARIABLES jpc,         \* where the caller of NewClient and Join is
          withWS, detect, located,
          ctxKind,     \* the caller's context has a "deadline", or can only be "cancel"led
          ctxOver,     \* it has ended
          joinedCoord, \* GetCred is set: the coordinator half is done
          edge, exclude,
          attemptsLeft,
          strategy,    \* of the Join under way
          nextStrategy,\* Call.nextReconnectStrategy
          lastError,
          tries,       \* attempts of the location lookup
          pairs,       \* peer-connection pairs built and not released
          migrations,  \* attempts made under MIGRATE
          monitors     \* times the monitor and the stats worker were started

joinVars == <<jpc, withWS, detect, located, ctxKind, ctxOver, joinedCoord, edge, exclude, attemptsLeft,
              strategy, nextStrategy, lastError, tries, pairs, migrations, monitors>>

Final == {"joined", "failed", "noClient"}

JoinTypeOK ==
    /\ jpc \in Final \cup {"token", "wsConnect", "wsSleep", "client", "locate", "post", "postSleep",
                           "init", "connect", "retry", "backoff", "creds", "credsSleep"}
    /\ {withWS, detect, located, ctxOver, joinedCoord} \subseteq BOOLEAN
    /\ ctxKind \in {"deadline", "cancel"}
    /\ edge \in Sfu /\ exclude \subseteq Sfu
    /\ attemptsLeft \in 0 .. RetryLimit
    /\ strategy \in Strategy /\ nextStrategy \in Strategy
    /\ lastError \in JoinError \cup {NoError}
    /\ tries \in 0 .. HintLimit
    /\ pairs \in Nat /\ migrations \in Nat /\ monitors \in Nat

JoinInit ==
    /\ jpc = "token" /\ withWS \in BOOLEAN /\ detect \in BOOLEAN /\ located = FALSE
    /\ ctxKind \in {"deadline", "cancel"} /\ ctxOver = FALSE /\ joinedCoord = FALSE /\ edge \in Sfu /\ exclude = {}
    /\ attemptsLeft = RetryLimit /\ strategy = "UNSPECIFIED" /\ nextStrategy = "REJOIN"
    /\ lastError = NoError /\ tries = 0 /\ pairs = 0 /\ migrations = 0 /\ monitors = 0

joinAt(here, there) == jpc = here /\ jpc' = there

(* newClient: the token, then the coordinator websocket unless it is off *)
newClient ==
    /\ joinAt("token", IF withWS THEN "wsConnect" ELSE "client") \/ joinAt("token", "noClient")
    /\ UNCHANGED <<withWS, detect, located, ctxKind, ctxOver, joinedCoord, edge, exclude, attemptsLeft,
                   strategy, nextStrategy, lastError, tries, pairs, migrations, monitors>>

(* connectWsWithRetries: until it connects, is refused, or its timeout is over,
   which is looked at between attempts only *)
connectWsWithRetries ==
    /\ \/ joinAt("wsConnect", "client") \/ joinAt("wsConnect", "noClient")
       \/ joinAt("wsConnect", "wsSleep")
       \/ joinAt("wsSleep", "wsConnect") \/ joinAt("wsSleep", "noClient")
    /\ UNCHANGED <<withWS, detect, located, ctxKind, ctxOver, joinedCoord, edge, exclude, attemptsLeft,
                   strategy, nextStrategy, lastError, tries, pairs, migrations, monitors>>

(* The application calls Join. *)
JoinStarts ==
    /\ joinAt("client", IF detect /\ ~located THEN "locate" ELSE "post")
    /\ UNCHANGED <<withWS, detect, located, ctxKind, ctxOver, joinedCoord, edge, exclude, attemptsLeft,
                   strategy, nextStrategy, lastError, tries, pairs, migrations, monitors>>

(* Discover: a POP, a POP name too short, or another attempt; the fallback when
   there is none left. The answer is cached either way. *)
Discover ==
    /\ jpc = "locate"
    /\ \/ jpc' = "post" /\ located' = TRUE /\ tries' = 0
       \/ /\ tries' = (tries + 1) % HintLimit
          /\ located' = (tries + 1 = HintLimit)
          /\ jpc' = IF located' THEN "post" ELSE "locate"
    /\ UNCHANGED <<withWS, detect, ctxKind, ctxOver, joinedCoord, edge, exclude, attemptsLeft, strategy,
                   nextStrategy, lastError, pairs, migrations, monitors>>

(* Mutant: the wait between two requests does not look at the context *)
joinCoordinatorPatient ==
    /\ \/ /\ joinAt("post", "init") /\ joinedCoord' = TRUE /\ edge' \in Sfu
       \/ /\ joinAt("post", "failed") \/ joinAt("post", "postSleep") \/ joinAt("postSleep", "post")
          /\ UNCHANGED <<joinedCoord, edge>>
    /\ UNCHANGED <<withWS, detect, located, ctxKind, ctxOver, exclude, attemptsLeft, strategy,
                   nextStrategy, lastError, tries, pairs, migrations, monitors>>

(* joinCoordinator through connectWithRetries. A failure ends Join. *)
joinCoordinator ==
    /\ \/ /\ joinAt("post", "init") /\ joinedCoord' = TRUE /\ edge' \in Sfu
       \/ /\ joinAt("post", "failed") \/ joinAt("post", "postSleep")
          /\ UNCHANGED <<joinedCoord, edge>>
       \/ /\ joinAt("postSleep", IF ctxOver THEN "failed" ELSE "post")
          /\ UNCHANGED <<joinedCoord, edge>>
    /\ UNCHANGED <<withWS, detect, located, ctxKind, ctxOver, exclude, attemptsLeft, strategy,
                   nextStrategy, lastError, tries, pairs, migrations, monitors>>

(* Mutant: an attempt of the retry releases nothing *)
releasesNone == IF strategy # "UNSPECIFIED" \/ pairs = 0 THEN 0 ELSE 1

(* releaseOldPubSub of initPubAndSub: a migration finds a fresh peer there, and
   is to keep the old one *)
releases == IF strategy = "MIGRATE" \/ pairs = 0 THEN 0 ELSE 1

initPubAndSub ==
    /\ joinAt("init", "connect")
    /\ pairs' = pairs - releases + 1
    /\ UNCHANGED <<withWS, detect, located, ctxKind, ctxOver, joinedCoord, edge, exclude, attemptsLeft,
                   strategy, nextStrategy, lastError, tries, migrations, monitors>>

(* Connect is answered: the participants are stored, the response applied, and
   the workers started once. The response of an inner Join is the outer's too. *)
ConnectAnswered ==
    /\ joinAt("connect", "joined")
    /\ monitors' = IF monitors = 0 THEN 1 ELSE monitors
    /\ lastError' = NoError
    /\ UNCHANGED <<withWS, detect, located, ctxKind, ctxOver, joinedCoord, edge, exclude, attemptsLeft,
                   strategy, nextStrategy, tries, pairs, migrations>>

(* Connect fails: of the first Join, and of those the retry has entered, the
   error goes to the retry loop. An error reply sets the strategy on its way. *)
ConnectFails(e) ==
    /\ joinAt("connect", "retry")
    /\ e \in {"deadline", "canceled"} => ctxOver
    /\ lastError' = e
    /\ nextStrategy' \in IF e = "signal" THEN {"REJOIN", "MIGRATE"} ELSE {nextStrategy}
    /\ UNCHANGED <<withWS, detect, located, ctxKind, ctxOver, joinedCoord, edge, exclude, attemptsLeft,
                   strategy, tries, pairs, migrations, monitors>>

isJoinErrorRetryable(e) ==
    e \in {"deadline", "network", "handshake503", "coordRetry", "signal"}

(* retryFirstJoin: out of attempts, or not worth one, or wait *)
retryFirstJoin ==
    /\ joinAt("retry", IF attemptsLeft > 0 /\ isJoinErrorRetryable(lastError) THEN "backoff" ELSE "failed")
    /\ UNCHANGED <<withWS, detect, located, ctxKind, ctxOver, joinedCoord, edge, exclude, attemptsLeft,
                   strategy, nextStrategy, lastError, tries, pairs, migrations, monitors>>

(* The wait ends, or the context does. Any strategy but MIGRATE is a rejoin. *)
RetryWaits ==
    /\ \/ /\ ctxOver /\ joinAt("backoff", "failed")
          /\ UNCHANGED <<attemptsLeft, strategy, exclude, migrations>>
       \/ /\ joinAt("backoff", "creds")
          /\ attemptsLeft' = attemptsLeft - 1
          /\ strategy' = IF nextStrategy = "MIGRATE" THEN "MIGRATE" ELSE "REJOIN"
          /\ exclude' = IF nextStrategy = "MIGRATE" THEN {edge} ELSE {}
          /\ migrations' = migrations + IF nextStrategy = "MIGRATE" THEN 1 ELSE 0
    /\ UNCHANGED <<withWS, detect, located, ctxKind, ctxOver, joinedCoord, edge, nextStrategy, lastError,
                   tries, pairs, monitors>>

(* GetCred, with a deadline of its own and deaf to the caller's context; then
   SetCredentials and the inner Join, whose coordinator half is done already *)
GetCred ==
    /\ \/ /\ joinAt("creds", "init") /\ lastError' = lastError
          /\ edge' \in IF exclude # Sfu THEN Sfu \ exclude ELSE Sfu
       \/ /\ joinAt("creds", "credsSleep") \/ joinAt("credsSleep", "creds")
          /\ UNCHANGED <<edge, lastError>>
       \/ /\ joinAt("creds", "retry") \/ joinAt("credsSleep", "retry")
          /\ edge' = edge /\ lastError' \in {"coordRetry", "coordFinal", "network", "deadline"}
    /\ UNCHANGED <<withWS, detect, located, ctxKind, ctxOver, joinedCoord, exclude, attemptsLeft, strategy,
                   nextStrategy, tries, pairs, migrations, monitors>>

(* The caller's context ends. *)
ContextEnds ==
    /\ ~ctxOver /\ ctxOver' = TRUE /\ jpc \notin Final
    /\ UNCHANGED <<jpc, withWS, detect, located, ctxKind, joinedCoord, edge, exclude, attemptsLeft, strategy,
                   nextStrategy, lastError, tries, pairs, migrations, monitors>>

ConnectEnds == ConnectAnswered \/ \E e \in JoinError : ConnectFails(e)

JoinStep ==
    \/ newClient \/ connectWsWithRetries \/ JoinStarts \/ Discover \/ joinCoordinator
    \/ initPubAndSub \/ retryFirstJoin \/ RetryWaits \/ GetCred

JoinNext == JoinStep \/ ConnectEnds \/ ContextEnds

(* The caller's goroutine runs. GetCred's own timeout ends it. Connect waits
   for the SFU's answer as long as the deadline of its context lets it, and
   does not look at a cancellation. *)
JoinFairness ==
    /\ WF_joinVars(JoinStep)
    /\ SF_joinVars(GetCred /\ jpc' \in {"init", "retry"})
    /\ WF_joinVars(ConnectEnds /\ ctxOver /\ ctxKind = "deadline")

JoinSpec == JoinInit /\ [][JoinNext]_joinVars /\ JoinFairness

-----------------------------------------------------------------------------
(* Through all the retries of a first join, every peer-connection pair but the
   current one is released, apart from one for each attempt an error reply
   turned into a MIGRATE; and the workers start once, with a pair to watch. *)
PairsReleased ==
    /\ pairs <= 1 + migrations
    /\ monitors = (IF jpc = "joined" THEN 1 ELSE 0)
    /\ jpc = "joined" => pairs > 0

(* A Join whose context has a deadline returns after it: neither a silent SFU
   nor the retries outlive it. *)
JoinReturns ==
    (ctxOver /\ ctxKind = "deadline" /\ jpc \notin {"token", "wsConnect", "wsSleep", "client"})
        ~> jpc \in Final

(* The retries keep their budget, their pairs and their workers. *)
JoinAccounted == JoinTypeOK /\ PairsReleased
====
