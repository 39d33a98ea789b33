-------------------------- MODULE OfferNegotiation --------------------------
(***************************************************************************)
(* The publisher's pc.Transport as the offerer: the event loop and its     *)
(* queue, the debounced Negotiate, the offer/answer exchange with its ids, *)
(* its timeout and its ICE restarts, and the peer connection underneath.   *)
(*                                                                         *)
(* An event is handled in one action, except that Handler.OnOffer is an    *)
(* RPC: the loop waits for it while everybody else keeps enqueueing.  Its  *)
(* answer goes to the back of the queue.                                   *)
(***************************************************************************)
EXTENDS NegotiationIds, Sequences

CONSTANTS
    Timer,          \* debounce timers
    NoTimer,           \* the nil pointer
    StartIds,       \* ids an earlier, settled exchange may have left
    MaxCalls,       \* bound on AddTrack, Negotiate and ICERestart
    MaxFaults       \* bound on failures of the peer connection and the RPC

ASSUME OfferAssumption ==
    /\ NoTimer \notin Timer
    /\ StartIds \subseteq Id
    /\ MaxCalls \in Nat /\ MaxFaults \in Nat

VARIABLES
    queue,                  \* t.queue
    transportClosed,                 \* t.closed
    negotiateTimer,         \* t.negotiateTimer
    debounce,               \* where each debounce timer is
    loop,                   \* "idle", "offering" inside OnOffer, or "done"
    negotiationState,       \* t.negotiationState
    localID, remoteID,      \* t.localNegotiationID, t.remoteNegotiationID
    restartAtNextOffer, restartAfterGathering, offerRestartsICE,
    negotiationGen,         \* t.negotiationGen
    negotiationTimer,       \* the generation it is armed for, 0 when nil
    signaling, gathering,   \* the peer connection's states
    connection,
    wanted, offered,        \* tracks added, and tracks in the local description
    sent, settled,          \* offers made, and the one the remote description answers
    owed,                   \* history: a Negotiate with neither an offer nor a failure since
    calls, faults           \* budgets

callers == <<wanted, calls>>
pcVars == <<signaling, gathering, offered, sent, settled>>
timeoutVars == <<negotiationGen, negotiationTimer>>
restartVars == <<restartAtNextOffer, restartAfterGathering, offerRestartsICE>>
debounceVars == <<negotiateTimer, debounce>>
offerVars == <<queue, transportClosed, debounceVars, loop, negotiationState, localID, remoteID, restartVars,
          timeoutVars, pcVars, connection, callers, owed, faults>>

\* An event of the queue: an answer carries the id and the offer it answers, a
\* timeout the generation it was armed for.
Event == [kind : {"offer", "restart", "gathered", "answer", "timeout"}, id : Nat, of : Nat]
Ev(kind, id, of) == [kind |-> kind, id |-> id, of |-> of]

OfferTypeOK ==
    /\ queue \in Seq(Event)
    /\ transportClosed \in BOOLEAN
    /\ negotiateTimer \in Timer \cup {NoTimer}
    /\ debounce \in [Timer -> {"idle", "armed", "fired"}]
    /\ loop \in {"idle", "offering", "done"}
    /\ negotiationState \in {"Idle", "AwaitingAnswer", "RenegotiatePending"}
    /\ localID \in Id /\ remoteID \in Id
    /\ restartAtNextOffer \in BOOLEAN
    /\ restartAfterGathering \in BOOLEAN
    /\ offerRestartsICE \in BOOLEAN
    /\ negotiationGen \in Nat /\ negotiationTimer \in 0 .. negotiationGen
    /\ signaling \in {"stable", "have-local-offer"}
    /\ gathering \in {"new", "gathering", "complete"}
    /\ connection \in {"new", "connecting", "connected", "closed"}
    /\ wanted \in Nat /\ offered \in 0 .. wanted
    /\ sent \in Nat /\ settled \in 0 .. sent
    /\ owed \in BOOLEAN
    /\ calls \in 0 .. MaxCalls /\ faults \in 0 .. MaxFaults

\* A transport that has negotiated nothing, or one whose last exchange settled.
OfferInit ==
    /\ queue = <<>> /\ transportClosed = FALSE
    /\ negotiateTimer = NoTimer /\ debounce = [t \in Timer |-> "idle"]
    /\ loop = "idle" /\ negotiationState = "Idle"
    /\ localID \in StartIds /\ remoteID = localID
    /\ restartAtNextOffer = FALSE /\ restartAfterGathering = FALSE /\ offerRestartsICE = FALSE
    /\ negotiationGen = 0 /\ negotiationTimer = 0
    /\ signaling = "stable"
    /\ gathering = IF localID = 0 THEN "new" ELSE "complete"
    /\ connection \in IF localID = 0 THEN {"new"} ELSE {"connecting", "connected"}
    /\ wanted = 0 /\ offered = 0 /\ sent = 0 /\ settled = 0
    /\ owed = FALSE
    /\ calls = MaxCalls /\ faults = MaxFaults

-----------------------------------------------------------------------------
(* Callers, from any goroutine. *)

enqueueLocked(ev) == queue' = IF transportClosed THEN queue ELSE Append(queue, ev)

stopNegotiateTimer ==
    [t \in Timer |-> IF t = negotiateTimer /\ debounce[t] = "armed" THEN "idle" ELSE debounce[t]]

\* Negotiate(force).
Negotiate(force) ==
    \/ transportClosed /\ UNCHANGED <<queue, debounceVars, owed>>
    \/ /\ ~transportClosed /\ force
       /\ debounce' = stopNegotiateTimer /\ negotiateTimer' = NoTimer
       /\ enqueueLocked(Ev("offer", 0, 0)) /\ owed' = TRUE
    \/ /\ ~transportClosed /\ ~force /\ owed' = TRUE
       /\ IF negotiateTimer # NoTimer
          THEN UNCHANGED debounceVars
          ELSE \E t \in Timer :
                 /\ debounce[t] = "idle"
                 /\ debounce' = [debounce EXCEPT ![t] = "armed"]
                 /\ negotiateTimer' = t
       /\ UNCHANGED queue

\* Call.AddTrack: the peer connection gets a transceiver, then Negotiate(false).
AddTrack ==
    /\ calls > 0 /\ calls' = calls - 1
    /\ wanted' = wanted + 1
    /\ Negotiate(FALSE)
    /\ UNCHANGED <<transportClosed, loop, negotiationState, localID, remoteID, restartVars, timeoutVars,
                   pcVars, connection, faults>>

ForceNegotiate ==
    /\ calls > 0 /\ calls' = calls - 1
    /\ Negotiate(TRUE)
    /\ UNCHANGED <<transportClosed, loop, negotiationState, localID, remoteID, restartVars, timeoutVars,
                   pcVars, connection, wanted, faults>>

DebounceFires(t) ==
    /\ debounce[t] = "armed" /\ debounce' = [debounce EXCEPT ![t] = "fired"]
    /\ UNCHANGED <<queue, transportClosed, negotiateTimer, loop, negotiationState, localID, remoteID,
                   restartVars, timeoutVars, pcVars, connection, callers, owed, faults>>

DebounceCallback(t) ==
    /\ debounce[t] = "fired" /\ debounce' = [debounce EXCEPT ![t] = "idle"]
    /\ IF negotiateTimer # t
       THEN UNCHANGED <<queue, negotiateTimer>>
       ELSE negotiateTimer' = NoTimer /\ enqueueLocked(Ev("offer", 0, 0))
    /\ UNCHANGED <<transportClosed, loop, negotiationState, localID, remoteID,
                   restartVars, timeoutVars, pcVars, connection, callers, owed, faults>>

\* ICERestart: a new peer connection ignores it, a closed one refuses it.
ICERestart ==
    /\ calls > 0 /\ calls' = calls - 1
    /\ connection \in {"connecting", "connected"}
    /\ enqueueLocked(Ev("restart", 0, 0))
    /\ UNCHANGED <<transportClosed, debounceVars, loop, negotiationState, localID, remoteID, restartVars,
                   timeoutVars, pcVars, connection, wanted, owed, faults>>

\* Close drops the queue, stops the debounce timer and ends the peer connection.
CloseTransport ==
    /\ ~transportClosed /\ transportClosed' = TRUE /\ queue' = <<>>
    /\ debounce' = stopNegotiateTimer /\ negotiateTimer' = NoTimer
    /\ connection' = "closed"
    /\ UNCHANGED <<loop, negotiationState, localID, remoteID, restartVars, timeoutVars, pcVars,
                   callers, owed, faults>>

-----------------------------------------------------------------------------
(* The event loop. *)

\* next(): the loop takes the head of the queue.
Takes(kind) ==
    /\ loop = "idle" /\ ~transportClosed
    /\ queue # <<>> /\ Head(queue).kind = kind
    /\ queue' = Tail(queue)

Fault == faults > 0 /\ faults' = faults - 1

\* CreateOffer and SetLocalDescription; the first description and every ICE
\* restart start gathering.  gen is the timeout's generation so far.
sendsOffer(restart, gen) ==
    /\ restartAtNextOffer' = FALSE /\ offerRestartsICE' = restart
    /\ signaling' = "have-local-offer"
    /\ gathering' = IF restart \/ gathering = "new" THEN "gathering" ELSE gathering
    /\ offered' = wanted /\ sent' = sent + 1
    /\ owed' = FALSE
    /\ localID' = nextNegotiationID(localID)
    /\ negotiationState' = "AwaitingAnswer"
    /\ negotiationGen' = gen + 1 /\ negotiationTimer' = gen + 1
    /\ loop' = "offering"
    /\ UNCHANGED faults

\* Mutant: the exchange starts before the local description is set.
offerFailsAwaiting(gen, restarts) ==
    /\ Fault /\ owed' = FALSE
    /\ restartAtNextOffer' = FALSE /\ offerRestartsICE' = restarts
    /\ negotiationState' = "AwaitingAnswer" /\ negotiationGen' = gen
    /\ UNCHANGED <<gathering, offered, sent, localID, loop>>

\* Or either of them fails, and OnNegotiationFailed is called.
offerFails(gen, restarts) ==
    /\ Fault /\ owed' = FALSE
    /\ restartAtNextOffer' = FALSE /\ offerRestartsICE' = restarts
    /\ negotiationState' = "Idle" /\ negotiationGen' = gen
    /\ UNCHANGED <<gathering, offered, sent, localID, loop>>

\* offer(iceRestart) from the queue or from restartICE.
offer(iceRestart) ==
    /\ \/ /\ negotiationState # "Idle"
          /\ negotiationState' = "RenegotiatePending"
          /\ UNCHANGED <<restartAtNextOffer, offerRestartsICE, timeoutVars, signaling, gathering,
                         offered, sent, localID, loop, owed, faults>>
       \/ /\ negotiationState = "Idle"
          /\ \/ sendsOffer(iceRestart \/ restartAtNextOffer, negotiationGen + 1)
             \/ /\ offerFails(negotiationGen, offerRestartsICE)
                /\ UNCHANGED <<signaling, negotiationTimer>>
    /\ UNCHANGED <<settled, remoteID>>

HandleOffer ==
    /\ Takes("offer") /\ offer(FALSE)
    /\ UNCHANGED <<transportClosed, debounceVars, restartAfterGathering, connection, callers>>

\* restartICE, the gathering state being no longer "gathering".
restartNow ==
    \/ negotiationState = "Idle" /\ offer(TRUE)
    \/ /\ negotiationState # "Idle" /\ loop' = "offering"
       /\ IF offerRestartsICE
          THEN UNCHANGED <<negotiationState, restartAtNextOffer>>
          ELSE negotiationState' = "RenegotiatePending" /\ restartAtNextOffer' = TRUE
       /\ UNCHANGED <<offerRestartsICE, timeoutVars, signaling, gathering, offered, sent, localID,
                      owed, faults, settled, remoteID>>

restartICE ==
    \/ /\ gathering = "new" /\ UNCHANGED restartAfterGathering
       /\ UNCHANGED <<loop, negotiationState, localID, remoteID, restartAtNextOffer,
                      offerRestartsICE, timeoutVars, pcVars, owed, faults>>
    \/ /\ gathering = "gathering" /\ restartAfterGathering' = TRUE
       /\ UNCHANGED <<loop, negotiationState, localID, remoteID, restartAtNextOffer,
                      offerRestartsICE, timeoutVars, pcVars, owed, faults>>
    \/ /\ gathering = "complete" /\ restartNow /\ UNCHANGED restartAfterGathering

HandleRestart ==
    /\ Takes("restart") /\ restartICE
    /\ UNCHANGED <<transportClosed, debounceVars, connection, callers>>

\* onGatheringComplete: a held restart runs now, or is held again.
HandleGathered ==
    /\ Takes("gathered")
    /\ \/ /\ restartAfterGathering
          /\ \/ /\ gathering = "gathering" /\ UNCHANGED restartAfterGathering
                /\ UNCHANGED <<loop, negotiationState, localID, remoteID, restartAtNextOffer,
                               offerRestartsICE, timeoutVars, pcVars, owed, faults>>
             \/ /\ gathering = "complete" /\ restartAfterGathering' = FALSE /\ restartNow
       \/ /\ ~restartAfterGathering
          /\ UNCHANGED <<loop, negotiationState, localID, remoteID, restartVars, timeoutVars,
                         pcVars, owed, faults>>
    /\ UNCHANGED <<transportClosed, debounceVars, connection, callers>>

renegotiates(stable) == negotiationState = "RenegotiatePending" \/ stable

\* acceptAnswer, for an answer that is accepted: settle, then send what was held.
acceptAnswer(ev) ==
    LET stable == signaling = "stable"
        gen    == negotiationGen + 1
    IN
    \/ /\ ~stable /\ Fault /\ owed' = FALSE             \* SetRemoteDescription fails
       /\ negotiationGen' = gen /\ negotiationTimer' = 0
       /\ UNCHANGED <<loop, negotiationState, localID, remoteID, restartAtNextOffer,
                      offerRestartsICE, pcVars>>
    \/ /\ IF stable THEN UNCHANGED <<settled, remoteID>>
          ELSE /\ settled' = ev.of
               /\ remoteID' = IF ev.id # invalidNegotiationID THEN ev.id ELSE remoteID
       /\ IF renegotiates(stable)
          THEN \/ sendsOffer(restartAtNextOffer, gen + 1)
               \/ /\ offerFails(gen, FALSE)
                  /\ signaling' = "stable" /\ negotiationTimer' = 0
          ELSE /\ negotiationState' = "Idle" /\ offerRestartsICE' = FALSE
               /\ signaling' = "stable"
               /\ negotiationGen' = gen /\ negotiationTimer' = 0
               /\ UNCHANGED <<restartAtNextOffer, gathering, offered, sent, localID, loop, owed,
                              faults>>

HandleAnswer ==
    /\ Takes("answer")
    /\ LET ev == Head(queue) IN
       IF classifyAnswerNegotiationID(ev.id, remoteID, localID) = "accept"
       THEN acceptAnswer(ev)
       ELSE UNCHANGED <<loop, negotiationState, localID, remoteID, restartAtNextOffer,
                        offerRestartsICE, timeoutVars, pcVars, owed, faults>>
    /\ UNCHANGED <<transportClosed, debounceVars, restartAfterGathering, connection, callers>>

\* The timeout of the outstanding offer: a connected transport reports it.
HandleTimeout ==
    /\ Takes("timeout")
    /\ LET current == Head(queue).id = negotiationGen IN
       /\ negotiationTimer' = IF current THEN 0 ELSE negotiationTimer
       /\ owed' = (owed /\ ~(current /\ connection = "connected"))
    /\ UNCHANGED <<transportClosed, debounceVars, loop, negotiationState, localID, remoteID, restartVars,
                   negotiationGen, pcVars, connection, callers, faults>>

\* publisher.OnOffer returns: the SFU's answer is queued, or the RPC failed and
\* OnNegotiationFailed is called.
OnOffer ==
    /\ loop = "offering" /\ loop' = "idle"
    /\ \/ enqueueLocked(Ev("answer", localID, sent)) /\ UNCHANGED <<owed, faults>>
       \/ Fault /\ owed' = (owed /\ transportClosed) /\ UNCHANGED queue
    /\ UNCHANGED <<transportClosed, debounceVars, negotiationState, localID, remoteID, restartVars,
                   timeoutVars, pcVars, connection, callers>>

\* The loop ends after the event it was handling, and stops the timeout.
run ==
    /\ transportClosed /\ loop = "idle" /\ loop' = "done"
    /\ negotiationGen' = negotiationGen + 1 /\ negotiationTimer' = 0
    /\ UNCHANGED <<queue, transportClosed, debounceVars, negotiationState, localID, remoteID, restartVars,
                   pcVars, connection, callers, owed, faults>>

-----------------------------------------------------------------------------
(* The peer connection and the clock. *)

GatheringCompletes ==
    /\ gathering = "gathering" /\ gathering' = "complete"
    /\ enqueueLocked(Ev("gathered", 0, 0))
    /\ UNCHANGED <<transportClosed, debounceVars, loop, negotiationState, localID, remoteID, restartVars,
                   timeoutVars, signaling, offered, sent, settled, connection, callers, owed, faults>>

ConnectionChanges ==
    /\ ~transportClosed /\ sent > 0
    /\ connection' \in {"connecting", "connected"} \ {connection}
    /\ UNCHANGED <<queue, transportClosed, debounceVars, loop, negotiationState, localID, remoteID,
                   restartVars, timeoutVars, pcVars, callers, owed, faults>>

NegotiationTimeout ==
    /\ negotiationTimer # 0
    /\ ~\E i \in DOMAIN queue : queue[i].kind = "timeout" /\ queue[i].id = negotiationTimer
    /\ enqueueLocked(Ev("timeout", negotiationTimer, 0))
    /\ UNCHANGED <<transportClosed, debounceVars, loop, negotiationState, localID, remoteID, restartVars,
                   timeoutVars, pcVars, connection, callers, owed, faults>>

-----------------------------------------------------------------------------
Loop == HandleOffer \/ HandleRestart \/ HandleGathered \/ HandleAnswer \/ HandleTimeout \/ OnOffer
    \/ run
Debounced(t) == DebounceFires(t) \/ DebounceCallback(t)

OfferNext ==
    \/ AddTrack \/ ForceNegotiate \/ ICERestart \/ CloseTransport
    \/ \E t \in Timer : Debounced(t)
    \/ Loop
    \/ GatheringCompletes \/ ConnectionChanges \/ NegotiationTimeout

OfferSpec == OfferInit /\ [][OfferNext]_offerVars

\* The loop and the timers run, the RPC returns and gathering ends.
OfferFairness ==
    /\ WF_offerVars(Loop) /\ WF_offerVars(GatheringCompletes) /\ WF_offerVars(NegotiationTimeout)
    /\ \A t \in Timer : WF_offerVars(Debounced(t))

OfferFairSpec == OfferSpec /\ OfferFairness

-----------------------------------------------------------------------------
\* An answer settles only the offer it was made for, and the answer of the
\* outstanding offer is never refused as stale, duplicate or mismatched:
\* resends, restarts and a wrapping id notwithstanding.
SettledByItsAnswer ==
    /\ signaling = "stable" => settled = sent
    /\ \A i \in DOMAIN queue :
         queue[i].kind = "answer" /\ queue[i].of = sent /\ signaling # "stable" =>
             classifyAnswerNegotiationID(queue[i].id, remoteID, localID) = "accept"

\* The exchange and the peer connection agree: the state machine is Idle
\* exactly when no local offer awaits its answer.
IdleMeansStable == negotiationState = "Idle" <=> signaling = "stable"

\* ICE is never restarted while it gathers, which pion cannot do, whether the
\* restart went out at once, after gathering or with the next offer.
RestartsWhenGathered ==
    [][sent' > sent /\ offerRestartsICE' => gathering = "complete"]_offerVars

\* Every debounce timer that can still fire is the one Close and a forced
\* Negotiate stop.
DebounceTracked == \A t \in Timer : debounce[t] = "armed" => t = negotiateTimer

\* While nothing fails, an ICE restart that had to wait happens.
RestartHappens ==
    (restartAtNextOffer \/ restartAfterGathering)
        ~> (offerRestartsICE \/ transportClosed \/ faults < MaxFaults)

\* While nothing fails, every Negotiate is followed by an offer with every track
\* added so far, or by a call of OnNegotiationFailed.
NegotiateAnswered == owed ~> (~owed \/ transportClosed \/ faults < MaxFaults)

\* The negotiation state, the peer connection and the debounce timer agree,
\* whichever step of an exchange fails.
ExchangeConsistent == OfferTypeOK /\ IdleMeansStable /\ DebounceTracked

\* Every request to negotiate or to restart ICE is met, and no restart too early.
RequestsMet == RestartsWhenGathered /\ RestartHappens /\ NegotiateAnswered
=============================================================================
